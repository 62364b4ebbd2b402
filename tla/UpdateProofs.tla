---------------------------- MODULE UpdateProofs ----------------------------
(***************************************************************************)
(* Proofs about Update, for any number of workers, any releases and any     *)
(* number of runs, cancel requests, failing commands, signals, kills and    *)
(* power cuts: the lock, the exchange of the directories and its rollback,  *)
(* and that the whole implements AtomicInstall.                             *)
(***************************************************************************)
EXTENDS Update, SequenceTheorems, TLAPS

AtWork(w) == worker[w].pc \in Working

\* As long as no two were at work at once, or the lock was never taken away.
Safe == ~broken \/ ~unguarded

LockNames == ~unguarded => \A w \in Workers : AtWork(w) <=> lock.by = w
OneUnbroken == ~broken => \A p, q \in Workers : AtWork(p) /\ AtWork(q) => p = q

\* Lists of components name each once.
Elems(s) == {s[i] : i \in DOMAIN s}
Distinct(s) == \A i, j \in DOMAIN s : s[i] = s[j] => i = j

Planned == {"fetch", "unpack", "last", "commit", "stop", "clear", "drop", "panel"} \cup Swapping

\* One that is not in the exchange has nothing to put back.
Listed(w) ==
    /\ Distinct(worker[w].comps) /\ Distinct(worker[w].todo)
    /\ worker[w].pc \in {"out", "in", "rollback"} => Elems(worker[w].todo) \subseteq Elems(worker[w].comps)
    /\ worker[w].pc = "install" => worker[w].todo \in Seq(Scripts)
    /\ worker[w].pc \notin Swapping \cup {"drop", "panel", "finish", "exit"} =>
          worker[w].moved = {} /\ worker[w].keptMeta = None /\ worker[w].keptInit = None
          /\ ~worker[w].bad

\* What is to be exchanged is in the stage, unless a signal has removed it.
Staged(w) ==
    LET comps == Elems(worker[w].comps) IN
    /\ worker[w].pc = "last" => worker[w].stage = {} \/ comps \subseteq worker[w].stage
    /\ ~unguarded /\ worker[w].pc \in {"commit", "stop", "clear", "out"} =>
          comps \subseteq worker[w].stage
    /\ ~unguarded /\ worker[w].pc = "in" => Elems(worker[w].todo) \subseteq worker[w].stage

\* What is not exchanged is of the new release as it is, and stays.
Reused(w) ==
    \A c \in Parts \ Elems(worker[w].comps) :
        /\ worker[w].pc \in Planned => disk.part[c] = Contents(worker[w].to)[c]
        /\ worker[w].pc \in Swapping => disk.part[c] = base.part[c]

\* The components: first all are moved out, then all in.
Exchanged(w) ==
    \A c \in Elems(worker[w].comps) :
        LET pc == worker[w].pc
            todo == Elems(worker[w].todo)
            new == Contents(worker[w].to)[c]
        IN /\ pc = "out" => IF c \in todo THEN disk.part[c] = base.part[c] /\ disk.old[c] = None
                            ELSE disk.part[c] = None /\ disk.old[c] = base.part[c]
           /\ pc = "out" => worker[w].moved = {}
           /\ pc = "in" => /\ disk.old[c] = base.part[c]
                           /\ disk.part[c] = IF c \in todo THEN None ELSE new
                           /\ c \notin todo => c \in worker[w].moved
           /\ pc \in {"meta", "scripts", "install"} =>
                 disk.old[c] = base.part[c] /\ disk.part[c] = new /\ c \in worker[w].moved
           /\ pc \in {"drop", "panel"} => disk.part[c] = new

\* meta.json and the scripts, and what is kept of them.
Filed(w) ==
    LET pc == worker[w].pc
        to == worker[w].to
    IN /\ pc \in {"out", "in", "meta"} => worker[w].keptMeta = None /\ disk.meta = base.meta
       /\ pc \in {"out", "in", "meta", "scripts"} =>
             worker[w].keptInit = None /\ disk.init = base.init
       /\ pc \in {"scripts", "install"} => worker[w].keptMeta = base.meta
       /\ pc \in {"scripts", "install"} => disk.meta \in {to, base.meta}
       /\ pc = "install" => worker[w].keptInit = base.init
       /\ pc = "install" => \A s \in Scripts \ Elems(worker[w].todo) : disk.init[s] = to
       /\ pc \in {"drop", "panel"} => \A s \in Scripts : disk.init[s] = to

\* A rollback: what is left to do can be done, what is done is as it was.
Undoing(w) ==
    worker[w].pc = "rollback" =>
        /\ \A c \in Elems(worker[w].todo) :
              /\ disk.old[c] # None => disk.old[c] = base.part[c]
              /\ disk.old[c] = None =>
                    base.part[c] = IF c \in worker[w].moved THEN None ELSE disk.part[c]
        /\ \A c \in Elems(worker[w].comps) \ Elems(worker[w].todo) :
              disk.part[c] = base.part[c] \/ (worker[w].bad /\ disk.old[c] # None)
        /\ IF worker[w].keptMeta = None THEN disk.meta = base.meta
           ELSE worker[w].keptMeta = base.meta
        /\ IF worker[w].keptInit = None THEN disk.init = base.init
           ELSE worker[w].keptInit = base.init

Progress(w) == Reused(w) /\ Exchanged(w) /\ Filed(w) /\ Undoing(w)

\* A request that was in time finds its flag at the next checkpoint, of whoever.
Waiting ==
    ~broken =>
        /\ owed \ erased # {} => flag /\ \A q \in Workers : worker[q].pc # "commit"
        /\ \A w \in owed \ erased :
              \/ worker[w].pc \in Early \cup {"off", "exit"}
              \/ worker[w].bg /\ worker[w].pc \in Locking \cup {"own", "note", "start"}

Good(w) == Listed(w) /\ Staged(w) /\ (Safe => Progress(w))

IInv ==
    /\ TypeOK /\ LockNames /\ OneUnbroken
    /\ \A w \in Workers : Good(w)
    /\ NothingLost /\ Waiting

-----------------------------------------------------------------------------
(* Lists.                                                                  *)

\* A list that names each once: its tail names all but its head.
LEMMA TailElems ==
    ASSUME NEW S, NEW s \in Seq(S), s # <<>>, Distinct(s)
    PROVE  /\ Head(s) \in S /\ Tail(s) \in Seq(S) /\ Distinct(Tail(s))
           /\ Head(s) \in Elems(s)
           /\ Elems(Tail(s)) = Elems(s) \ {Head(s)}
  <1>1. Len(s) \in Nat /\ Len(s) >= 1 /\ DOMAIN s = 1..Len(s)
    BY EmptySeq, LenProperties
  <1>2. Head(s) = s[1] /\ Head(s) \in S /\ Tail(s) \in Seq(S)
    BY HeadTailProperties
  <1>3. Len(Tail(s)) = Len(s) - 1 /\ \A i \in 1..(Len(s) - 1) : Tail(s)[i] = s[i + 1]
    BY HeadTailProperties
  <1>4. DOMAIN Tail(s) = 1..(Len(s) - 1)
    BY <1>2, <1>3, LenProperties
  <1>5. Distinct(Tail(s))
    BY <1>1, <1>3, <1>4 DEF Distinct
  <1>6. Elems(Tail(s)) \subseteq Elems(s) \ {Head(s)}
    BY <1>1, <1>2, <1>3, <1>4 DEF Elems, Distinct
  <1>7. Elems(s) \ {Head(s)} \subseteq Elems(Tail(s))
    <2> SUFFICES ASSUME NEW i \in 1..Len(s), s[i] # s[1] PROVE s[i] \in Elems(Tail(s))
      BY <1>1, <1>2 DEF Elems
    <2>1. i - 1 \in 1..(Len(s) - 1) /\ s[i] = Tail(s)[i - 1]
      BY <1>1, <1>3
    <2> QED
      BY <2>1, <1>4 DEF Elems
  <1>8. Head(s) \in Elems(s)
    BY <1>1, <1>2 DEF Elems
  <1> QED
    BY <1>2, <1>5, <1>6, <1>7, <1>8

\* Nothing is in the empty list.
LEMMA NoElems == Elems(<<>>) = {} /\ Distinct(<<>>)
  BY DEF Elems, Distinct

\* The lists of the program.
LEMMA Lists ==
    /\ FullPackage \in Seq(Parts) /\ Distinct(FullPackage) /\ Elems(FullPackage) = Parts
    /\ \A r : Changed(r) \in Seq(Parts) /\ Distinct(Changed(r))
    /\ \A r : Elems(Changed(r)) = IF disk.part["node"] = Runtime[r] THEN Parts \ {"node"} ELSE Parts
    /\ <<"jbox", "jbox-panel">> \in Seq(Scripts) /\ Distinct(<<"jbox", "jbox-panel">>)
    /\ Elems(<<"jbox", "jbox-panel">>) = Scripts
  <1>1. ASSUME NEW a, NEW b, a # b
        PROVE  Distinct(<<a, b>>) /\ Elems(<<a, b>>) = {a, b}
    BY <1>1 DEF Distinct, Elems
  <1>2. ASSUME NEW a, NEW b, NEW c, a # b, b # c, a # c
        PROVE  Distinct(<<a, b, c>>) /\ Elems(<<a, b, c>>) = {a, b, c}
    BY <1>2 DEF Distinct, Elems
  <1>3. FullPackage \in Seq(Parts) /\ Distinct(FullPackage) /\ Elems(FullPackage) = Parts
    BY <1>2 DEF FullPackage, Parts
  <1>4. <<"panel", "openwrt">> \in Seq(Parts) /\ Elems(<<"panel", "openwrt">>) = Parts \ {"node"}
        /\ Distinct(<<"panel", "openwrt">>)
    BY <1>1 DEF Parts
  <1>5. <<"panel", "openwrt", "node">> \in Seq(Parts) /\ Elems(<<"panel", "openwrt", "node">>) = Parts
        /\ Distinct(<<"panel", "openwrt", "node">>)
    BY <1>2 DEF Parts
  <1>6. <<"jbox", "jbox-panel">> \in Seq(Scripts) /\ Distinct(<<"jbox", "jbox-panel">>)
        /\ Elems(<<"jbox", "jbox-panel">>) = Scripts
    BY <1>1 DEF Scripts
  <1> QED
    BY <1>3, <1>4, <1>5, <1>6 DEF Changed

-----------------------------------------------------------------------------
(* Types.                                                                  *)

\* The directories of a release are directories.
LEMMA ContentsType ==
    ASSUME NEW r \in Releases
    PROVE  Contents(r) \in [Parts -> Releases] /\ Contents(r) \in Existing(Parts)
  BY NamesAssumption DEF Contents, Existing

\* The next component of a list.
LEMMA NextPart ==
    ASSUME TypeOK, NEW w \in Workers, Listed(w), worker[w].todo # <<>>,
           worker[w].pc \in {"out", "in", "rollback"}
    PROVE  /\ Head(worker[w].todo) \in Parts
           /\ Head(worker[w].todo) \in Elems(worker[w].todo)
           /\ Head(worker[w].todo) \in Elems(worker[w].comps)
           /\ Tail(worker[w].todo) \in Seq(Parts \cup Scripts) /\ Distinct(Tail(worker[w].todo))
           /\ Elems(Tail(worker[w].todo)) = Elems(worker[w].todo) \ {Head(worker[w].todo)}
  <1>1. worker[w].todo \in Seq(Parts \cup Scripts) /\ worker[w].comps \in Seq(Parts)
    BY DEF TypeOK, Processes
  <1>2. Elems(worker[w].comps) \subseteq Parts
    BY <1>1 DEF Elems
  <1>3. Elems(worker[w].todo) \subseteq Elems(worker[w].comps) /\ Distinct(worker[w].todo)
    BY DEF Listed
  <1> QED
    BY <1>1, <1>2, <1>3, TailElems

\* The next script of a list.
LEMMA NextScript ==
    ASSUME TypeOK, NEW w \in Workers, Listed(w), worker[w].todo # <<>>, worker[w].pc = "install"
    PROVE  /\ Head(worker[w].todo) \in Scripts
           /\ Tail(worker[w].todo) \in Seq(Scripts) /\ Distinct(Tail(worker[w].todo))
           /\ Tail(worker[w].todo) \in Seq(Parts \cup Scripts)
           /\ Elems(Tail(worker[w].todo)) = Elems(worker[w].todo) \ {Head(worker[w].todo)}
  <1>1. worker[w].todo \in Seq(Scripts) /\ Distinct(worker[w].todo)
    BY DEF Listed
  <1>2. worker[w].todo \in Seq(Parts \cup Scripts)
    BY DEF TypeOK, Processes
  <1> QED
    BY <1>1, <1>2, TailElems

\* A list of components or of scripts is a list of either.
LEMMA SeqEither == Seq(Parts) \subseteq Seq(Parts \cup Scripts) /\ Seq(Scripts) \subseteq Seq(Parts \cup Scripts)
  <1>1. ASSUME NEW s \in Seq(Parts) PROVE s \in Seq(Parts \cup Scripts)
    BY ElementOfSeq, SeqDef
  <1>2. ASSUME NEW s \in Seq(Scripts) PROVE s \in Seq(Parts \cup Scripts)
    BY ElementOfSeq, SeqDef
  <1> QED
    BY <1>1, <1>2

\* A process that is not running.
LEMMA OffType == Off \in Processes
  BY NamesAssumption DEF Off, Processes

\* What the files in /tmp may say.
LEMMA FileTypes ==
    ASSUME TypeOK, NEW w \in Workers
    PROVE  /\ NoLock \in Locks /\ [NoLock EXCEPT !.by = w] \in Locks
           /\ [lock EXCEPT !.pid = Nobody, !.open = @ \cup {w}] \in Locks
           /\ [lock EXCEPT !.pid = w, !.open = @ \ {w}] \in Locks /\ LockAfter(w) \in Locks
           /\ \A p \in {w, Nobody, Dead}, s \in Stages : [pid |-> p, stage |-> s] \in Reports
           /\ StatusAfter(w) \in Reports
  BY DEF TypeOK, Locks, Reports, Pids, NoLock, Deceased, LockAfter, StatusAfter

\* Who made the lock is forgotten only by the one who dies.
LEMMA DeceasedBy ==
    ASSUME TypeOK, NEW w \in Workers, NEW q \in Workers
    PROVE  LockAfter(w).by = q <=> lock.by = q /\ q # w
  BY NamesAssumption DEF Deceased, LockAfter, TypeOK, Locks

\* The stages that are shown.
LEMMA ShownStages ==
    {"none", "committing", "restarting", "starting", "busy", "done", "failed", "cancelled"} = Stages
  BY DEF Stages, Cancellable, Ended

\* What the budget counts.
LEMMA BudgetType ==
    ASSUME TypeOK, NEW what \in {"detached", "byhand", "cancels", "faults", "signals", "kills", "cuts", "races"},
           May(what), Use(what)
    PROVE  left' \in [Counted -> Nat]
  BY DEF TypeOK, May, Use, Counted

-----------------------------------------------------------------------------
(* What an action makes of the process that takes it.                      *)

Places == {"off"} \cup Locking \cup Working

\* Where a process may be.
LEMMA PlaceNames ==
    Places =
        {"off", "lock", "look", "take", "remake", "own", "note", "start", "clear", "drop", "panel", "finish", "exit",
         "plan", "fetch", "unpack", "last", "commit", "stop", "out", "in", "meta", "scripts",
         "install", "rollback"}
  BY DEF Places, Locking, Working, Signalled, Early, Swapping

Others(w) == worker' \in [Workers -> Processes] /\ \A q \in Workers \ {w} : worker'[q] = worker[q]

\* All but the pc and the list.
Carries(w) ==
    /\ worker'[w].bg = worker[w].bg /\ worker'[w].to = worker[w].to
    /\ worker'[w].comps = worker[w].comps /\ worker'[w].moved = worker[w].moved
    /\ worker'[w].stage = worker[w].stage /\ worker'[w].bad = worker[w].bad
    /\ worker'[w].keptMeta = worker[w].keptMeta /\ worker'[w].keptInit = worker[w].keptInit

\* Writing one entry.
LEMMA Written ==
    ASSUME TypeOK, NEW w \in Workers, NEW p \in Processes, worker' = [worker EXCEPT ![w] = p]
    PROVE  Others(w) /\ worker'[w] = p
  BY DEF TypeOK, Others

\* Only the pc changes.
LEMMA GoEffect ==
    ASSUME TypeOK, NEW w \in Workers, NEW pc \in Places, Go(w, pc)
    PROVE  /\ Others(w) /\ Carries(w)
           /\ worker'[w].pc = pc /\ worker'[w].todo = worker[w].todo
  <1>1. PICK p : p = worker[w]
    OBVIOUS
  <1>2. p \in Processes
    BY <1>1 DEF TypeOK
  <1>3. [p EXCEPT !.pc = pc] \in Processes
    BY <1>2 DEF Processes, Places
  <1>4. worker' = [worker EXCEPT ![w] = [p EXCEPT !.pc = pc]]
    BY <1>1 DEF Go
  <1>5. Others(w) /\ worker'[w] = [p EXCEPT !.pc = pc]
    BY <1>3, <1>4, Written
  <1> QED
    BY <1>1, <1>2, <1>5 DEF Carries, Processes

\* Only the pc and the list change.
LEMMA TodoEffect ==
    ASSUME TypeOK, NEW w \in Workers, NEW pc \in Places, NEW s \in Seq(Parts \cup Scripts),
           Todo(w, pc, s)
    PROVE  /\ Others(w) /\ Carries(w)
           /\ worker'[w].pc = pc /\ worker'[w].todo = s
  <1>1. PICK p : p = worker[w]
    OBVIOUS
  <1>2. p \in Processes
    BY <1>1 DEF TypeOK
  <1>3. [p EXCEPT !.pc = pc, !.todo = s] \in Processes
    BY <1>2 DEF Processes, Places
  <1>4. worker' = [worker EXCEPT ![w] = [p EXCEPT !.pc = pc, !.todo = s]]
    BY <1>1 DEF Todo, TypeOK
  <1>5. Others(w) /\ worker'[w] = [p EXCEPT !.pc = pc, !.todo = s]
    BY <1>3, <1>4, Written
  <1> QED
    BY <1>1, <1>2, <1>5 DEF Carries, Processes

\* A process ends.
LEMMA OffEffect ==
    ASSUME TypeOK, NEW w \in Workers, worker' = [worker EXCEPT ![w] = Off]
    PROVE  Others(w) /\ worker'[w] = Off
  BY OffType, Written

\* One that is put aside with its list of components.
LEMMA BackEffect ==
    ASSUME TypeOK, NEW w \in Workers, RollBackOn(w)
    PROVE  /\ Others(w) /\ Carries(w) /\ left' \in [Counted -> Nat]
           /\ worker'[w].pc = "rollback" /\ worker'[w].todo = worker[w].comps
  <1>1. worker[w].comps \in Seq(Parts \cup Scripts) /\ "rollback" \in Places
    BY SeqEither DEF TypeOK, Processes, Places, Working, Swapping
  <1>2. left' \in [Counted -> Nat]
    BY BudgetType DEF RollBackOn
  <1> QED
    BY <1>1, <1>2, TodoEffect DEF RollBackOn, RollBack

-----------------------------------------------------------------------------
(* What a step leaves as it was.                                           *)

\* The others: where one is at work, no other is; else nothing of theirs changes.
LEMMA OthersGood ==
    ASSUME IInv, NEW w \in Workers, Others(w), AtWork(w) \/ UNCHANGED <<disk, base>>,
           broken => broken', unguarded => unguarded'
    PROVE  \A q \in Workers \ {w} : Good(q)'
  <1> SUFFICES ASSUME NEW q \in Workers \ {w} PROVE Good(q)'
    OBVIOUS
  <1>1. worker'[q] = worker[q] /\ Good(q)
    BY DEF Others, IInv
  <1>2. Listed(q)' /\ Staged(q)'
    BY <1>1 DEF Good, Listed, Staged
  <1>3. ASSUME Safe' PROVE Progress(q)'
    <2>1. Safe /\ Progress(q)
      BY <1>1, <1>3 DEF Safe, Good
    <2>2. CASE UNCHANGED <<disk, base>>
      BY <2>1, <2>2, <1>1 DEF Progress, Reused, Exchanged, Filed, Undoing
    <2>3. CASE AtWork(w)
      <3>1. ~AtWork(q)
        BY <2>1, <2>3 DEF IInv, Safe, LockNames, OneUnbroken
      <3>2. worker'[q].pc \notin Planned
        BY <3>1, <1>1 DEF AtWork, Planned, Working, Signalled, Early
      <3> QED
        BY <3>2 DEF Progress, Reused, Exchanged, Filed, Undoing, Planned, Swapping
    <2> QED
      BY <2>2, <2>3
  <1> QED
    BY <1>2, <1>3 DEF Good

\* Who is at work stays so, and the lock with him.
LEMMA SameAtWork ==
    ASSUME IInv, NEW w \in Workers, Others(w), AtWork(w)' <=> AtWork(w),
           UNCHANGED <<lock, unguarded>>, broken => broken'
    PROVE  LockNames' /\ OneUnbroken'
  BY DEF IInv, LockNames, OneUnbroken, Others, AtWork

\* In the exchange: nobody was promised to be heard, but another that is broken.
LEMMA ExchangeWaiting ==
    ASSUME IInv, NEW w \in Workers, Others(w), worker[w].pc \in Swapping \cup {"stop", "clear", "drop", "panel", "finish"},
           worker'[w].pc # "commit", UNCHANGED <<owed, erased, flag>>, broken => broken'
    PROVE  Waiting'
  BY DEF IInv, TypeOK, Waiting, Others, Swapping, Early, Locking

\* What a step in the exchange has to be shown for.
LEMMA ExchangeStep ==
    ASSUME IInv, NEW w \in Workers, Others(w),
           worker[w].pc \in Swapping \cup {"stop", "clear", "drop", "panel", "finish"},
           worker'[w].pc \in Working \ {"commit"},
           UNCHANGED <<lock, flag, owed, erased, unguarded>>, broken => broken',
           TypeOK', Good(w)', NothingLost'
    PROVE  IInv'
  <1>1. AtWork(w) /\ AtWork(w)'
    BY DEF AtWork, Working, Signalled
  <1>2. LockNames' /\ OneUnbroken'
    BY <1>1, SameAtWork
  <1>3. Waiting'
    BY ExchangeWaiting
  <1>4. \A q \in Workers : Good(q)'
    BY <1>1, OthersGood
  <1> QED
    BY <1>2, <1>3, <1>4 DEF IInv

\* A worker that is alone answers for what there is.
LEMMA OwnLoss ==
    ASSUME IInv, NEW w \in Workers, Others(w), AtWork(w), unguarded => unguarded',
           ASSUME NEW d \in Parts, ~unguarded', disk'.part[d] = None, disk'.old[d] = None
           PROVE  base'.part[d] = None /\ (worker'[w].pc \in Renaming => d \in worker'[w].stage)
    PROVE  NothingLost'
  <1> SUFFICES ASSUME ~unguarded', NEW d \in Parts, disk'.part[d] = None, disk'.old[d] = None
               PROVE  base'.part[d] = None
                      /\ \A q \in Workers : worker'[q].pc \in Renaming => d \in worker'[q].stage
    BY DEF NothingLost
  <1>1. \A q \in Workers \ {w} : ~AtWork(q) /\ worker'[q] = worker[q]
    BY DEF IInv, LockNames, Others
  <1>2. \A q \in Workers \ {w} : worker'[q].pc \notin Renaming
    BY <1>1 DEF AtWork, Renaming, Working
  <1> QED
    BY <1>2

\* The worker that moves in, one component at a time.
LEMMA MoveInStep ==
    ASSUME IInv, NEW w \in Workers, MoveIn(w), TypeOK'
    PROVE  IInv'
  <1>pc. worker[w].pc = "in"
    BY DEF MoveIn, At
  <1>ok. TypeOK /\ Good(w) /\ NothingLost
    BY DEF IInv
  <1>work. AtWork(w)
    BY <1>pc DEF AtWork, Working, Swapping
  <1>same. UNCHANGED <<lock, status, flag, owed, erased, unguarded, broken, base>>
    BY DEF MoveIn, history
  <1>1. CASE worker[w].todo = <<>>
    <2>1. Go(w, "meta") /\ UNCHANGED disk
      BY <1>1 DEF MoveIn
    <2>2. Others(w) /\ Carries(w) /\ worker'[w].pc = "meta" /\ worker'[w].todo = worker[w].todo
      BY <2>1, <1>ok, GoEffect, PlaceNames
    <2>3. Elems(worker[w].todo) = {}
      BY <1>1, NoElems
    <2>4. Listed(w)' /\ Staged(w)'
      BY <2>2, <1>ok, <1>pc, <1>same DEF Good, Listed, Staged, Carries, Swapping
    <2>5. ASSUME Safe' PROVE Progress(w)'
      <3>1. Safe /\ Progress(w)
        BY <2>5, <1>same, <1>ok DEF Safe, Good
      <3> QED
        BY <2>1, <2>2, <2>3, <3>1, <1>same, <1>pc
        DEF Carries, Progress, Reused, Exchanged, Filed, Undoing, Planned, Swapping
    <2>6. NothingLost'
      BY <2>1, <2>2, <1>ok, <1>same, <1>pc DEF NothingLost, Others, Carries, Renaming, Swapping
    <2> QED
      BY <2>2, <2>4, <2>5, <2>6, <1>same, <1>pc, ExchangeStep DEF Good, Working, Swapping
  <1>2. CASE worker[w].todo # <<>>
    <2> PICK c : c = Head(worker[w].todo)
      OBVIOUS
    <2> PICK p : p = worker[w]
      OBVIOUS
    <2>1. c \in Parts /\ c \in Elems(p.todo) /\ c \in Elems(p.comps)
          /\ Tail(p.todo) \in Seq(Parts \cup Scripts) /\ Distinct(Tail(p.todo))
          /\ Elems(Tail(p.todo)) = Elems(p.todo) \ {c}
      BY <1>2, <1>pc, <1>ok, NextPart DEF Good
    <2>2. p \in Processes
      BY <1>ok DEF TypeOK
    <2>3. CASE c \in p.stage /\ worker' = [worker EXCEPT ![w].todo = Tail(@), ![w].moved = @ \cup {c},
                                                       ![w].stage = @ \ {c}]
                /\ disk' = [disk EXCEPT !.part[c] = Contents(p.to)[c]]
      <3>1. [p EXCEPT !.todo = Tail(p.todo), !.moved = @ \cup {c}, !.stage = @ \ {c}] \in Processes
        BY <2>1, <2>2 DEF Processes
      <3>2. worker' = [worker EXCEPT ![w] =
                          [p EXCEPT !.todo = Tail(p.todo), !.moved = @ \cup {c}, !.stage = @ \ {c}]]
        BY <2>3, <1>ok DEF TypeOK
      <3>3. Others(w) /\ worker'[w] = [p EXCEPT !.todo = Tail(p.todo), !.moved = @ \cup {c}, !.stage = @ \ {c}]
        BY <3>1, <3>2, <1>ok, Written
      <3>4. /\ worker'[w].pc = "in" /\ worker'[w].to = p.to /\ worker'[w].comps = p.comps
            /\ worker'[w].todo = Tail(p.todo) /\ worker'[w].moved = p.moved \cup {c}
            /\ worker'[w].stage = p.stage \ {c} /\ worker'[w].keptMeta = p.keptMeta
            /\ worker'[w].keptInit = p.keptInit /\ worker'[w].bad = p.bad
        BY <3>3, <2>2, <1>pc DEF Processes
      <3>5. /\ disk'.old = disk.old /\ disk'.meta = disk.meta /\ disk'.init = disk.init
            /\ \A d \in Parts : disk'.part[d] = IF d = c THEN Contents(p.to)[c] ELSE disk.part[d]
        BY <2>3, <1>ok DEF TypeOK, Disks, Existing
      <3>5a. p.to \in Releases
        BY <2>2 DEF Processes
      <3>6. Contents(p.to)[c] # None
        BY <2>1, <3>5a, ContentsType, NamesAssumption
      <3>7. Listed(w)' /\ Staged(w)'
        BY <2>1, <3>4, <1>ok, <1>pc, <1>same DEF Good, Listed, Staged, Swapping
      <3>8. ASSUME Safe' PROVE Progress(w)'
        <4>1. Safe /\ Progress(w)
          BY <3>8, <1>same, <1>ok DEF Safe, Good
        <4>2. Elems(p.comps) \subseteq Parts
          BY <2>2 DEF Processes, Elems
        <4>3. Reused(w)'
          BY <4>1, <3>4, <3>5, <2>1, <1>same, <1>pc DEF Progress, Reused, Planned, Swapping
        <4>4. Exchanged(w)'
          BY <4>1, <4>2, <3>4, <3>5, <2>1, <1>same, <1>pc DEF Progress, Exchanged
        <4>5. Filed(w)' /\ Undoing(w)'
          BY <4>1, <3>4, <3>5, <1>same, <1>pc DEF Progress, Filed, Undoing
        <4> QED
          BY <4>3, <4>4, <4>5 DEF Progress
      <3>9. NothingLost'
        <4>1. ASSUME NEW d \in Parts, ~unguarded', disk'.part[d] = None, disk'.old[d] = None
              PROVE  base'.part[d] = None /\ d \in worker'[w].stage
          BY <4>1, <3>4, <3>5, <3>6, <1>ok, <1>same, <1>pc DEF NothingLost, Renaming, Swapping
        <4> QED
          BY <4>1, <3>3, <1>work, <1>same, OwnLoss
      <3> QED
        BY <3>3, <3>4, <3>7, <3>8, <3>9, <1>same, <1>pc, ExchangeStep DEF Good, Working, Swapping
    <2>4. CASE worker' = [worker EXCEPT ![w].pc = "rollback", ![w].todo = worker[w].comps,
                                         ![w].moved = worker[w].moved \cup {c}] /\ UNCHANGED disk
      <3>1. [p EXCEPT !.pc = "rollback", !.todo = p.comps, !.moved = p.moved \cup {c}] \in Processes
        <4>1. p.comps \in Seq(Parts \cup Scripts) /\ "rollback" \in {"off"} \cup Locking \cup Working
          BY <2>2, SeqEither DEF Processes, Working, Swapping
        <4> QED
          BY <2>1, <2>2, <4>1 DEF Processes
      <3>2. worker' = [worker EXCEPT ![w] =
                          [p EXCEPT !.pc = "rollback", !.todo = p.comps, !.moved = p.moved \cup {c}]]
        BY <2>4, <1>ok DEF TypeOK
      <3>3. Others(w) /\ worker'[w] = [p EXCEPT !.pc = "rollback", !.todo = p.comps, !.moved = p.moved \cup {c}]
        BY <3>1, <3>2, <1>ok, Written
      <3>4. /\ worker'[w].pc = "rollback" /\ worker'[w].to = p.to /\ worker'[w].comps = p.comps
            /\ worker'[w].todo = p.comps /\ worker'[w].moved = p.moved \cup {c}
            /\ worker'[w].stage = p.stage /\ worker'[w].keptMeta = p.keptMeta
            /\ worker'[w].keptInit = p.keptInit /\ worker'[w].bad = p.bad
        BY <3>3, <2>2, <1>pc DEF Processes
      <3>7. Listed(w)' /\ Staged(w)'
        BY <2>1, <3>4, <1>ok, <1>pc, <1>same DEF Good, Listed, Staged, Swapping
      <3>8. ASSUME Safe' PROVE Progress(w)'
        <4>1. Safe /\ Progress(w)
          BY <3>8, <1>same, <1>ok DEF Safe, Good
        <4>3. Reused(w)'
          BY <4>1, <3>4, <2>4, <2>1, <1>same, <1>pc DEF Progress, Reused, Planned, Swapping
        <4>4. Exchanged(w)' /\ Filed(w)'
          BY <3>4 DEF Exchanged, Filed
        <4>5. Undoing(w)'
          BY <4>1, <3>4, <2>1, <2>4, <1>same, <1>pc DEF Progress, Exchanged, Filed, Undoing
        <4> QED
          BY <4>3, <4>4, <4>5 DEF Progress
      <3>9. NothingLost'
        BY <3>3, <3>4, <2>4, <1>ok, <1>same, <1>pc DEF NothingLost, Others, Renaming, Swapping
      <3> QED
        BY <3>3, <3>4, <3>7, <3>8, <3>9, <1>same, <1>pc, ExchangeStep DEF Good, Working, Swapping
    <2> QED
      BY <1>2, <2>3, <2>4 DEF MoveIn
  <1> QED
    BY <1>1, <1>2

\* What is known of a worker.
LEMMA Known ==
    ASSUME IInv, NEW w \in Workers
    PROVE  /\ TypeOK /\ Good(w) /\ NothingLost /\ worker[w] \in Processes
           /\ worker[w].to \in Releases /\ Elems(worker[w].comps) \subseteq Parts
           /\ worker[w].comps \in Seq(Parts \cup Scripts)
           /\ \A c \in Parts : Contents(worker[w].to)[c] # None
  <1>1. TypeOK /\ Good(w) /\ NothingLost /\ worker[w] \in Processes
    BY DEF IInv, TypeOK
  <1>2. worker[w].to \in Releases /\ worker[w].comps \in Seq(Parts)
    BY <1>1 DEF Processes
  <1>3. Elems(worker[w].comps) \subseteq Parts
    BY <1>2 DEF Elems
  <1>4. \A c \in Parts : Contents(worker[w].to)[c] # None
    BY <1>2, ContentsType, NamesAssumption
  <1> QED
    BY <1>1, <1>2, <1>3, <1>4, SeqEither

\* Two that are not there may be told apart from None.
LEMMA KeptSomething ==
    ASSUME TypeOK
    PROVE  base.meta # None /\ base.init # None /\ disk.init # None
  BY NamesAssumption DEF TypeOK, Installations, Disks, Existing

\* The services are stopped.
LEMMA StopServicesStep ==
    ASSUME IInv, NEW w \in Workers, StopServices(w), TypeOK'
    PROVE  IInv'
  <1>ok. TypeOK /\ Good(w) /\ NothingLost /\ worker[w] \in Processes
    BY Known
  <1>pc. worker[w].pc = "stop" /\ AtWork(w)
    BY DEF StopServices, At, AtWork, Working, Signalled
  <1>same. UNCHANGED <<disk, lock, status, flag, owed, erased, unguarded, broken, base>>
    BY DEF StopServices, history
  <1> PICK p : p = worker[w]
    OBVIOUS
  <1>1. [p EXCEPT !.pc = "clear", !.post = TRUE] \in Processes
    BY <1>ok DEF Processes, Working
  <1>2. worker' = [worker EXCEPT ![w] = [p EXCEPT !.pc = "clear", !.post = TRUE]]
    BY <1>ok DEF StopServices, TypeOK
  <1>3. Others(w) /\ worker'[w] = [p EXCEPT !.pc = "clear", !.post = TRUE]
    BY <1>1, <1>2, <1>ok, Written
  <1>4. Carries(w) /\ worker'[w].pc = "clear" /\ worker'[w].todo = worker[w].todo
    BY <1>3, <1>ok DEF Processes, Carries
  <1>5. Listed(w)' /\ Staged(w)'
    BY <1>4, <1>pc, <1>ok, <1>same DEF Good, Listed, Staged, Carries, Swapping
  <1>6. ASSUME Safe' PROVE Progress(w)'
    <2>1. Progress(w)
      BY <1>6, <1>same, <1>ok DEF Safe, Good
    <2> QED
      BY <2>1, <1>4, <1>pc, <1>same
      DEF Carries, Progress, Reused, Exchanged, Filed, Undoing, Planned, Swapping
  <1>7. ASSUME NEW d \in Parts, ~unguarded', disk'.part[d] = None, disk'.old[d] = None
        PROVE  base'.part[d] = None /\ d \in worker'[w].stage
    <2>1. base'.part[d] = None
      BY <1>7, <1>ok, <1>same DEF NothingLost
    <2>2. d \in Elems(worker[w].comps)
      <3>1. Progress(w)
        BY <1>7, <1>same, <1>ok DEF Good, Safe
      <3> QED
        BY <3>1, <1>7, <1>pc, <1>same, Known DEF Progress, Reused, Planned
    <2>3. Elems(worker[w].comps) \subseteq worker[w].stage
      BY <1>7, <1>pc, <1>same, <1>ok DEF Good, Staged
    <2> QED
      BY <2>1, <2>2, <2>3, <1>4 DEF Carries
  <1>8. NothingLost'
    BY <1>7, <1>3, <1>pc, <1>same, OwnLoss
  <1> QED
    BY <1>3, <1>4, <1>5, <1>6, <1>8, <1>pc, <1>same, ExchangeStep DEF Good, Working

\* One that has not begun, or has ended, has nothing to answer for.
LEMMA IdleGood ==
    ASSUME NEW w \in Workers, Distinct(worker'[w].comps), Distinct(worker'[w].todo),
           \/ worker'[w].pc = "exit"
           \/ /\ worker'[w].pc \in {"off", "lock", "look", "take", "remake", "own", "note", "start", "plan"}
              /\ worker'[w].moved = {} /\ worker'[w].keptMeta = None
              /\ worker'[w].keptInit = None /\ ~worker'[w].bad
    PROVE  Good(w)'
  BY DEF Good, Listed, Staged, Progress, Reused, Exchanged, Filed, Undoing, Planned, Swapping

\* Before the exchange a worker has kept nothing.
LEMMA EarlyGood ==
    ASSUME IInv, NEW w \in Workers, Carries(w), worker'[w].todo = worker[w].todo,
           \/ worker'[w].pc = "exit"
           \/ /\ worker[w].pc \in {"off", "lock", "look", "take", "remake", "own", "note", "start"}
              /\ worker'[w].pc \in {"off", "lock", "look", "take", "remake", "own", "note", "start", "plan"}
    PROVE  Good(w)'
  <1>1. Listed(w)
    BY DEF IInv, Good
  <1> QED
    BY <1>1, IdleGood DEF Listed, Carries, Swapping

\* The exchange begins.
LEMMA ClearOldStep ==
    ASSUME IInv, NEW w \in Workers, ClearOld(w), TypeOK'
    PROVE  IInv'
  <1>ok. TypeOK /\ Good(w) /\ NothingLost /\ worker[w] \in Processes
    BY Known
  <1>pc. worker[w].pc = "clear" /\ AtWork(w)
    BY DEF ClearOld, At, AtWork, Working
  <1>same. UNCHANGED <<lock, status, flag, owed, erased, unguarded, broken>>
    BY DEF ClearOld
  <1>1. CASE disk' = Without(Components(w)) /\ Todo(w, "out", worker[w].comps)
    <2>1. Others(w) /\ Carries(w) /\ worker'[w].pc = "out" /\ worker'[w].todo = worker[w].comps
      BY <1>1, <1>ok, Known, TodoEffect, PlaceNames
    <2>2. /\ disk'.part = disk.part /\ disk'.meta = disk.meta /\ disk'.init = disk.init
          /\ \A c \in Parts : disk'.old[c] = IF c \in Elems(worker[w].comps) THEN None ELSE disk.old[c]
      BY <1>1, <1>ok DEF Without, Components, TypeOK, Disks, Elems
    <2>3. base'.part = disk.part /\ base'.meta = disk.meta /\ base'.init = disk.init
      BY DEF ClearOld, Installed
    <2>4. Listed(w)' /\ Staged(w)'
      BY <2>1, <1>pc, <1>ok, <1>same DEF Good, Listed, Staged, Carries, Swapping
    <2>5. Elems(worker[w].comps) \subseteq Parts
      BY Known
    <2>6. ASSUME Safe' PROVE Progress(w)'
      <3>1. Progress(w) /\ Listed(w)
        BY <2>6, <1>same, <1>ok DEF Safe, Good
      <3>2. Reused(w)'
        BY <3>1, <2>1, <2>2, <2>3, <1>pc DEF Progress, Reused, Carries, Planned, Swapping
      <3>3. Exchanged(w)'
        BY <3>1, <2>1, <2>2, <2>3, <2>5, <1>pc DEF Listed, Exchanged, Carries, Swapping
      <3>4. Filed(w)' /\ Undoing(w)'
        BY <3>1, <2>1, <2>2, <2>3, <1>pc DEF Listed, Filed, Undoing, Carries, Swapping
      <3> QED
        BY <3>2, <3>3, <3>4 DEF Progress
    <2>7. ASSUME NEW d \in Parts, ~unguarded', disk'.part[d] = None, disk'.old[d] = None
          PROVE  base'.part[d] = None /\ d \in worker'[w].stage
      <3>1. Progress(w)
        BY <2>7, <1>same, <1>ok DEF Good, Safe
      <3>2. d \in Elems(worker[w].comps)
        BY <3>1, <2>2, <2>7, <1>pc, Known DEF Progress, Reused, Planned
      <3>3. Elems(worker[w].comps) \subseteq worker[w].stage
        BY <2>7, <1>pc, <1>same, <1>ok DEF Good, Staged
      <3> QED
        BY <3>2, <3>3, <2>1, <2>2, <2>3, <2>7 DEF Carries
    <2>8. NothingLost'
      BY <2>7, <2>1, <1>pc, <1>same, OwnLoss
    <2> QED
      BY <2>1, <2>4, <2>6, <2>8, <1>pc, <1>same, ExchangeStep DEF Good, Working, Swapping
  <1>2. CASE Go(w, "exit") /\ \E cs : disk' = Without(cs)
    <2>1. Others(w) /\ Carries(w) /\ worker'[w].pc = "exit" /\ worker'[w].todo = worker[w].todo
      BY <1>2, <1>ok, GoEffect, PlaceNames
    <2>2. disk'.part = disk.part /\ base'.part = disk.part
      BY <1>2, <1>ok DEF ClearOld, Installed, Without, TypeOK, Disks
    <2>3. Good(w)'
      BY <2>1, EarlyGood
    <2>4. NothingLost'
      BY <2>1, <2>2, <1>pc, <1>same, OwnLoss DEF Renaming, Swapping
    <2> QED
      BY <2>1, <2>3, <2>4, <1>pc, <1>same, ExchangeStep DEF Working
  <1> QED
    BY <1>1, <1>2 DEF ClearOld

\* The exchange, or the rest of it, is to be undone.
LEMMA BackStep ==
    ASSUME IInv, NEW w \in Workers, TypeOK', RollBackOn(w),
           worker[w].pc \in {"out", "meta", "scripts", "install"},
           UNCHANGED <<disk, lock, status, flag, panel, latest, history>>
    PROVE  IInv'
  <1>ok. TypeOK /\ Good(w) /\ NothingLost /\ worker[w] \in Processes
    BY Known
  <1>work. AtWork(w)
    BY DEF AtWork, Working, Swapping
  <1>same. UNCHANGED <<disk, lock, status, flag, owed, erased, unguarded, broken, base>>
    BY DEF history
  <1>1. Others(w) /\ Carries(w) /\ worker'[w].pc = "rollback" /\ worker'[w].todo = worker[w].comps
    BY <1>ok, BackEffect
  <1>2. Listed(w)' /\ Staged(w)'
    BY <1>1, <1>ok, <1>same DEF Good, Listed, Staged, Carries, Swapping
  <1>3. ASSUME Safe' PROVE Progress(w)'
    <2>1. Progress(w)
      BY <1>3, <1>same, <1>ok DEF Safe, Good
    <2>2. Reused(w)'
      BY <2>1, <1>1, <1>same DEF Progress, Reused, Carries, Planned, Swapping
    <2>3. Exchanged(w)' /\ Filed(w)'
      BY <1>1 DEF Exchanged, Filed
    <2>4. \A c \in Elems(worker[w].comps) :
             /\ disk.old[c] # None => disk.old[c] = base.part[c]
             /\ disk.old[c] = None =>
                    base.part[c] = IF c \in worker[w].moved THEN None ELSE disk.part[c]
      <3>1. CASE worker[w].pc = "out"
        BY <2>1, <3>1 DEF Progress, Exchanged
      <3>2. CASE worker[w].pc \in {"meta", "scripts", "install"}
        BY <2>1, <3>2 DEF Progress, Exchanged
      <3> QED
        BY <3>1, <3>2
    <2>5. /\ IF worker[w].keptMeta = None THEN disk.meta = base.meta
             ELSE worker[w].keptMeta = base.meta
          /\ IF worker[w].keptInit = None THEN disk.init = base.init
             ELSE worker[w].keptInit = base.init
      BY <2>1, <1>ok, KeptSomething DEF Progress, Filed
    <2>6. Undoing(w)'
      BY <2>4, <2>5, <1>1, <1>same DEF Undoing, Carries
    <2> QED
      BY <2>2, <2>3, <2>6 DEF Progress
  <1>4. ASSUME NEW d \in Parts, ~unguarded', disk'.part[d] = None, disk'.old[d] = None
        PROVE  base'.part[d] = None /\ (worker'[w].pc \in Renaming => d \in worker'[w].stage)
    BY <1>4, <1>ok, <1>same, <1>1 DEF NothingLost, Renaming, Swapping
  <1>5. NothingLost'
    BY <1>4, <1>1, <1>work, <1>same, OwnLoss
  <1> QED
    BY <1>1, <1>2, <1>3, <1>5, <1>same, ExchangeStep DEF Good, Working, Swapping

\* The worker that moves out, one component at a time.
LEMMA MoveOutStep ==
    ASSUME IInv, NEW w \in Workers, MoveOut(w), TypeOK'
    PROVE  IInv'
  <1>ok. TypeOK /\ Good(w) /\ NothingLost /\ worker[w] \in Processes
    BY Known
  <1>pc. worker[w].pc = "out" /\ AtWork(w)
    BY DEF MoveOut, At, AtWork, Working, Swapping
  <1>same. UNCHANGED <<lock, status, flag, owed, erased, unguarded, broken, base>>
    BY DEF MoveOut, history
  <1>1. CASE worker[w].todo = <<>>
    <2>1. Todo(w, "in", worker[w].comps) /\ UNCHANGED disk
      BY <1>1 DEF MoveOut
    <2>2. Others(w) /\ Carries(w) /\ worker'[w].pc = "in" /\ worker'[w].todo = worker[w].comps
      BY <2>1, <1>ok, Known, TodoEffect, PlaceNames
    <2>3. Elems(worker[w].todo) = {}
      BY <1>1, NoElems
    <2>4. Listed(w)' /\ Staged(w)'
      BY <2>2, <1>pc, <1>ok, <1>same DEF Good, Listed, Staged, Carries, Swapping
    <2>5. ASSUME Safe' PROVE Progress(w)'
      <3>1. Progress(w)
        BY <2>5, <1>same, <1>ok DEF Safe, Good
      <3>2. Reused(w)'
        BY <3>1, <2>1, <2>2, <1>same, <1>pc DEF Progress, Reused, Carries, Planned, Swapping
      <3>3. Exchanged(w)'
        BY <3>1, <2>1, <2>2, <2>3, <1>same, <1>pc DEF Progress, Exchanged, Carries
      <3>4. Filed(w)' /\ Undoing(w)'
        BY <3>1, <2>1, <2>2, <1>same, <1>pc DEF Progress, Filed, Undoing, Carries
      <3> QED
        BY <3>2, <3>3, <3>4 DEF Progress
    <2>6. ASSUME NEW d \in Parts, ~unguarded', disk'.part[d] = None, disk'.old[d] = None
          PROVE  base'.part[d] = None /\ d \in worker'[w].stage
      BY <2>6, <2>1, <2>2, <1>pc, <1>ok, <1>same DEF NothingLost, Renaming, Swapping, Carries
    <2>7. NothingLost'
      BY <2>6, <2>2, <1>pc, <1>same, OwnLoss
    <2> QED
      BY <2>2, <2>4, <2>5, <2>7, <1>pc, <1>same, ExchangeStep DEF Good, Working, Swapping
  <1>2. CASE /\ worker[w].todo # <<>>
             /\ Todo(w, "out", Tail(worker[w].todo))
             /\ LET c == Head(worker[w].todo) IN
                disk' = IF disk.part[c] = None THEN disk
                        ELSE [disk EXCEPT !.old[c] = disk.part[c], !.part[c] = None]
    <2> PICK c : c = Head(worker[w].todo)
      OBVIOUS
    <2>1. /\ Todo(w, "out", Tail(worker[w].todo))
          /\ disk' = IF disk.part[c] = None THEN disk
                     ELSE [disk EXCEPT !.old[c] = disk.part[c], !.part[c] = None]
      BY <1>2
    <2>2. c \in Parts /\ c \in Elems(worker[w].todo) /\ c \in Elems(worker[w].comps)
          /\ Tail(worker[w].todo) \in Seq(Parts \cup Scripts) /\ Distinct(Tail(worker[w].todo))
          /\ Elems(Tail(worker[w].todo)) = Elems(worker[w].todo) \ {c}
      BY <1>2, <1>pc, <1>ok, NextPart DEF Good
    <2>3. Others(w) /\ Carries(w) /\ worker'[w].pc = "out" /\ worker'[w].todo = Tail(worker[w].todo)
      BY <2>1, <2>2, <1>ok, TodoEffect, PlaceNames, ZenonT(40)
    <2>4. /\ disk'.meta = disk.meta /\ disk'.init = disk.init
          /\ \A d \in Parts \ {c} : disk'.part[d] = disk.part[d] /\ disk'.old[d] = disk.old[d]
          /\ disk'.part[c] = None
          /\ disk'.old[c] = IF disk.part[c] = None THEN disk.old[c] ELSE disk.part[c]
      <3>1. CASE disk.part[c] = None
        BY <3>1, <2>1
      <3>2. CASE disk.part[c] # None
        BY <3>2, <2>1, <2>2, <1>ok DEF TypeOK, Disks, Existing
      <3> QED
        BY <3>1, <3>2
    <2>5. Listed(w)' /\ Staged(w)'
      BY <2>2, <2>3, <1>pc, <1>ok, <1>same DEF Good, Listed, Staged, Carries, Swapping
    <2>6. ASSUME Safe' PROVE Progress(w)'
      <3>1. Progress(w)
        BY <2>6, <1>same, <1>ok DEF Safe, Good
      <3>2. Reused(w)'
        BY <3>1, <2>2, <2>3, <2>4, <1>same, <1>pc DEF Progress, Reused, Carries, Planned, Swapping
      <3>3. Exchanged(w)'
        BY <3>1, <2>2, <2>3, <2>4, <1>same, <1>pc, Known DEF Progress, Exchanged, Carries
      <3>4. Filed(w)' /\ Undoing(w)'
        BY <3>1, <2>3, <2>4, <1>same, <1>pc DEF Progress, Filed, Undoing, Carries
      <3> QED
        BY <3>2, <3>3, <3>4 DEF Progress
    <2>7. ASSUME NEW d \in Parts, ~unguarded', disk'.part[d] = None, disk'.old[d] = None
          PROVE  base'.part[d] = None /\ d \in worker'[w].stage
      <3>1. disk.part[d] = None /\ disk.old[d] = None
        BY <2>7, <2>4
      <3> QED
        BY <2>7, <3>1, <2>3, <1>pc, <1>ok, <1>same DEF NothingLost, Renaming, Swapping, Carries
    <2>8. NothingLost'
      BY <2>7, <2>3, <1>pc, <1>same, OwnLoss
    <2> QED
      BY <2>3, <2>5, <2>6, <2>8, <1>pc, <1>same, ExchangeStep DEF Good, Working, Swapping
  <1>3. CASE RollBackOn(w) /\ UNCHANGED disk
    BY <1>3, <1>pc, BackStep DEF MoveOut
  <1> QED
    BY <1>1, <1>2, <1>3 DEF MoveOut

\* meta.json.
LEMMA MetaStep ==
    ASSUME IInv, NEW w \in Workers, Meta(w), TypeOK'
    PROVE  IInv'
  <1>ok. TypeOK /\ Good(w) /\ NothingLost /\ worker[w] \in Processes /\ worker[w].to \in Releases
    BY Known
  <1>pc. worker[w].pc = "meta" /\ AtWork(w)
    BY DEF Meta, At, AtWork, Working, Swapping
  <1>same. UNCHANGED <<lock, status, flag, owed, erased, unguarded, broken, base>>
    BY DEF Meta, history
  <1>1. CASE RollBackOn(w) /\ UNCHANGED disk
    BY <1>1, <1>pc, BackStep DEF Meta
  <1>2. CASE /\ worker' = [worker EXCEPT ![w].pc = "scripts", ![w].keptMeta = disk.meta,
                                         ![w].stage = @ \ {"meta"}]
             /\ disk' \in {disk, [disk EXCEPT !.meta = worker[w].to]}
    <2> PICK p : p = worker[w]
      OBVIOUS
    <2> DEFINE new == [p EXCEPT !.pc = "scripts", !.keptMeta = disk.meta, !.stage = @ \ {"meta"}]
    <2>1. new \in Processes
      BY <1>ok DEF TypeOK, Disks, Processes, Working, Swapping
    <2>2. worker' = [worker EXCEPT ![w] = new]
      BY <1>2, <1>ok DEF TypeOK
    <2>3. Others(w) /\ worker'[w] = new
      BY <2>1, <2>2, <1>ok, Written
    <2>4. /\ worker'[w].pc = "scripts" /\ worker'[w].to = p.to /\ worker'[w].comps = p.comps
          /\ worker'[w].todo = p.todo /\ worker'[w].moved = p.moved
          /\ worker'[w].stage = p.stage \ {"meta"} /\ worker'[w].keptMeta = disk.meta
          /\ worker'[w].keptInit = p.keptInit /\ worker'[w].bad = p.bad
      BY <2>3, <1>ok DEF Processes
    <2>5. /\ disk'.part = disk.part /\ disk'.old = disk.old /\ disk'.init = disk.init
          /\ disk'.meta \in {worker[w].to, disk.meta}
      BY <1>2, <1>ok DEF TypeOK, Disks
    <2>6. Listed(w)' /\ Staged(w)'
      BY <2>4, <1>pc, <1>ok, <1>same DEF Good, Listed, Staged, Swapping
    <2>7. ASSUME Safe' PROVE Progress(w)'
      <3>1. Progress(w)
        BY <2>7, <1>same, <1>ok DEF Safe, Good
      <3>2. Reused(w)' /\ Exchanged(w)'
        BY <3>1, <2>4, <2>5, <1>same, <1>pc DEF Progress, Reused, Exchanged, Planned, Swapping
      <3>3. Filed(w)' /\ Undoing(w)'
        BY <3>1, <2>4, <2>5, <1>same, <1>pc DEF Progress, Filed, Undoing
      <3> QED
        BY <3>2, <3>3 DEF Progress
    <2>8. ASSUME NEW d \in Parts, ~unguarded', disk'.part[d] = None, disk'.old[d] = None
          PROVE  base'.part[d] = None /\ d \in worker'[w].stage
      BY <2>8, <2>4, <2>5, <1>pc, <1>ok, <1>same DEF NothingLost, Renaming, Swapping, Parts
    <2>9. NothingLost'
      BY <2>8, <2>3, <1>pc, <1>same, OwnLoss
    <2> QED
      BY <2>3, <2>4, <2>6, <2>7, <2>9, <1>pc, <1>same, ExchangeStep DEF Good, Working, Swapping
  <1> QED
    BY <1>1, <1>2 DEF Meta

\* The scripts that are there are kept.
LEMMA KeepScriptsStep ==
    ASSUME IInv, NEW w \in Workers, KeepScripts(w), TypeOK'
    PROVE  IInv'
  <1>ok. TypeOK /\ Good(w) /\ NothingLost /\ worker[w] \in Processes
    BY Known
  <1>pc. worker[w].pc = "scripts" /\ AtWork(w)
    BY DEF KeepScripts, At, AtWork, Working, Swapping
  <1>same. UNCHANGED <<disk, lock, status, flag, owed, erased, unguarded, broken, base>>
    BY DEF KeepScripts, history
  <1>1. CASE RollBackOn(w)
    BY <1>1, <1>pc, BackStep DEF KeepScripts
  <1>2. CASE worker' = [worker EXCEPT ![w].pc = "install", ![w].keptInit = disk.init,
                                      ![w].todo = <<"jbox", "jbox-panel">>]
    <2> PICK p : p = worker[w]
      OBVIOUS
    <2> DEFINE new == [p EXCEPT !.pc = "install", !.keptInit = disk.init, !.todo = <<"jbox", "jbox-panel">>]
    <2>1. new \in Processes
      <3>1. <<"jbox", "jbox-panel">> \in Seq(Parts \cup Scripts)
        BY Lists, SeqEither
      <3> QED
        BY <3>1, <1>ok DEF TypeOK, Disks, Processes, Working, Swapping
    <2>2. worker' = [worker EXCEPT ![w] = new]
      BY <1>2, <1>ok DEF TypeOK
    <2>3. Others(w) /\ worker'[w] = new
      BY <2>1, <2>2, <1>ok, Written
    <2>4. /\ worker'[w].pc = "install" /\ worker'[w].to = p.to /\ worker'[w].comps = p.comps
          /\ worker'[w].todo = <<"jbox", "jbox-panel">> /\ worker'[w].moved = p.moved
          /\ worker'[w].stage = p.stage /\ worker'[w].keptMeta = p.keptMeta
          /\ worker'[w].keptInit = disk.init /\ worker'[w].bad = p.bad
      BY <2>3, <1>ok DEF Processes
    <2>6. Listed(w)' /\ Staged(w)'
      BY <2>4, <1>pc, <1>ok, <1>same, Lists DEF Good, Listed, Staged, Swapping
    <2>7. ASSUME Safe' PROVE Progress(w)'
      <3>1. Progress(w)
        BY <2>7, <1>same, <1>ok DEF Safe, Good
      <3>2. Reused(w)' /\ Exchanged(w)'
        BY <3>1, <2>4, <1>same, <1>pc DEF Progress, Reused, Exchanged, Planned, Swapping
      <3>3. Filed(w)' /\ Undoing(w)'
        BY <3>1, <2>4, <1>same, <1>pc, Lists DEF Progress, Filed, Undoing
      <3> QED
        BY <3>2, <3>3 DEF Progress
    <2>8. ASSUME NEW d \in Parts, ~unguarded', disk'.part[d] = None, disk'.old[d] = None
          PROVE  base'.part[d] = None /\ d \in worker'[w].stage
      BY <2>8, <2>4, <1>pc, <1>ok, <1>same DEF NothingLost, Renaming, Swapping
    <2>9. NothingLost'
      BY <2>8, <2>3, <1>pc, <1>same, OwnLoss
    <2> QED
      BY <2>3, <2>4, <2>6, <2>7, <2>9, <1>pc, <1>same, ExchangeStep DEF Good, Working, Swapping
  <1> QED
    BY <1>1, <1>2 DEF KeepScripts

\* The scripts of the new release, one at a time.
LEMMA InstallScriptsStep ==
    ASSUME IInv, NEW w \in Workers, InstallScripts(w), TypeOK'
    PROVE  IInv'
  <1>ok. TypeOK /\ Good(w) /\ NothingLost /\ worker[w] \in Processes
    BY Known
  <1>pc. worker[w].pc = "install" /\ AtWork(w)
    BY DEF InstallScripts, At, AtWork, Working, Swapping
  <1>same. UNCHANGED <<lock, status, flag, owed, erased, unguarded, broken, base>>
    BY DEF InstallScripts, history
  <1>1. CASE worker[w].todo = <<>>
    <2>1. Go(w, "drop") /\ UNCHANGED disk
      BY <1>1 DEF InstallScripts
    <2>2. Others(w) /\ Carries(w) /\ worker'[w].pc = "drop" /\ worker'[w].todo = worker[w].todo
      BY <2>1, <1>ok, GoEffect, PlaceNames
    <2>3. Elems(worker[w].todo) = {}
      BY <1>1, NoElems
    <2>4. Listed(w)' /\ Staged(w)'
      BY <2>2, <1>pc, <1>ok, <1>same DEF Good, Listed, Staged, Carries, Swapping
    <2>5. ASSUME Safe' PROVE Progress(w)'
      <3>1. Progress(w)
        BY <2>5, <1>same, <1>ok DEF Safe, Good
      <3>2. Reused(w)' /\ Exchanged(w)'
        BY <3>1, <2>1, <2>2, <1>same, <1>pc DEF Progress, Reused, Exchanged, Carries, Planned, Swapping
      <3>4. Filed(w)' /\ Undoing(w)'
        BY <3>1, <2>1, <2>2, <2>3, <1>same, <1>pc DEF Progress, Filed, Undoing, Carries
      <3> QED
        BY <3>2, <3>4 DEF Progress
    <2>6. ASSUME NEW d \in Parts, ~unguarded', disk'.part[d] = None, disk'.old[d] = None
          PROVE  base'.part[d] = None /\ d \in worker'[w].stage
      BY <2>6, <2>1, <2>2, <1>pc, <1>ok, <1>same DEF NothingLost, Renaming, Swapping, Carries
    <2>7. NothingLost'
      BY <2>6, <2>2, <1>pc, <1>same, OwnLoss
    <2> QED
      BY <2>2, <2>4, <2>5, <2>7, <1>pc, <1>same, ExchangeStep DEF Good, Working, Swapping
  <1>2. CASE /\ worker[w].todo # <<>>
             /\ Todo(w, "install", Tail(worker[w].todo))
             /\ disk' = [disk EXCEPT !.init[Head(worker[w].todo)] = disk.part["openwrt"]]
    <2> PICK s : s = Head(worker[w].todo)
      OBVIOUS
    <2>1. s \in Scripts /\ Tail(worker[w].todo) \in Seq(Scripts) /\ Distinct(Tail(worker[w].todo))
          /\ Tail(worker[w].todo) \in Seq(Parts \cup Scripts)
          /\ Elems(Tail(worker[w].todo)) = Elems(worker[w].todo) \ {s}
      BY <1>2, <1>pc, <1>ok, NextScript DEF Good
    <2>2. Others(w) /\ Carries(w) /\ worker'[w].pc = "install" /\ worker'[w].todo = Tail(worker[w].todo)
      BY <1>2, <2>1, <1>ok, TodoEffect, PlaceNames, ZenonT(40)
    <2>3. /\ disk'.part = disk.part /\ disk'.old = disk.old /\ disk'.meta = disk.meta
          /\ \A q \in Scripts : disk'.init[q] = IF q = s THEN disk.part["openwrt"] ELSE disk.init[q]
      BY <1>2, <1>ok DEF TypeOK, Disks, Existing
    <2>4. Listed(w)' /\ Staged(w)'
      BY <2>1, <2>2, <1>pc, <1>ok, <1>same DEF Good, Listed, Staged, Carries, Swapping
    <2>5. ASSUME Safe' PROVE Progress(w)'
      <3>1. Progress(w)
        BY <2>5, <1>same, <1>ok DEF Safe, Good
      <3>2. Reused(w)' /\ Exchanged(w)'
        BY <3>1, <2>2, <2>3, <1>same, <1>pc DEF Progress, Reused, Exchanged, Carries, Planned, Swapping
      <3>3. disk.part["openwrt"] = worker[w].to
        BY <3>1, <1>pc DEF Progress, Reused, Exchanged, Planned, Swapping, Contents, Parts
      <3>4. Filed(w)' /\ Undoing(w)'
        BY <3>1, <3>3, <2>1, <2>2, <2>3, <1>same, <1>pc DEF Progress, Filed, Undoing, Carries
      <3> QED
        BY <3>2, <3>4 DEF Progress
    <2>6. ASSUME NEW d \in Parts, ~unguarded', disk'.part[d] = None, disk'.old[d] = None
          PROVE  base'.part[d] = None /\ d \in worker'[w].stage
      BY <2>6, <2>2, <2>3, <1>pc, <1>ok, <1>same DEF NothingLost, Renaming, Swapping, Carries
    <2>7. NothingLost'
      BY <2>6, <2>2, <1>pc, <1>same, OwnLoss
    <2> QED
      BY <2>2, <2>4, <2>5, <2>7, <1>pc, <1>same, ExchangeStep DEF Good, Working, Swapping
  <1>3. CASE RollBackOn(w) /\ UNCHANGED disk
    BY <1>3, <1>pc, BackStep DEF InstallScripts
  <1> QED
    BY <1>1, <1>2, <1>3 DEF InstallScripts

\* Only now the old components go.
LEMMA DropOldStep ==
    ASSUME IInv, NEW w \in Workers, DropOld(w), TypeOK'
    PROVE  IInv'
  <1>ok. TypeOK /\ Good(w) /\ NothingLost /\ worker[w] \in Processes
    BY Known
  <1>pc. worker[w].pc = "drop" /\ AtWork(w)
    BY DEF DropOld, At, AtWork, Working
  <1>same. UNCHANGED <<lock, status, flag, owed, erased, unguarded, broken, base>>
    BY DEF DropOld, history
  <1>1. /\ Others(w) /\ Carries(w) /\ worker'[w].pc \in {"panel", "exit"}
        /\ worker'[w].todo = worker[w].todo
    BY <1>ok, GoEffect, PlaceNames DEF DropOld
  <1>2. disk'.part = disk.part /\ disk'.meta = disk.meta /\ disk'.init = disk.init
    BY <1>ok DEF DropOld, Without, TypeOK, Disks
  <1>3. Listed(w)' /\ Staged(w)'
    BY <1>1, <1>pc, <1>ok, <1>same DEF Good, Listed, Staged, Carries, Swapping
  <1>4. ASSUME Safe' PROVE Progress(w)'
    <2>1. Progress(w)
      BY <1>4, <1>same, <1>ok DEF Safe, Good
    <2>2. Reused(w)' /\ Exchanged(w)'
      BY <2>1, <1>1, <1>2, <1>same, <1>pc DEF Progress, Reused, Exchanged, Carries, Planned, Swapping
    <2>3. Filed(w)' /\ Undoing(w)'
      BY <2>1, <1>1, <1>2, <1>same, <1>pc DEF Progress, Filed, Undoing, Carries
    <2> QED
      BY <2>2, <2>3 DEF Progress
  <1>5. ASSUME NEW d \in Parts, ~unguarded', disk'.part[d] = None, disk'.old[d] = None
        PROVE  FALSE
    <2>1. Progress(w)
      BY <1>5, <1>same, <1>ok DEF Good, Safe
    <2>2. disk.part[d] = Contents(worker[w].to)[d]
      BY <2>1, <1>5, <1>pc DEF Progress, Reused, Exchanged, Planned
    <2> QED
      BY <2>2, <1>2, <1>5, Known
  <1>6. NothingLost'
    BY <1>5, <1>1, <1>pc, <1>same, OwnLoss
  <1> QED
    BY <1>1, <1>3, <1>4, <1>6, <1>pc, <1>same, ExchangeStep DEF Good, Working

\* The panel is started.
LEMMA StartPanelStep ==
    ASSUME IInv, NEW w \in Workers, StartPanel(w), TypeOK'
    PROVE  IInv'
  <1>ok. TypeOK /\ Good(w) /\ NothingLost /\ worker[w] \in Processes
    BY Known
  <1>pc. worker[w].pc = "panel" /\ AtWork(w)
    BY DEF StartPanel, At, AtWork, Working
  <1>same. UNCHANGED <<disk, lock, status, flag, owed, erased, unguarded, broken, base>>
    BY DEF StartPanel, history
  <1> PICK p : p = worker[w]
    OBVIOUS
  <1>1. [p EXCEPT !.pc = "finish", !.post = FALSE] \in Processes
    BY <1>ok DEF Processes, Working
  <1>2. worker' = [worker EXCEPT ![w] = [p EXCEPT !.pc = "finish", !.post = FALSE]]
    BY <1>ok DEF StartPanel, TypeOK
  <1>3. Others(w) /\ worker'[w] = [p EXCEPT !.pc = "finish", !.post = FALSE]
    BY <1>1, <1>2, <1>ok, Written
  <1>4. Carries(w) /\ worker'[w].pc = "finish" /\ worker'[w].todo = worker[w].todo
    BY <1>3, <1>ok DEF Processes, Carries
  <1>5. Listed(w)' /\ Staged(w)'
    BY <1>4, <1>pc, <1>ok, <1>same DEF Good, Listed, Staged, Carries, Swapping
  <1>6. Progress(w)'
    BY <1>4 DEF Carries, Progress, Reused, Exchanged, Filed, Undoing, Planned, Swapping
  <1>7. ASSUME NEW d \in Parts, ~unguarded', disk'.part[d] = None, disk'.old[d] = None
        PROVE  FALSE
    <2>1. Progress(w)
      BY <1>7, <1>same, <1>ok DEF Good, Safe
    <2>2. disk.part[d] = Contents(worker[w].to)[d]
      BY <2>1, <1>7, <1>pc DEF Progress, Reused, Exchanged, Planned
    <2> QED
      BY <2>2, <1>same, <1>7, Known
  <1>8. NothingLost'
    BY <1>7, <1>3, <1>pc, <1>same, OwnLoss
  <1> QED
    BY <1>3, <1>4, <1>5, <1>6, <1>8, <1>pc, <1>same, ExchangeStep DEF Good, Working

\* The end of a run that got through.
LEMMA FinishStep ==
    ASSUME IInv, NEW w \in Workers, Finish(w), TypeOK'
    PROVE  IInv'
  <1>ok. TypeOK /\ Good(w) /\ NothingLost /\ worker[w] \in Processes
    BY Known
  <1>pc. worker[w].pc = "finish" /\ AtWork(w)
    BY DEF Finish, At, AtWork, Working
  <1>same. UNCHANGED <<disk, lock, flag, owed, erased, unguarded, broken, base>>
    BY DEF Finish, history
  <1>1. CASE UNCHANGED worker
    <2>1. Others(w)
      BY <1>1, <1>ok DEF TypeOK, Others
    <2>2. Good(w)'
      BY <1>1, <1>ok, <1>same
      DEF Good, Safe, Listed, Staged, Progress, Reused, Exchanged, Filed, Undoing
    <2>3. NothingLost'
      BY <1>1, <1>ok, <1>same DEF NothingLost
    <2> QED
      BY <2>1, <2>2, <2>3, <1>1, <1>pc, <1>same, ExchangeStep DEF Working
  <1>2. CASE Go(w, "exit")
    <2>1. Others(w) /\ Carries(w) /\ worker'[w].pc = "exit" /\ worker'[w].todo = worker[w].todo
      BY <1>2, <1>ok, GoEffect, PlaceNames
    <2>2. Listed(w)' /\ Staged(w)' /\ Progress(w)'
      BY <2>1, <1>ok DEF Good, Listed, Staged, Carries, Swapping, Progress, Reused, Exchanged, Filed, Undoing, Planned
    <2>3. ASSUME NEW d \in Parts, ~unguarded', disk'.part[d] = None, disk'.old[d] = None
          PROVE  base'.part[d] = None
      BY <2>3, <1>ok, <1>same DEF NothingLost
    <2>4. NothingLost'
      BY <2>1, <2>3, <1>pc, <1>same, OwnLoss DEF Renaming, Swapping
    <2> QED
      BY <2>1, <2>2, <2>4, <1>pc, <1>same, ExchangeStep DEF Good, Working
  <1> QED
    BY <1>1, <1>2 DEF Finish, End

\* A component is done with: it is as it was, or its .old is still there.
LEMMA UndonePart ==
    ASSUME IInv, NEW w \in Workers, TypeOK', worker[w].pc = "rollback", worker[w].todo # <<>>,
           NEW c, c = Head(worker[w].todo),
           UNCHANGED <<lock, status, flag, owed, erased, unguarded, broken, base>>, Others(w),
           worker'[w].pc = "rollback", worker'[w].to = worker[w].to,
           worker'[w].comps = worker[w].comps, worker'[w].todo = Tail(worker[w].todo),
           worker'[w].moved = worker[w].moved, worker'[w].keptMeta = worker[w].keptMeta,
           worker'[w].keptInit = worker[w].keptInit, worker[w].bad => worker'[w].bad,
           disk'.meta = disk.meta, disk'.init = disk.init,
           \A d \in Parts \ {c} : disk'.part[d] = disk.part[d] /\ disk'.old[d] = disk.old[d],
           Safe => disk'.part[c] = base.part[c] \/ (worker'[w].bad /\ disk'.old[c] # None)
    PROVE  IInv'
  <1>ok. TypeOK /\ Good(w) /\ NothingLost /\ Elems(worker[w].comps) \subseteq Parts
    BY Known
  <1>work. AtWork(w)
    BY DEF AtWork, Working, Swapping
  <1>c. c \in Parts /\ c \in Elems(worker[w].todo) /\ c \in Elems(worker[w].comps)
        /\ Distinct(Tail(worker[w].todo)) /\ Elems(Tail(worker[w].todo)) = Elems(worker[w].todo) \ {c}
    BY <1>ok, NextPart DEF Good
  <1>1. Listed(w)' /\ Staged(w)'
    BY <1>c, <1>ok DEF Good, Listed, Staged, Swapping
  <1>2. ASSUME Safe' PROVE Progress(w)'
    <2>1. Safe /\ Progress(w)
      BY <1>2, <1>ok DEF Safe, Good
    <2>2. Reused(w)'
      BY <2>1, <1>c DEF Progress, Reused, Planned, Swapping
    <2>3. Exchanged(w)' /\ Filed(w)'
      BY DEF Exchanged, Filed
    <2>4. Elems(worker[w].todo) \subseteq Elems(worker[w].comps)
      BY <1>ok DEF Good, Listed
    <2>5. Undoing(w)'
      BY <2>1, <2>4, <1>c, <1>ok DEF Progress, Undoing
    <2> QED
      BY <2>2, <2>3, <2>5 DEF Progress
  <1>3. ASSUME NEW d \in Parts, ~unguarded', disk'.part[d] = None, disk'.old[d] = None
        PROVE  base'.part[d] = None
    <2>1. Safe
      BY <1>3 DEF Safe
    <2>2. CASE d = c
      BY <2>1, <2>2, <1>3
    <2>3. CASE d # c
      BY <2>3, <1>3, <1>ok DEF NothingLost
    <2> QED
      BY <2>2, <2>3
  <1>4. NothingLost'
    BY <1>3, <1>work, OwnLoss DEF Renaming, Swapping
  <1> QED
    BY <1>1, <1>2, <1>4, ExchangeStep DEF Good, Working, Swapping

\* A component is put back, or cannot be.
LEMMA UndoPartStep ==
    ASSUME IInv, NEW w \in Workers, UndoPart(w), TypeOK'
    PROVE  IInv'
  <1>ok. TypeOK /\ Good(w) /\ worker[w] \in Processes
    BY Known
  <1>pc. worker[w].pc = "rollback" /\ worker[w].todo # <<>>
    BY DEF UndoPart, At
  <1>same. UNCHANGED <<lock, status, flag, owed, erased, unguarded, broken, base>>
    BY DEF UndoPart, history
  <1> PICK c : c = Head(worker[w].todo)
    OBVIOUS
  <1> PICK p : p = worker[w]
    OBVIOUS
  <1>c. c \in Parts /\ c \in Elems(p.todo) /\ Tail(p.todo) \in Seq(Parts \cup Scripts)
    BY <1>pc, <1>ok, NextPart DEF Good
  <1>1. CASE Undo(w, c) /\ Todo(w, "rollback", Tail(p.todo))
    <2>1. Others(w) /\ Carries(w) /\ worker'[w].pc = "rollback" /\ worker'[w].todo = Tail(p.todo)
      BY <1>1, <1>c, <1>ok, TodoEffect, PlaceNames
    <2>2. /\ disk'.meta = disk.meta /\ disk'.init = disk.init
          /\ \A d \in Parts \ {c} : disk'.part[d] = disk.part[d] /\ disk'.old[d] = disk.old[d]
          /\ disk'.part[c] = IF disk.old[c] # None THEN disk.old[c]
                             ELSE IF c \in p.moved THEN None ELSE disk.part[c]
      BY <1>1, <1>c, <1>ok DEF Undo, TypeOK, Disks, Existing
    <2>3. ASSUME Safe PROVE disk'.part[c] = base.part[c]
      <3>1. Undoing(w)
        BY <2>3, <1>ok DEF Good, Progress
      <3> QED
        BY <3>1, <2>2, <1>c, <1>pc DEF Undoing
    <2> QED
      BY <2>1, <2>2, <2>3, <1>pc, <1>same, UndonePart DEF Carries
  <1>2. CASE UndoFails(w, c) /\ worker' = [worker EXCEPT ![w].todo = Tail(@), ![w].bad = TRUE]
    <2>1. [p EXCEPT !.todo = Tail(p.todo), !.bad = TRUE] \in Processes
      BY <1>c, <1>ok DEF Processes
    <2>2. worker' = [worker EXCEPT ![w] = [p EXCEPT !.todo = Tail(p.todo), !.bad = TRUE]]
      BY <1>2, <1>ok DEF TypeOK
    <2>3. Others(w) /\ worker'[w] = [p EXCEPT !.todo = Tail(p.todo), !.bad = TRUE]
      BY <2>1, <2>2, <1>ok, Written
    <2>4. /\ worker'[w].pc = "rollback" /\ worker'[w].to = worker[w].to
          /\ worker'[w].comps = worker[w].comps /\ worker'[w].todo = Tail(worker[w].todo)
          /\ worker'[w].moved = worker[w].moved /\ worker'[w].keptMeta = worker[w].keptMeta
          /\ worker'[w].keptInit = worker[w].keptInit /\ worker'[w].bad
      BY <2>3, <1>ok, <1>pc DEF Processes
    <2>5. /\ disk'.meta = disk.meta /\ disk'.init = disk.init
          /\ \A d \in Parts \ {c} : disk'.part[d] = disk.part[d] /\ disk'.old[d] = disk.old[d]
          /\ disk'.old[c] # None
      BY <1>2, <1>c, <1>ok DEF UndoFails, TypeOK, Disks, Existing
    <2> QED
      BY <2>3, <2>4, <2>5, <1>pc, <1>same, UndonePart, ZenonT(40)
  <1> QED
    BY <1>1, <1>2 DEF UndoPart

\* The scripts and meta.json, and the end of a run that failed.
LEMMA UndoFilesStep ==
    ASSUME IInv, NEW w \in Workers, UndoFiles(w), TypeOK'
    PROVE  IInv'
  <1>ok. TypeOK /\ Good(w) /\ NothingLost /\ worker[w] \in Processes
    BY Known
  <1>pc. worker[w].pc = "rollback" /\ AtWork(w)
    BY DEF UndoFiles, At, AtWork, Working, Swapping
  <1>same. UNCHANGED <<lock, flag, owed, erased, unguarded, base>> /\ (broken => broken')
    BY DEF UndoFiles
  <1>1. Others(w) /\ Carries(w) /\ worker'[w].pc = "exit" /\ worker'[w].todo = worker[w].todo
    BY <1>ok, GoEffect, PlaceNames DEF UndoFiles, End
  <1>2. disk'.part = disk.part /\ disk'.old = disk.old
    BY <1>ok DEF UndoFiles, TypeOK, Disks
  <1>3. Listed(w)' /\ Staged(w)' /\ Progress(w)'
    BY <1>1, <1>ok DEF Good, Listed, Staged, Carries, Swapping, Progress, Reused, Exchanged, Filed, Undoing, Planned
  <1>4. ASSUME NEW d \in Parts, ~unguarded', disk'.part[d] = None, disk'.old[d] = None
        PROVE  base'.part[d] = None
    BY <1>4, <1>2, <1>ok, <1>same DEF NothingLost
  <1>5. NothingLost'
    BY <1>1, <1>4, <1>pc, <1>same, OwnLoss DEF Renaming, Swapping
  <1> QED
    BY <1>1, <1>3, <1>5, <1>pc, <1>same, ExchangeStep DEF Good, Working, Swapping

-----------------------------------------------------------------------------
(* Outside the exchange.                                                   *)

\* What a step that does not touch the installation has to be shown for.
LEMMA QuietStep ==
    ASSUME IInv, NEW w \in Workers, Others(w), UNCHANGED <<disk, base>>,
           broken => broken', unguarded => unguarded', worker'[w].pc \notin Renaming,
           TypeOK', Good(w)', LockNames', OneUnbroken', Waiting'
    PROVE  IInv'
  <1>1. \A q \in Workers : Good(q)'
    BY OthersGood
  <1>2. NothingLost'
    BY DEF IInv, NothingLost, Others
  <1> QED
    BY <1>1, <1>2 DEF IInv

\* One that is started, or ends.
LEMMA NewGood ==
    ASSUME NEW w \in Workers,
           worker'[w] \in {Off, [Off EXCEPT !.pc = "lock"], [Off EXCEPT !.pc = "lock", !.bg = TRUE]}
    PROVE  Good(w)'
  <1>1. worker'[w].comps = <<>> /\ worker'[w].todo = <<>> /\ worker'[w].moved = {}
        /\ worker'[w].keptMeta = None /\ worker'[w].keptInit = None /\ ~worker'[w].bad
        /\ worker'[w].pc \in {"off", "lock"}
    <2>1. CASE worker'[w] = Off
      BY <2>1 DEF Off
    <2>2. CASE worker'[w] = [Off EXCEPT !.pc = "lock"]
      BY <2>2 DEF Off
    <2>3. CASE worker'[w] = [Off EXCEPT !.pc = "lock", !.bg = TRUE]
      BY <2>3 DEF Off
    <2> QED
      BY <2>1, <2>2, <2>3
  <1> QED
    BY <1>1, NoElems, IdleGood

\* Nobody at work: no one has the lock of one that is there.
LEMMA NobodyAtWork ==
    ASSUME IInv, ~unguarded, ~Alive(lock.by)
    PROVE  \A q \in Workers : ~AtWork(q)
  <1> SUFFICES ASSUME NEW q \in Workers, AtWork(q) PROVE FALSE
    OBVIOUS
  <1>1. lock.by = q
    BY DEF IInv, LockNames
  <1>2. worker[q].pc # "off"
    BY DEF AtWork, Working, Signalled, Early, Swapping
  <1> QED
    BY <1>1, <1>2 DEF Alive

\* The lock is made.
LEMMA MadeStep ==
    ASSUME IInv, NEW w \in Workers, Made(w), lock = NoLock, TypeOK',
           worker[w].pc \in {"lock", "remake"}, UNCHANGED <<disk, flag, base, owed, erased, unguarded>>
    PROVE  IInv'
  <1>ok. TypeOK
    BY DEF IInv
  <1>1. Others(w) /\ Carries(w) /\ worker'[w].pc = "own" /\ worker'[w].todo = worker[w].todo
    BY <1>ok, GoEffect, PlaceNames DEF Made
  <1>2. Good(w)'
    BY <1>1, EarlyGood
  <1>3. ~unguarded => \A q \in Workers : ~AtWork(q)
    BY NobodyAtWork, NamesAssumption DEF Alive, NoLock
  <1>4. AtWork(w)'
    BY <1>1 DEF AtWork, Working
  <1>5. lock'.by = w
    BY DEF Made
  <1>6. LockNames'
    BY <1>1, <1>3, <1>4, <1>5 DEF LockNames, AtWork, Others
  <1>7. OneUnbroken'
    BY <1>1, <1>4 DEF OneUnbroken, Made, AtWork, Others
  <1>8. Waiting'
    <2>1. \A v \in owed : v \in Workers
      BY <1>ok DEF TypeOK
    <2> QED
      BY <2>1, <1>1, ZenonT(40) DEF IInv, Waiting, Made, Others, Carries, Early, Locking
  <1> QED
    BY <1>1, <1>2, <1>6, <1>7, <1>8, QuietStep DEF Made, Renaming, Swapping

\* A process is gone, and what the files say of its pid is about nobody.
LEMMA GoneStep ==
    ASSUME IInv, NEW w \in Workers, worker' = [worker EXCEPT ![w] = Off], TypeOK',
           lock' = LockAfter(w), broken => broken',
           UNCHANGED <<disk, flag, base, owed, erased, unguarded>>
    PROVE  IInv'
  <1>ok. TypeOK
    BY DEF IInv
  <1>1. Others(w) /\ worker'[w] = Off
    BY <1>ok, OffEffect
  <1>2. worker'[w].pc = "off"
    BY <1>1 DEF Off
  <1>3. Good(w)'
    BY <1>1, NewGood
  <1>4. ~AtWork(w)'
    BY <1>2 DEF AtWork, Working, Signalled, Early, Swapping
  <1>5. LockNames'
    BY <1>ok, <1>1, <1>4, DeceasedBy DEF IInv, LockNames, AtWork, Others
  <1>6. OneUnbroken'
    BY <1>1, <1>4 DEF IInv, OneUnbroken, AtWork, Others
  <1>7. Waiting'
    <2>1. \A v \in owed : v \in Workers
      BY <1>ok DEF TypeOK
    <2> QED
      BY <2>1, <1>1, <1>2 DEF IInv, Waiting, Others
  <1> QED
    BY <1>1, <1>2, <1>3, <1>5, <1>6, <1>7, QuietStep DEF Renaming, Swapping

\* A dispatched one, and one that is run by hand.
LEMMA BeginStep ==
    ASSUME IInv, NEW w \in Workers, Detach(w) \/ ByHand(w), TypeOK'
    PROVE  IInv'
  <1>ok. TypeOK
    BY DEF IInv
  <1>pc. worker[w].pc = "off"
    BY DEF Detach, ByHand, At
  <1>same. UNCHANGED <<disk, lock, base, unguarded, broken>>
    BY DEF Detach, ByHand
  <1>1. Others(w) /\ worker'[w] \in {[Off EXCEPT !.pc = "lock"], [Off EXCEPT !.pc = "lock", !.bg = TRUE]}
    <2>1. [Off EXCEPT !.pc = "lock"] \in Processes /\ [Off EXCEPT !.pc = "lock", !.bg = TRUE] \in Processes
      BY OffType DEF Processes, Locking
    <2> QED
      BY <2>1, <1>ok, Written DEF Detach, ByHand
  <1>2. worker'[w].pc = "lock"
    BY <1>1 DEF Off
  <1>3. Good(w)'
    BY <1>1, NewGood
  <1>4. ~AtWork(w) /\ ~AtWork(w)'
    BY <1>2, <1>pc DEF AtWork, Working, Signalled, Early, Swapping
  <1>5. LockNames' /\ OneUnbroken'
    BY <1>1, <1>4, <1>same, SameAtWork
  <1>6. Waiting'
    <2>1. CASE Detach(w)
      BY <2>1 DEF Detach, Waiting
    <2>2. CASE ByHand(w)
      <3>1. /\ owed' = owed \ {w} /\ erased' = erased \ {w} /\ flag' = flag
            /\ owed \subseteq Workers
        BY <2>2, <1>ok DEF ByHand, TypeOK
      <3> QED
        BY <3>1, <1>1, <1>2, <1>same DEF IInv, Waiting, Others
    <2> QED
      BY <2>1, <2>2
  <1> QED
    BY <1>1, <1>2, <1>3, <1>5, <1>6, <1>same, QuietStep DEF Renaming, Swapping

\* Between two steps for the lock.
LEMMA LockingStep ==
    ASSUME IInv, NEW w \in Workers, NEW pc \in Locking, Go(w, pc), worker[w].pc \in Locking,
           UNCHANGED <<disk, lock, flag, base, owed, erased, unguarded, broken>>, TypeOK'
    PROVE  IInv'
  <1>ok. TypeOK
    BY DEF IInv
  <1>1. Others(w) /\ Carries(w) /\ worker'[w].pc = pc /\ worker'[w].todo = worker[w].todo
    BY <1>ok, GoEffect DEF Places
  <1>2. Good(w)'
    BY <1>1, EarlyGood DEF Locking
  <1>3. ~AtWork(w) /\ ~AtWork(w)'
    BY <1>1 DEF AtWork, Locking, Working, Signalled, Early, Swapping
  <1>4. LockNames' /\ OneUnbroken'
    BY <1>1, <1>3, SameAtWork
  <1>5. Waiting'
    <2>1. \A v \in owed : v \in Workers
      BY <1>ok DEF TypeOK
    <2> QED
      BY <2>1, <1>1 DEF IInv, Waiting, Others, Carries, Early, Locking
  <1> QED
    BY <1>1, <1>2, <1>4, <1>5, QuietStep DEF Renaming, Swapping, Locking

\* mkdir, or a look at what is there instead.
LEMMA MakeLockStep ==
    ASSUME IInv, NEW w \in Workers, MakeLock(w), TypeOK'
    PROVE  IInv'
  <1>same. UNCHANGED <<disk, flag, base, owed, erased, unguarded>> /\ worker[w].pc = "lock"
    BY DEF MakeLock, At
  <1>1. CASE lock = NoLock /\ Made(w)
    BY <1>1, <1>same, MadeStep
  <1>2. CASE Go(w, "look") /\ UNCHANGED <<lock, broken>>
    BY <1>2, <1>same, LockingStep DEF Locking
  <1> QED
    BY <1>1, <1>2 DEF MakeLock

\* The look ends the run, or condemns the lock.
LEMMA LookAtLockStep ==
    ASSUME IInv, NEW w \in Workers, LookAtLock(w), TypeOK'
    PROVE  IInv'
  <1>same. UNCHANGED <<disk, flag, base, owed, erased, unguarded, broken>> /\ worker[w].pc = "look"
    BY DEF LookAtLock, At, history
  <1>1. CASE Gone(w)
    BY <1>1, <1>same, GoneStep DEF Gone
  <1>2. CASE DieEarly(w)
    BY <1>2, <1>same, GoneStep DEF DieEarly
  <1>3. CASE Go(w, "take") /\ UNCHANGED lock
    BY <1>3, <1>same, LockingStep DEF Locking
  <1> QED
    BY <1>1, <1>2, <1>3 DEF LookAtLock

\* A lock whose pid is missing or gone is removed.
LEMMA TakeLockStep ==
    ASSUME IInv, NEW w \in Workers, TakeLock(w), TypeOK'
    PROVE  IInv'
  <1>ok. TypeOK
    BY DEF IInv
  <1>pc. worker[w].pc = "take"
    BY DEF TakeLock, At
  <1>same. UNCHANGED <<disk, flag, base, owed, erased, broken>>
    BY DEF TakeLock
  <1>1. Others(w) /\ Carries(w) /\ worker'[w].pc = "remake" /\ worker'[w].todo = worker[w].todo
    BY <1>ok, GoEffect, PlaceNames DEF TakeLock
  <1>2. Good(w)'
    BY <1>1, <1>pc, EarlyGood
  <1>3. ~AtWork(w) /\ ~AtWork(w)'
    BY <1>1, <1>pc DEF AtWork, Working, Signalled, Early, Swapping
  <1>4. ASSUME ~unguarded' PROVE ~unguarded /\ \A q \in Workers : ~AtWork(q)'
    <2>1. ~unguarded /\ ~Alive(lock.by)
      BY <1>4 DEF TakeLock
    <2> QED
      BY <2>1, <1>1, <1>3, NobodyAtWork DEF Others, AtWork
  <1>5. LockNames'
    BY <1>4, NamesAssumption DEF LockNames, TakeLock, NoLock
  <1>6. OneUnbroken'
    BY <1>1, <1>3, <1>same DEF IInv, OneUnbroken, Others, AtWork
  <1>7. Waiting'
    <2>1. \A v \in owed : v \in Workers
      BY <1>ok DEF TypeOK
    <2> QED
      BY <2>1, <1>1, <1>pc, <1>same DEF IInv, Waiting, Others, Carries, Early, Locking
  <1>8. unguarded => unguarded'
    BY DEF TakeLock
  <1> QED
    BY <1>1, <1>2, <1>5, <1>6, <1>7, <1>8, <1>same, QuietStep DEF Renaming, Swapping

\* mkdir again.
LEMMA RemakeStep ==
    ASSUME IInv, NEW w \in Workers, Remake(w), TypeOK'
    PROVE  IInv'
  <1>same. UNCHANGED <<disk, flag, base, owed, erased, unguarded>> /\ worker[w].pc = "remake"
    BY DEF Remake, At
  <1>1. CASE lock = NoLock
    BY <1>1, <1>same, MadeStep DEF Remake
  <1>2. CASE lock # NoLock
    BY <1>2, <1>same, GoneStep DEF Remake, DieEarly
  <1> QED
    BY <1>1, <1>2

\* The pid file is created.
LEMMA OwnLockStep ==
    ASSUME IInv, NEW w \in Workers, OwnLock(w), TypeOK'
    PROVE  IInv'
  <1>ok. TypeOK
    BY DEF IInv
  <1>pc. worker[w].pc = "own"
    BY DEF OwnLock, At
  <1>same. UNCHANGED <<disk, flag, base, owed, erased, unguarded, broken>>
    BY DEF OwnLock, history
  <1>1. Others(w) /\ Carries(w) /\ worker'[w].pc = "note" /\ worker'[w].todo = worker[w].todo
    BY <1>ok, GoEffect, PlaceNames DEF OwnLock
  <1>2. Good(w)'
    BY <1>1, <1>pc, EarlyGood
  <1>3. AtWork(w) /\ AtWork(w)'
    BY <1>1, <1>pc DEF AtWork, Working
  <1>4. lock'.by = lock.by
    BY <1>ok DEF OwnLock, TypeOK, Locks
  <1>5. LockNames' /\ OneUnbroken'
    BY <1>1, <1>3, <1>4, <1>same DEF IInv, LockNames, OneUnbroken, Others, AtWork
  <1>6. Waiting'
    <2>1. \A v \in owed : v \in Workers
      BY <1>ok DEF TypeOK
    <2> QED
      BY <2>1, <1>1, <1>pc, <1>same DEF IInv, Waiting, Others, Carries, Early, Locking
  <1> QED
    BY <1>1, <1>2, <1>5, <1>6, <1>same, QuietStep DEF Renaming, Swapping

\* The pid, the flag and the status.
LEMMA NotePidStep ==
    ASSUME IInv, NEW w \in Workers, NotePid(w), TypeOK'
    PROVE  IInv'
  <1>ok. TypeOK
    BY DEF IInv
  <1>pc. worker[w].pc = "note"
    BY DEF NotePid, At
  <1>same. UNCHANGED <<disk, base, unguarded, broken>>
    BY DEF NotePid
  <1>1. Others(w) /\ Carries(w) /\ worker'[w].pc = "start" /\ worker'[w].todo = worker[w].todo
    BY <1>ok, GoEffect, PlaceNames DEF NotePid
  <1>2. Good(w)'
    BY <1>1, <1>pc, EarlyGood
  <1>3. AtWork(w) /\ AtWork(w)'
    BY <1>1, <1>pc DEF AtWork, Working
  <1>4. lock'.by = lock.by
    BY <1>ok DEF NotePid, TypeOK, Locks
  <1>5. LockNames' /\ OneUnbroken'
    BY <1>1, <1>3, <1>4, <1>same DEF IInv, LockNames, OneUnbroken, Others, AtWork
  <1>6. Waiting'
    <2>1. CASE ~worker[w].bg
      <3>1. owed' \ erased' = {}
        BY <2>1 DEF NotePid
      <3> QED
        BY <3>1 DEF Waiting
    <2>2. CASE worker[w].bg
      <3>1. owed' = owed /\ erased' = erased /\ (flag => flag') /\ owed \subseteq Workers
        BY <2>2, <1>ok DEF NotePid, TypeOK
      <3> QED
        BY <2>2, <3>1, <1>1, <1>pc, <1>same, ZenonT(40) DEF IInv, Waiting, Others, Carries, Early, Locking
    <2> QED
      BY <2>1, <2>2
  <1> QED
    BY <1>1, <1>2, <1>5, <1>6, <1>same, QuietStep DEF Renaming, Swapping

\* Between two checkpoints, or from the last one to the commit.
LEMMA EarlyStep ==
    ASSUME IInv, NEW w \in Workers, Others(w), worker[w].pc \in Early,
           worker'[w].pc \in Early \cup {"exit"} \/ (worker'[w].pc = "commit" /\ ~flag),
           UNCHANGED <<disk, lock, flag, base, owed, erased, unguarded, broken>>, TypeOK', Good(w)'
    PROVE  IInv'
  <1>1. AtWork(w) /\ AtWork(w)' /\ worker'[w].pc \notin Renaming
    BY DEF AtWork, Working, Signalled, Early, Renaming, Swapping
  <1>2. LockNames' /\ OneUnbroken'
    BY <1>1, SameAtWork
  <1>3. \A v \in owed : v \in Workers
    BY DEF IInv, TypeOK
  <1>4. Waiting'
    <2> SUFFICES ASSUME ~broken, owed \ erased # {}
                 PROVE  /\ flag /\ \A q \in Workers : worker'[q].pc # "commit"
                        /\ \A v \in owed \ erased :
                              \/ worker'[v].pc \in Early \cup {"off", "exit"}
                              \/ worker'[v].bg /\ worker'[v].pc \in Locking \cup {"own", "note", "start"}
      BY DEF Waiting
    <2>1. flag /\ \A q \in Workers : worker[q].pc # "commit"
      BY DEF IInv, Waiting
    <2>2. worker'[w].pc \in Early \cup {"exit"}
      BY <2>1
    <2>3. \A v \in owed \ erased :
             \/ worker[v].pc \in Early \cup {"off", "exit"}
             \/ worker[v].bg /\ worker[v].pc \in Locking \cup {"own", "note", "start"}
      BY DEF IInv, Waiting
    <2> QED
      BY <2>1, <2>2, <2>3, <1>3 DEF Others, Early
  <1> QED
    BY <1>1, <1>2, <1>4, QuietStep

\* The run ends before the exchange.
LEMMA EndEarly ==
    ASSUME IInv, NEW w \in Workers, worker[w].pc \in Early, Go(w, "exit"), TypeOK',
           UNCHANGED <<disk, lock, flag, base, owed, erased, unguarded, broken>>
    PROVE  IInv'
  <1>1. Others(w) /\ Carries(w) /\ worker'[w].pc = "exit" /\ worker'[w].todo = worker[w].todo
    BY GoEffect, PlaceNames DEF IInv
  <1>2. Good(w)'
    BY <1>1, EarlyGood
  <1> QED
    BY <1>1, <1>2, EarlyStep

\* Stage directories are removed, whosever they are.
LEMMA PrecheckStep ==
    ASSUME IInv, NEW w \in Workers, Precheck(w), TypeOK'
    PROVE  IInv'
  <1>ok. TypeOK
    BY DEF IInv
  <1>pc. worker[w].pc = "start" /\ AtWork(w)
    BY DEF Precheck, At, AtWork, Working
  <1>same. UNCHANGED <<disk, flag, base, owed, erased, unguarded, broken>>
    BY DEF Precheck, history
  <1>1. CASE DieEarly(w)
    BY <1>1, <1>same, GoneStep DEF DieEarly
  <1>2. CASE /\ worker' = [q \in Workers |->
                    IF q = w THEN [worker[w] EXCEPT !.pc = "plan", !.tmp = TRUE]
                    ELSE [worker[q] EXCEPT !.stage = {}, !.keptMeta = None, !.keptInit = None]]
             /\ lock' = lock
    <2>1. ASSUME NEW q \in Workers \ {w}, NEW p, p = worker[q]
          PROVE  /\ worker'[q].pc = p.pc /\ worker'[q].bg = p.bg /\ worker'[q].to = p.to
                 /\ worker'[q].comps = p.comps /\ worker'[q].todo = p.todo
                 /\ worker'[q].moved = p.moved /\ worker'[q].bad = p.bad
                 /\ worker'[q].stage = {} /\ worker'[q].keptMeta = None
                 /\ worker'[q].keptInit = None
      <3>1. p \in Processes /\ worker'[q] = [p EXCEPT !.stage = {}, !.keptMeta = None, !.keptInit = None]
        BY <2>1, <1>2, <1>ok DEF TypeOK
      <3> QED
        BY <3>1 DEF Processes
    <2>2. worker'[w].pc = "plan" /\ Carries(w) /\ worker'[w].todo = worker[w].todo
      <3> PICK p : p = worker[w]
        OBVIOUS
      <3>1. p \in Processes /\ worker'[w] = [p EXCEPT !.pc = "plan", !.tmp = TRUE]
        BY <1>2, <1>ok DEF TypeOK
      <3> QED
        BY <3>1 DEF Processes, Carries
    <2>3. Good(w)'
      BY <2>2, <1>pc, EarlyGood
    <2>4. \A q \in Workers \ {w} : Safe => ~AtWork(q)
      BY <1>pc DEF IInv, Safe, LockNames, OneUnbroken
    <2>5. ASSUME NEW q \in Workers \ {w} PROVE Good(q)'
      <3>1. Listed(q)
        BY DEF IInv, Good
      <3>2. Listed(q)'
        BY <2>1, <3>1 DEF Listed
      <3>3. Safe => worker'[q].pc \notin Planned
        BY <2>1, <2>4 DEF AtWork, Planned, Working, Signalled, Early
      <3>4. Staged(q)'
        BY <2>1, <3>3, <1>same DEF Staged, Safe, Planned, Swapping
      <3>5. Safe' => Progress(q)'
        BY <3>3, <1>same DEF Safe, Progress, Reused, Exchanged, Filed, Undoing, Planned, Swapping
      <3> QED
        BY <3>2, <3>4, <3>5 DEF Good
    <2>6. \A q \in Workers : AtWork(q)' <=> AtWork(q)
      BY <2>1, <2>2, <1>pc DEF AtWork, Working, Signalled, Early
    <2>7. LockNames' /\ OneUnbroken'
      BY <2>6, <1>2, <1>same DEF IInv, LockNames, OneUnbroken
    <2>8. NothingLost'
      <3> SUFFICES ASSUME ~unguarded' PROVE NothingLost'
        BY DEF NothingLost
      <3>1. \A q \in Workers : ~(worker'[q].pc \in Renaming)
        BY <2>1, <2>2, <2>4, <1>same DEF Safe, AtWork, Renaming, Working, Swapping
      <3> QED
        BY <3>1, <1>same DEF IInv, NothingLost
    <2>9. Waiting'
      <3>1. \A v \in owed : v \in Workers
        BY <1>ok DEF TypeOK
      <3>2. worker'[w].pc \in Early /\ \A q \in Workers \ {w} : worker'[q].pc = worker[q].pc /\ worker'[q].bg = worker[q].bg
        BY <2>1, <2>2 DEF Early
      <3>3. worker'[w].pc # "commit"
        BY <2>2
      <3> QED
        BY <3>1, <3>2, <3>3, <1>same DEF IInv, Waiting
    <2> QED
      BY <2>3, <2>5, <2>7, <2>8, <2>9 DEF IInv
  <1> QED
    BY <1>1, <1>2 DEF Precheck

\* What has to be exchanged, or nothing.
LEMMA PlanStep ==
    ASSUME IInv, NEW w \in Workers, Plan(w), TypeOK'
    PROVE  IInv'
  <1>ok. TypeOK /\ Good(w)
    BY DEF IInv
  <1>pc. worker[w].pc = "plan" /\ worker[w].pc \in Early
    BY DEF Plan, At, Early
  <1>same. UNCHANGED <<disk, lock, flag, base, owed, erased, unguarded, broken>>
    BY DEF Plan, history
  <1>1. CASE End(w, "done")
    BY <1>1, <1>pc, <1>same, EndEarly DEF End
  <1>2. CASE ~End(w, "done")
    <2>1. PICK r \in Releases, comps \in Seq(Parts) :
             /\ worker' = [worker EXCEPT ![w].pc = "fetch", ![w].to = r, ![w].comps = comps]
             /\ comps = FullPackage \/ comps = Changed(r)
      BY <1>2, Lists DEF Plan
    <2>2. Distinct(comps) /\ \A c \in Parts \ Elems(comps) : disk.part[c] = Contents(r)[c]
      <3>1. CASE comps = FullPackage
        BY <3>1, Lists
      <3>2. CASE comps = Changed(r)
        BY <3>2, Lists DEF Contents, Parts
      <3> QED
        BY <2>1, <3>1, <3>2
    <2> PICK p : p = worker[w]
      OBVIOUS
    <2>3. p \in Processes
      BY <1>ok DEF TypeOK
    <2>4. [p EXCEPT !.pc = "fetch", !.to = r, !.comps = comps] \in Processes
      BY <2>3 DEF Processes, Working, Signalled, Early
    <2>5. worker' = [worker EXCEPT ![w] = [p EXCEPT !.pc = "fetch", !.to = r, !.comps = comps]]
      BY <2>1, <1>ok DEF TypeOK
    <2>6. Others(w) /\ worker'[w] = [p EXCEPT !.pc = "fetch", !.to = r, !.comps = comps]
      BY <2>4, <2>5, <1>ok, Written
    <2>7. /\ worker'[w].pc = "fetch" /\ worker'[w].to = r /\ worker'[w].comps = comps
          /\ worker'[w].todo = p.todo /\ worker'[w].moved = p.moved /\ worker'[w].bad = p.bad
          /\ worker'[w].keptMeta = p.keptMeta /\ worker'[w].keptInit = p.keptInit
      BY <2>6, <2>3 DEF Processes
    <2>8. Listed(w)' /\ Staged(w)'
      BY <2>2, <2>7, <1>pc, <1>ok DEF Good, Listed, Staged, Swapping
    <2>9. Progress(w)'
      BY <2>2, <2>7, <1>same DEF Progress, Reused, Exchanged, Filed, Undoing, Swapping
    <2> QED
      BY <2>6, <2>7, <2>8, <2>9, <1>pc, <1>same, EarlyStep DEF Good, Early
  <1> QED
    BY <1>1, <1>2

\* The download.
LEMMA FetchStep ==
    ASSUME IInv, NEW w \in Workers, Fetch(w), TypeOK'
    PROVE  IInv'
  <1>ok. TypeOK /\ Good(w)
    BY DEF IInv
  <1>pc. worker[w].pc = "fetch" /\ worker[w].pc \in Early
    BY DEF Fetch, At, Early
  <1>same. UNCHANGED <<disk, lock, flag, base, owed, erased, unguarded, broken>>
    BY DEF Fetch, history
  <1>1. CASE Go(w, "exit")
    BY <1>1, <1>pc, <1>same, EndEarly
  <1>2. CASE Go(w, "unpack")
    <2>1. Others(w) /\ Carries(w) /\ worker'[w].pc = "unpack" /\ worker'[w].todo = worker[w].todo
      BY <1>2, <1>ok, GoEffect, PlaceNames
    <2>2. Listed(w)' /\ Staged(w)'
      BY <2>1, <1>pc, <1>ok DEF Good, Listed, Staged, Swapping, Carries
    <2>3. Safe' => Progress(w)'
      BY <2>1, <1>pc, <1>ok, <1>same
      DEF Good, Safe, Progress, Reused, Exchanged, Filed, Undoing, Planned, Swapping, Carries
    <2> QED
      BY <2>1, <2>2, <2>3, <1>pc, <1>same, EarlyStep DEF Good, Early
  <1> QED
    BY <1>1, <1>2 DEF Fetch, Fail, End

\* The stage directory.
LEMMA UnpackStep ==
    ASSUME IInv, NEW w \in Workers, Unpack(w), TypeOK'
    PROVE  IInv'
  <1>ok. TypeOK /\ Good(w)
    BY DEF IInv
  <1>pc. worker[w].pc = "unpack" /\ worker[w].pc \in Early
    BY DEF Unpack, At, Early
  <1>same. UNCHANGED <<disk, lock, flag, base, owed, erased, unguarded, broken>>
    BY DEF Unpack, history
  <1>1. CASE Go(w, "exit")
    BY <1>1, <1>pc, <1>same, EndEarly
  <1>2. CASE worker' = [worker EXCEPT ![w].pc = "last", ![w].stage = Elems(worker[w].comps) \cup {"meta"}]
    <2> PICK p : p = worker[w]
      OBVIOUS
    <2>1. p \in Processes /\ Elems(p.comps) \subseteq Parts
      BY <1>ok, Known
    <2>2. [p EXCEPT !.pc = "last", !.stage = Elems(p.comps) \cup {"meta"}] \in Processes
      BY <2>1 DEF Processes, Working, Signalled, Early
    <2>3. worker' = [worker EXCEPT ![w] = [p EXCEPT !.pc = "last", !.stage = Elems(p.comps) \cup {"meta"}]]
      BY <1>2, <1>ok DEF TypeOK
    <2>4. Others(w) /\ worker'[w] = [p EXCEPT !.pc = "last", !.stage = Elems(p.comps) \cup {"meta"}]
      BY <2>2, <2>3, <1>ok, Written
    <2>5. /\ worker'[w].pc = "last" /\ worker'[w].to = p.to /\ worker'[w].comps = p.comps
          /\ worker'[w].todo = p.todo /\ worker'[w].moved = p.moved /\ worker'[w].bad = p.bad
          /\ worker'[w].stage = Elems(p.comps) \cup {"meta"}
          /\ worker'[w].keptMeta = p.keptMeta /\ worker'[w].keptInit = p.keptInit
      BY <2>4, <2>1 DEF Processes
    <2>6. Listed(w)' /\ Staged(w)'
      BY <2>5, <1>pc, <1>ok DEF Good, Listed, Staged, Swapping
    <2>7. Safe' => Progress(w)'
      BY <2>5, <1>pc, <1>ok, <1>same
      DEF Good, Safe, Progress, Reused, Exchanged, Filed, Undoing, Planned, Swapping
    <2> QED
      BY <2>4, <2>5, <2>6, <2>7, <1>pc, <1>same, EarlyStep DEF Good, Early
  <1> QED
    BY <1>1, <1>2 DEF Unpack, Fail, End, Elems

\* The last checkpoint.
LEMMA LastStep ==
    ASSUME IInv, NEW w \in Workers, Last(w), TypeOK'
    PROVE  IInv'
  <1>ok. TypeOK /\ Good(w)
    BY DEF IInv
  <1>pc. worker[w].pc = "last" /\ worker[w].pc \in Early
    BY DEF Last, At, Early
  <1>same. UNCHANGED <<disk, lock, flag, base, owed, erased, unguarded, broken>>
    BY DEF Last, history
  <1>1. CASE Go(w, "exit")
    BY <1>1, <1>pc, <1>same, EndEarly
  <1>2. CASE Go(w, "commit") /\ worker[w].stage # {} /\ ~flag
    <2>1. Others(w) /\ Carries(w) /\ worker'[w].pc = "commit" /\ worker'[w].todo = worker[w].todo
      BY <1>2, <1>ok, GoEffect, PlaceNames
    <2>2. Listed(w)' /\ Staged(w)'
      BY <2>1, <1>2, <1>pc, <1>ok DEF Good, Listed, Staged, Swapping, Carries
    <2>3. Safe' => Progress(w)'
      BY <2>1, <1>pc, <1>ok, <1>same
      DEF Good, Safe, Progress, Reused, Exchanged, Filed, Undoing, Planned, Swapping, Carries
    <2> QED
      BY <2>1, <2>2, <2>3, <1>2, <1>pc, <1>same, EarlyStep DEF Good
  <1> QED
    BY <1>1, <1>2 DEF Last, End

\* The exchange is announced, and requests that come too late are dropped.
LEMMA CommitStep ==
    ASSUME IInv, NEW w \in Workers, Commit(w), TypeOK'
    PROVE  IInv'
  <1>ok. TypeOK /\ Good(w)
    BY DEF IInv
  <1>pc. worker[w].pc = "commit"
    BY DEF Commit, At
  <1>same. UNCHANGED <<disk, lock, base, owed, erased, unguarded, broken>>
    BY DEF Commit, history
  <1>1. Others(w) /\ Carries(w) /\ worker'[w].pc = "stop" /\ worker'[w].todo = worker[w].todo
    BY <1>ok, GoEffect, PlaceNames DEF Commit
  <1>2. Listed(w)' /\ Staged(w)'
    BY <1>1, <1>pc, <1>ok, <1>same DEF Good, Listed, Staged, Swapping, Carries
  <1>3. Safe' => Progress(w)'
    BY <1>1, <1>pc, <1>ok, <1>same
    DEF Good, Safe, Progress, Reused, Exchanged, Filed, Undoing, Planned, Swapping, Carries
  <1>4. AtWork(w) /\ AtWork(w)'
    BY <1>1, <1>pc DEF AtWork, Working, Signalled
  <1>5. LockNames' /\ OneUnbroken'
    BY <1>1, <1>4, <1>same, SameAtWork
  <1>6. Waiting'
    <2>1. broken \/ owed \ erased = {}
      BY <1>pc DEF IInv, Waiting
    <2> QED
      BY <2>1, <1>same DEF Waiting
  <1> QED
    BY <1>1, <1>2, <1>3, <1>5, <1>6, <1>same, QuietStep DEF Good, Renaming, Swapping

\* A checkpoint that finds the flag.
LEMMA CancelledStep ==
    ASSUME IInv, NEW w \in Workers, Cancelled(w), TypeOK'
    PROVE  IInv'
  BY EndEarly DEF Cancelled, End, history

\* cleanup.
LEMMA ExitStep ==
    ASSUME IInv, NEW w \in Workers, Exit(w), TypeOK'
    PROVE  IInv'
  <1>ok. TypeOK
    BY DEF IInv
  <1>same. /\ UNCHANGED <<disk, flag, base, broken>> /\ (unguarded => unguarded')
           /\ owed' = owed \ {w} /\ erased' = erased \ {w}
    BY DEF Exit
  <1>1. Others(w) /\ worker'[w] = Off
    BY <1>ok, OffEffect DEF Exit
  <1>2. worker'[w].pc = "off"
    BY <1>1 DEF Off
  <1>3. Good(w)'
    BY <1>1, NewGood
  <1>4. ~AtWork(w)'
    BY <1>2 DEF AtWork, Working, Signalled, Early, Swapping
  <1>5. LockNames'
    <2> SUFFICES ASSUME ~unguarded' PROVE \A q \in Workers : ~AtWork(q)' /\ lock'.by # q
      BY DEF LockNames
    <2>1. ~unguarded /\ ~(Alive(lock.by) /\ lock.by # w)
      BY DEF Exit
    <2>2. ASSUME NEW q \in Workers \ {w}, AtWork(q) PROVE FALSE
      <3>1. lock.by = q
        BY <2>1, <2>2 DEF IInv, LockNames
      <3>2. worker[q].pc # "off"
        BY <2>2 DEF AtWork, Working, Signalled, Early, Swapping
      <3> QED
        BY <3>1, <3>2, <2>1 DEF Alive
    <2>3. lock'.by = Nobody
      BY DEF Exit, NoLock
    <2> QED
      BY <2>2, <2>3, <1>1, <1>4, NamesAssumption DEF Others, AtWork
  <1>6. OneUnbroken'
    BY <1>1, <1>4, <1>same DEF IInv, OneUnbroken, AtWork, Others
  <1>7. Waiting'
    <2>1. \A v \in owed : v \in Workers
      BY <1>ok DEF TypeOK
    <2> QED
      BY <2>1, <1>1, <1>2, <1>same DEF IInv, Waiting, Others
  <1> QED
    BY <1>1, <1>2, <1>3, <1>5, <1>6, <1>7, <1>same, QuietStep DEF Renaming, Swapping

\* The trap cleans up, and the shell goes on.
LEMMA InterruptStep ==
    ASSUME IInv, NEW w \in Workers, Interrupt(w), TypeOK'
    PROVE  IInv'
  <1>ok. TypeOK /\ Good(w)
    BY DEF IInv
  <1>pc. worker[w].pc \in Signalled
    BY DEF Interrupt
  <1>same. UNCHANGED <<disk, flag, base, owed, erased, broken>> /\ unguarded'
    BY DEF Interrupt
  <1> PICK p : p = worker[w]
    OBVIOUS
  <1>1. p \in Processes
    BY <1>ok DEF TypeOK
  <1>2. [p EXCEPT !.stage = {}, !.tmp = FALSE] \in Processes
    BY <1>1 DEF Processes
  <1>3. worker' = [worker EXCEPT ![w] = [p EXCEPT !.stage = {}, !.tmp = FALSE]]
    BY <1>ok DEF Interrupt, TypeOK
  <1>4. Others(w) /\ worker'[w] = [p EXCEPT !.stage = {}, !.tmp = FALSE]
    BY <1>2, <1>3, <1>ok, Written
  <1>5. /\ worker'[w].pc = p.pc /\ worker'[w].bg = p.bg /\ worker'[w].to = p.to /\ worker'[w].comps = p.comps
        /\ worker'[w].todo = p.todo /\ worker'[w].moved = p.moved /\ worker'[w].bad = p.bad
        /\ worker'[w].stage = {} /\ worker'[w].keptMeta = p.keptMeta
        /\ worker'[w].keptInit = p.keptInit
    BY <1>4, <1>1 DEF Processes
  <1>6. Listed(w)' /\ Staged(w)'
    BY <1>5, <1>pc, <1>ok, <1>same DEF Good, Listed, Staged, Signalled, Early
  <1>7. Safe' => Progress(w)'
    BY <1>5, <1>ok, <1>same DEF Good, Safe, Progress, Reused, Exchanged, Filed, Undoing
  <1>8. LockNames' /\ NothingLost'
    BY <1>same DEF LockNames, NothingLost
  <1>9. OneUnbroken'
    BY <1>4, <1>5, <1>same, ZenonT(40) DEF IInv, OneUnbroken, AtWork, Others
  <1>10. Waiting'
    <2>1. \A v \in owed : v \in Workers
      BY <1>ok DEF TypeOK
    <2>2. \A q \in Workers : worker'[q].pc = worker[q].pc /\ worker'[q].bg = worker[q].bg
      BY <1>4, <1>5 DEF Others
    <2> QED
      BY <2>1, <2>2, <1>same DEF IInv, Waiting
  <1>11. worker'[w].pc \notin Renaming
    BY <1>5, <1>pc DEF Signalled, Early, Renaming, Swapping
  <1> QED
    BY <1>4, <1>6, <1>7, <1>8, <1>9, <1>10, <1>11, <1>same, QuietStep DEF Good

\* kill -9.
LEMMA KillStep ==
    ASSUME IInv, NEW w \in Workers, Kill(w), TypeOK'
    PROVE  IInv'
  BY GoneStep DEF Kill, Gone

\* A request: it is in time for those that have a checkpoint ahead.
LEMMA CancelStep ==
    ASSUME IInv, Cancel, TypeOK'
    PROVE  IInv'
  <1>ok. TypeOK
    BY DEF IInv
  <1>same. UNCHANGED <<worker, disk, lock, base, unguarded, broken>> /\ flag'
           /\ owed' = owed \cup {w \in Workers : Heeds(w)}
           /\ erased' = erased \ {w \in Workers : Heeds(w)}
    BY DEF Cancel
  <1>1. LockNames' /\ OneUnbroken' /\ NothingLost'
    BY <1>same DEF IInv, LockNames, OneUnbroken, AtWork, NothingLost
  <1>2. \A w \in Workers : Good(w)'
    BY <1>same DEF IInv, Good, Safe, Listed, Staged, Progress, Reused, Exchanged, Filed, Undoing
  <1>3. Waiting'
    <2> SUFFICES ASSUME ~broken PROVE Waiting'
      BY <1>same DEF Waiting
    <2>1. ASSUME NEW w \in Workers, Heeds(w), NEW q \in Workers
          PROVE  worker[q].pc # "commit"
      <3>1. CASE \A v \in Workers : worker[v].pc \notin Working
        BY <3>1 DEF Working, Signalled
      <3>2. CASE worker[w].pc \in Early \cup {"own", "note", "start"}
        <4> SUFFICES ASSUME worker[q].pc = "commit" PROVE FALSE
          OBVIOUS
        <4>1. AtWork(w) /\ AtWork(q)
          BY <3>2 DEF AtWork, Working, Signalled
        <4>2. w = q
          BY <4>1 DEF IInv, OneUnbroken
        <4> QED
          BY <4>2, <3>2 DEF Early
      <3> QED
        BY <2>1, <3>1, <3>2 DEF Heeds
    <2>2. \A w \in Workers : Heeds(w) =>
             \/ worker[w].pc \in Early
             \/ worker[w].bg /\ worker[w].pc \in Locking \cup {"own", "note", "start"}
      BY DEF Heeds
    <2>3. owed \subseteq Workers
      BY <1>ok DEF TypeOK
    <2>4. flag' /\ (owed' \ erased' # {} => \A q \in Workers : worker'[q].pc # "commit")
      BY <2>1, <2>3, <1>same DEF IInv, Waiting
    <2>5. \A w \in owed' \ erased' :
             \/ worker'[w].pc \in Early \cup {"off", "exit"}
             \/ worker'[w].bg /\ worker'[w].pc \in Locking \cup {"own", "note", "start"}
      BY <2>2, <1>same DEF IInv, Waiting
    <2> QED
      BY <2>4, <2>5 DEF Waiting
  <1> QED
    BY <1>1, <1>2, <1>3 DEF IInv

\* The power goes.
LEMMA PowerCutStep ==
    ASSUME IInv, PowerCut, TypeOK'
    PROVE  IInv'
  <1>same. UNCHANGED <<disk, base, unguarded>> /\ owed' = {} /\ erased' = {} /\ lock' = NoLock
           /\ \A w \in Workers : worker'[w] = Off
    BY DEF PowerCut
  <1>1. \A w \in Workers : worker'[w].pc = "off"
    BY <1>same DEF Off
  <1>2. \A w \in Workers : ~AtWork(w)' /\ worker'[w].pc \notin Renaming
    BY <1>1 DEF AtWork, Renaming, Working, Signalled, Early, Swapping
  <1>3. LockNames' /\ OneUnbroken'
    BY <1>2, <1>same, NamesAssumption DEF LockNames, OneUnbroken, NoLock
  <1>4. \A w \in Workers : Good(w)'
    BY <1>same, NewGood
  <1>5. NothingLost'
    BY <1>2, <1>same DEF IInv, NothingLost
  <1>6. Waiting'
    BY <1>same DEF Waiting
  <1> QED
    BY <1>3, <1>4, <1>5, <1>6 DEF IInv

-----------------------------------------------------------------------------
(* The types, one action at a time.                                        *)

\* A directory that is renamed or removed.
LEMMA DiskTypes ==
    ASSUME TypeOK
    PROVE  /\ \A c \in Parts, r \in Releases \cup {None} : [disk EXCEPT !.part[c] = r] \in Disks
           /\ \A c \in Parts : [disk EXCEPT !.old[c] = disk.part[c], !.part[c] = None] \in Disks
           /\ \A c \in Parts : [disk EXCEPT !.part[c] = disk.old[c], !.old[c] = None] \in Disks
           /\ \A r \in Releases : [disk EXCEPT !.meta = r] \in Disks
           /\ \A s \in Scripts, c \in Parts : [disk EXCEPT !.init[s] = disk.part[c]] \in Disks
           /\ \A init \in Existing(Scripts), r \in Releases : [disk EXCEPT !.init = init, !.meta = r] \in Disks
           /\ \A S : Without(S) \in Disks
           /\ disk.init \in Existing(Scripts) /\ disk.meta \in Releases
           /\ Installed \in Installations
  BY DEF TypeOK, Disks, Existing, Installations, Installed, Without

\* Before the exchange.
LEMMA TypeEarly ==
    ASSUME TypeOK, NEW w \in Workers,
           \/ Detach(w) \/ ByHand(w)
           \/ MakeLock(w) \/ LookAtLock(w) \/ TakeLock(w) \/ Remake(w) \/ OwnLock(w) \/ NotePid(w)
           \/ Precheck(w) \/ Cancelled(w) \/ Plan(w) \/ Fetch(w) \/ Unpack(w) \/ Last(w)
    PROVE  TypeOK'
  <1>p. worker[w] \in Processes
    BY DEF TypeOK
  <1>f. /\ NoLock \in Locks /\ [NoLock EXCEPT !.by = w] \in Locks
        /\ [lock EXCEPT !.pid = Nobody, !.open = @ \cup {w}] \in Locks
        /\ [lock EXCEPT !.pid = w, !.open = @ \ {w}] \in Locks
        /\ LockAfter(w) \in Locks /\ StatusAfter(w) \in Reports
    BY FileTypes
  <1>s. \A stage \in {"none", "committing", "restarting", "starting", "busy", "done", "failed", "cancelled"} :
           /\ [pid |-> w, stage |-> stage] \in Reports /\ [pid |-> Nobody, stage |-> stage] \in Reports
           /\ [pid |-> Dead, stage |-> stage] \in Reports
    BY FileTypes, ShownStages
  <1>w. \A pc \in Places : Go(w, pc) => worker' \in [Workers -> Processes]
    BY GoEffect DEF Others
  <1>off. worker' = [worker EXCEPT ![w] = Off] => worker' \in [Workers -> Processes]
    BY OffEffect DEF Others
  <1>die. DieEarly(w) => /\ worker' \in [Workers -> Processes] /\ lock' \in Locks
                         /\ status' \in Reports
    BY <1>off, <1>f, <1>s DEF DieEarly
  <1>gone. Gone(w) => /\ worker' \in [Workers -> Processes] /\ lock' \in Locks
                      /\ status' \in Reports
    BY <1>off, <1>f DEF Gone
  <1>end. \A stage \in Ended : End(w, stage) => worker' \in [Workers -> Processes] /\ status' \in Reports
    BY <1>w, <1>s, PlaceNames DEF End, Show, Ended
  <1>1. CASE Detach(w)
    <2>1. [Off EXCEPT !.pc = "lock", !.bg = TRUE] \in Processes
      BY OffType DEF Processes, Locking
    <2>2. worker' \in [Workers -> Processes]
      BY <1>1, <2>1, Written DEF Detach, Others
    <2> QED
      BY <1>1, <2>2, <1>s, BudgetType DEF Detach, Show, TypeOK
  <1>2. CASE ByHand(w)
    <2>1. [Off EXCEPT !.pc = "lock"] \in Processes
      BY OffType DEF Processes, Locking
    <2>2. worker' \in [Workers -> Processes]
      BY <1>2, <2>1, Written DEF ByHand, Others
    <2> QED
      BY <1>2, <2>2, BudgetType DEF ByHand, TypeOK
  <1>3. CASE MakeLock(w)
    <2>1. worker' \in [Workers -> Processes] /\ lock' \in Locks /\ status' \in Reports /\ broken' \in BOOLEAN
      BY <1>3, <1>w, <1>f, PlaceNames DEF MakeLock, Made, TypeOK
    <2> QED
      BY <1>3, <2>1 DEF MakeLock, TypeOK
  <1>13. CASE LookAtLock(w)
    <2>1. worker' \in [Workers -> Processes] /\ lock' \in Locks /\ status' \in Reports
      BY <1>13, <1>w, <1>die, <1>gone, PlaceNames DEF LookAtLock, TypeOK
    <2>2. left' \in [Counted -> Nat]
      BY <1>13, BudgetType DEF LookAtLock, TypeOK
    <2> QED
      BY <1>13, <2>1, <2>2 DEF LookAtLock, TypeOK, history
  <1>4. CASE TakeLock(w)
    BY <1>4, <1>w, <1>f, PlaceNames DEF TakeLock, TypeOK
  <1>5. CASE Remake(w)
    <2>1. worker' \in [Workers -> Processes] /\ lock' \in Locks /\ status' \in Reports /\ broken' \in BOOLEAN
      BY <1>5, <1>w, <1>f, <1>die, PlaceNames DEF Remake, Made, TypeOK
    <2> QED
      BY <1>5, <2>1 DEF Remake, TypeOK
  <1>6. CASE OwnLock(w)
    <2>1. worker' \in [Workers -> Processes] /\ lock' \in Locks
      BY <1>6, <1>w, <1>f, PlaceNames DEF OwnLock, TypeOK
    <2> QED
      BY <1>6, <2>1 DEF OwnLock, TypeOK, history
  <1>14. CASE NotePid(w)
    <2>1. flag' \in BOOLEAN /\ erased' \subseteq Workers
      BY <1>14, <1>p DEF NotePid, TypeOK, Processes
    <2>2. worker' \in [Workers -> Processes] /\ lock' \in Locks
      BY <1>14, <1>w, <1>f, PlaceNames DEF NotePid, TypeOK
    <2> QED
      BY <1>14, <2>1, <2>2, <1>s DEF NotePid, Show, TypeOK
  <1>7. CASE Precheck(w)
    <2>1. CASE DieEarly(w)
      BY <1>7, <2>1, <1>die, BudgetType DEF Precheck, TypeOK, history
    <2>2. CASE /\ worker' = [q \in Workers |->
                    IF q = w THEN [worker[w] EXCEPT !.pc = "plan", !.tmp = TRUE]
                    ELSE [worker[q] EXCEPT !.stage = {}, !.keptMeta = None, !.keptInit = None]]
               /\ UNCHANGED <<left, lock, status>>
      <3>1. \A p \in Processes : [p EXCEPT !.pc = "plan", !.tmp = TRUE] \in Processes
        BY DEF Processes, Working, Signalled, Early
      <3>2. \A p \in Processes : [p EXCEPT !.stage = {}, !.keptMeta = None, !.keptInit = None] \in Processes
        BY DEF Processes
      <3>3. worker' \in [Workers -> Processes]
        BY <2>2, <3>1, <3>2 DEF TypeOK
      <3> QED
        BY <1>7, <2>2, <3>3 DEF Precheck, TypeOK, history
    <2> QED
      BY <1>7, <2>1, <2>2 DEF Precheck
  <1>8. CASE Cancelled(w)
    BY <1>8, <1>end DEF Cancelled, TypeOK, history, Ended
  <1>9. CASE Plan(w)
    <2>1. PICK r \in Releases :
             /\ latest' = r
             /\ \/ End(w, "done")
                \/ \E comps \in Seq(Parts) :
                      /\ worker' = [worker EXCEPT ![w].pc = "fetch", ![w].to = r, ![w].comps = comps]
                      /\ Show(w, "busy")
      BY <1>9, Lists DEF Plan
    <2>2. ASSUME NEW comps \in Seq(Parts)
          PROVE  [worker EXCEPT ![w].pc = "fetch", ![w].to = r, ![w].comps = comps]
                     \in [Workers -> Processes]
      <3> PICK p : p = worker[w]
        OBVIOUS
      <3>1. [p EXCEPT !.pc = "fetch", !.to = r, !.comps = comps] \in Processes
        BY <1>p DEF Processes, Working, Signalled, Early
      <3> QED
        BY <3>1 DEF TypeOK
    <2>3. worker' \in [Workers -> Processes] /\ status' \in Reports
      BY <2>1, <2>2, <1>end, <1>s, ZenonT(40) DEF Show, Ended
    <2> QED
      BY <1>9, <2>1, <2>3 DEF Plan, TypeOK, history
  <1>10. CASE Fetch(w)
    <2>1. worker' \in [Workers -> Processes] /\ status' \in Reports
      BY <1>10, <1>w, <1>end, PlaceNames DEF Fetch, Fail, Ended, TypeOK
    <2>2. left' \in [Counted -> Nat]
      BY <1>10, BudgetType DEF Fetch, Fail, TypeOK
    <2> QED
      BY <1>10, <2>1, <2>2 DEF Fetch, TypeOK, history
  <1>11. CASE Unpack(w)
    <2>1. [worker EXCEPT ![w].pc = "last", ![w].stage = Elems(worker[w].comps) \cup {"meta"}]
              \in [Workers -> Processes]
      <3> PICK p : p = worker[w]
        OBVIOUS
      <3>1. Elems(p.comps) \subseteq Parts
        BY <1>p DEF Processes, Elems
      <3>2. [p EXCEPT !.pc = "last", !.stage = Elems(p.comps) \cup {"meta"}] \in Processes
        BY <1>p, <3>1 DEF Processes, Working, Signalled, Early
      <3> QED
        BY <3>2 DEF TypeOK
    <2>2. worker' \in [Workers -> Processes] /\ status' \in Reports
      BY <1>11, <2>1, <1>w, <1>end, <1>s, PlaceNames DEF Unpack, Fail, Ended, Elems, Show
    <2>3. left' \in [Counted -> Nat]
      BY <1>11, BudgetType DEF Unpack, Fail, TypeOK
    <2> QED
      BY <1>11, <2>2, <2>3 DEF Unpack, TypeOK, history
  <1>12. CASE Last(w)
    <2>1. worker' \in [Workers -> Processes] /\ status' \in Reports
      BY <1>12, <1>w, <1>end, PlaceNames DEF Last, Ended, TypeOK
    <2> QED
      BY <1>12, <2>1 DEF Last, TypeOK, history
  <1> QED
    BY <1>1, <1>2, <1>3, <1>4, <1>5, <1>6, <1>7, <1>8, <1>9, <1>10, <1>11, <1>12, <1>13, <1>14

\* The exchange forwards.
LEMMA TypeSwap ==
    ASSUME TypeOK, NEW w \in Workers, Listed(w),
           \/ Commit(w) \/ StopServices(w) \/ ClearOld(w) \/ MoveOut(w) \/ MoveIn(w) \/ Meta(w)
           \/ KeepScripts(w) \/ InstallScripts(w) \/ DropOld(w) \/ StartPanel(w) \/ Finish(w)
    PROVE  TypeOK'
  <1>p. worker[w] \in Processes /\ worker[w].to \in Releases /\ worker[w].comps \in Seq(Parts \cup Scripts)
        /\ disk.part \in Existing(Parts)
    BY SeqEither DEF TypeOK, Processes, Disks
  <1>s. \A stage \in {"none", "committing", "restarting", "starting", "busy", "done", "failed", "cancelled"} :
           [pid |-> w, stage |-> stage] \in Reports
    BY FileTypes, ShownStages
  <1>w. \A pc \in Places : Go(w, pc) => worker' \in [Workers -> Processes]
    BY GoEffect DEF Others
  <1>t. \A pc \in Places, s \in Seq(Parts \cup Scripts) :
           Todo(w, pc, s) => worker' \in [Workers -> Processes]
    BY TodoEffect DEF Others
  <1>b. RollBackOn(w) => worker' \in [Workers -> Processes] /\ left' \in [Counted -> Nat]
    BY BackEffect DEF Others
  <1>1. CASE Commit(w)
    BY <1>1, <1>w, <1>s, PlaceNames DEF Commit, Show, TypeOK, history
  <1>2. CASE StopServices(w)
    <2> PICK p : p = worker[w]
      OBVIOUS
    <2>1. [p EXCEPT !.pc = "clear", !.post = TRUE] \in Processes
      BY <1>p DEF Processes, Working
    <2>2. worker' \in [Workers -> Processes]
      BY <1>2, <2>1 DEF StopServices, TypeOK
    <2> QED
      BY <1>2, <2>2 DEF StopServices, TypeOK, history
  <1>3. CASE ClearOld(w)
    <2>1. disk' \in Disks
      BY <1>3, DiskTypes DEF ClearOld
    <2>2. worker' \in [Workers -> Processes] /\ left' \in [Counted -> Nat]
      BY <1>3, <1>t, <1>w, <1>p, PlaceNames, BudgetType DEF ClearOld, TypeOK
    <2> QED
      BY <1>3, <2>1, <2>2, DiskTypes DEF ClearOld, TypeOK
  <1>4. CASE MoveOut(w)
    <2>1. worker[w].todo # <<>> => Head(worker[w].todo) \in Parts /\ Tail(worker[w].todo) \in Seq(Parts \cup Scripts)
      BY <1>4, NextPart DEF MoveOut, At
    <2>2. worker' \in [Workers -> Processes] /\ left' \in [Counted -> Nat]
      BY <1>4, <2>1, <1>t, <1>b, <1>p, PlaceNames DEF MoveOut, TypeOK
    <2>3. disk' \in Disks
      BY <1>4, <2>1, DiskTypes DEF MoveOut, TypeOK
    <2> QED
      BY <1>4, <2>2, <2>3 DEF MoveOut, TypeOK, history
  <1>5. CASE MoveIn(w)
    <2>1. CASE worker[w].todo = <<>>
      BY <1>5, <2>1, <1>w, PlaceNames DEF MoveIn, TypeOK, history
    <2>2. CASE worker[w].todo # <<>>
      <3> PICK p : p = worker[w]
        OBVIOUS
      <3> PICK c : c = Head(worker[w].todo)
        OBVIOUS
      <3>1. c \in Parts /\ Tail(p.todo) \in Seq(Parts \cup Scripts)
        BY <1>5, <2>2, NextPart DEF MoveIn, At
      <3>2. [p EXCEPT !.todo = Tail(p.todo), !.moved = @ \cup {c}, !.stage = @ \ {c}] \in Processes
        BY <3>1, <1>p DEF Processes
      <3>3. [p EXCEPT !.pc = "rollback", !.todo = p.comps, !.moved = p.moved \cup {c}] \in Processes
        BY <3>1, <1>p DEF Processes, Working, Swapping
      <3>4. \/ worker' = [worker EXCEPT ![w] = [p EXCEPT !.todo = Tail(p.todo), !.moved = @ \cup {c}, !.stage = @ \ {c}]]
            \/ worker' = [worker EXCEPT ![w] = [p EXCEPT !.pc = "rollback", !.todo = p.comps, !.moved = p.moved \cup {c}]]
        BY <1>5, <2>2 DEF MoveIn, TypeOK
      <3>5. worker' \in [Workers -> Processes]
        BY <3>2, <3>3, <3>4 DEF TypeOK
      <3>6. Contents(p.to)[c] \in Releases
        BY <3>1, <1>p, ContentsType
      <3>7. disk' \in Disks
        <4> PICK n : n = Contents(p.to)[c]
          OBVIOUS
        <4>1. disk' = disk \/ disk' = [disk EXCEPT !.part[c] = n]
          BY <1>5, <2>2 DEF MoveIn
        <4>2. [disk EXCEPT !.part[c] = n] \in Disks
          BY <3>1, <3>6, DiskTypes
        <4> QED
          BY <4>1, <4>2 DEF TypeOK
      <3>8. left' \in [Counted -> Nat]
        BY <1>5, <2>2, BudgetType DEF MoveIn, TypeOK
      <3> QED
        BY <1>5, <3>5, <3>7, <3>8 DEF MoveIn, TypeOK, history
    <2> QED
      BY <2>1, <2>2
  <1>6. CASE Meta(w)
    <2> PICK p : p = worker[w]
      OBVIOUS
    <2>1. [p EXCEPT !.pc = "scripts", !.keptMeta = disk.meta, !.stage = @ \ {"meta"}] \in Processes
      BY <1>p, DiskTypes DEF Processes, Working, Swapping
    <2>2. \/ worker' = [worker EXCEPT ![w] = [p EXCEPT !.pc = "scripts", !.keptMeta = disk.meta, !.stage = @ \ {"meta"}]]
          \/ RollBackOn(w)
      BY <1>6 DEF Meta, TypeOK
    <2>3. worker' \in [Workers -> Processes]
      BY <2>1, <2>2, <1>b DEF TypeOK
    <2>4. disk' \in Disks
      <3>1. disk' = disk \/ disk' = [disk EXCEPT !.meta = worker[w].to]
        BY <1>6 DEF Meta
      <3>2. [disk EXCEPT !.meta = worker[w].to] \in Disks
        BY <1>p, DiskTypes
      <3> QED
        BY <3>1, <3>2 DEF TypeOK
    <2>5. left' \in [Counted -> Nat]
      BY <1>6, <1>b, BudgetType DEF Meta, TypeOK
    <2> QED
      BY <1>6, <2>3, <2>4, <2>5 DEF Meta, TypeOK, history
  <1>7. CASE KeepScripts(w)
    <2> PICK p : p = worker[w]
      OBVIOUS
    <2> PICK s : s = <<"jbox", "jbox-panel">>
      OBVIOUS
    <2>1. s \in Seq(Parts \cup Scripts)
      BY Lists, SeqEither
    <2>2. [p EXCEPT !.pc = "install", !.keptInit = disk.init, !.todo = s] \in Processes
      BY <2>1, <1>p, DiskTypes DEF Processes, Working, Swapping
    <2>3. \/ worker' = [worker EXCEPT ![w] = [p EXCEPT !.pc = "install", !.keptInit = disk.init, !.todo = s]]
          \/ RollBackOn(w)
      BY <1>7 DEF KeepScripts, TypeOK
    <2>4. worker' \in [Workers -> Processes] /\ left' \in [Counted -> Nat]
      BY <1>7, <2>2, <2>3, <1>b DEF KeepScripts, TypeOK
    <2> QED
      BY <1>7, <2>4 DEF KeepScripts, TypeOK, history
  <1>8. CASE InstallScripts(w)
    <2>1. worker[w].todo # <<>> => Head(worker[w].todo) \in Scripts /\ Tail(worker[w].todo) \in Seq(Parts \cup Scripts)
      BY <1>8, NextScript DEF InstallScripts, At
    <2>2. worker' \in [Workers -> Processes] /\ left' \in [Counted -> Nat]
      BY <1>8, <2>1, <1>t, <1>w, <1>b, <1>p, PlaceNames DEF InstallScripts, TypeOK
    <2>3. disk' \in Disks
      BY <1>8, <2>1, DiskTypes DEF InstallScripts, TypeOK, Parts
    <2> QED
      BY <1>8, <2>2, <2>3 DEF InstallScripts, TypeOK, history
  <1>9. CASE DropOld(w)
    <2>1. disk' \in Disks
      BY <1>9, DiskTypes DEF DropOld
    <2>2. left' \in [Counted -> Nat]
      BY <1>9, BudgetType DEF DropOld, TypeOK
    <2> QED
      BY <1>9, <2>1, <2>2, <1>w, PlaceNames DEF DropOld, TypeOK, history
  <1>10. CASE StartPanel(w)
    <2> PICK p : p = worker[w]
      OBVIOUS
    <2>1. [p EXCEPT !.pc = "finish", !.post = FALSE] \in Processes
      BY <1>p DEF Processes, Working
    <2>2. worker' \in [Workers -> Processes]
      BY <1>10, <2>1 DEF StartPanel, TypeOK
    <2> QED
      BY <1>10, <2>2 DEF StartPanel, TypeOK, history
  <1>11. CASE Finish(w)
    BY <1>11, <1>w, <1>s, PlaceNames DEF Finish, End, Show, TypeOK, history
  <1> QED
    BY <1>1, <1>2, <1>3, <1>4, <1>5, <1>6, <1>7, <1>8, <1>9, <1>10, <1>11

\* The rollback, the end, and what comes from outside.
LEMMA TypeRest ==
    ASSUME TypeOK, NEW w \in Workers, Listed(w),
           UndoPart(w) \/ UndoFiles(w) \/ Exit(w) \/ Interrupt(w) \/ Kill(w)
    PROVE  TypeOK'
  <1>p. worker[w] \in Processes /\ worker[w].comps \in Seq(Parts \cup Scripts)
    BY SeqEither DEF TypeOK, Processes
  <1>f. NoLock \in Locks /\ LockAfter(w) \in Locks /\ StatusAfter(w) \in Reports
    BY FileTypes
  <1>off. worker' = [worker EXCEPT ![w] = Off] => worker' \in [Workers -> Processes]
    BY OffEffect DEF Others
  <1> PICK p : p = worker[w]
    OBVIOUS
  <1>1. CASE UndoPart(w)
    <2> PICK c : c = Head(worker[w].todo)
      OBVIOUS
    <2>1. c \in Parts /\ Tail(p.todo) \in Seq(Parts \cup Scripts)
      BY <1>1, NextPart DEF UndoPart, At
    <2>2. /\ \/ Todo(w, "rollback", Tail(p.todo))
             \/ worker' = [worker EXCEPT ![w].todo = Tail(@), ![w].bad = TRUE]
          /\ left' = left \/ (Use("faults") /\ May("faults"))
          /\ Undo(w, c) \/ UndoFails(w, c)
      BY <1>1 DEF UndoPart, UndoFails
    <2>3. [p EXCEPT !.pc = "rollback", !.todo = Tail(p.todo)] \in Processes
          /\ [p EXCEPT !.todo = Tail(p.todo), !.bad = TRUE] \in Processes
      BY <2>1, <1>p DEF Processes, Working, Swapping
    <2>4. worker' \in [Workers -> Processes]
      <3>1. \/ worker' = [worker EXCEPT ![w] = [p EXCEPT !.pc = "rollback", !.todo = Tail(p.todo)]]
            \/ worker' = [worker EXCEPT ![w] = [p EXCEPT !.todo = Tail(p.todo), !.bad = TRUE]]
        BY <2>2 DEF Todo, TypeOK
      <3> QED
        BY <3>1, <2>3 DEF TypeOK
    <2>5. left' \in [Counted -> Nat]
      BY <2>2, BudgetType DEF TypeOK
    <2>6. PICK gone \in Releases \cup {None} :
             gone = IF c \in worker[w].moved THEN None ELSE disk.part[c]
      BY <2>1 DEF TypeOK, Disks, Existing
    <2>7. /\ disk \in Disks /\ [disk EXCEPT !.part[c] = gone] \in Disks
          /\ [disk EXCEPT !.part[c] = None] \in Disks
          /\ [disk EXCEPT !.part[c] = disk.old[c], !.old[c] = None] \in Disks
      BY <2>1, DiskTypes DEF TypeOK
    <2>8. Undo(w, c) => disk' \in Disks
      BY <2>6, <2>7 DEF Undo
    <2>9. UndoFails(w, c) => disk' \in Disks
      BY <2>7 DEF UndoFails
    <2>10. disk' \in Disks
      BY <2>2, <2>8, <2>9
    <2> QED
      BY <1>1, <2>4, <2>5, <2>10 DEF UndoPart, TypeOK, history
  <1>2. CASE UndoFiles(w)
    <2>1. worker' \in [Workers -> Processes] /\ status' \in Reports
      BY <1>2, GoEffect, PlaceNames, FileTypes, ShownStages DEF UndoFiles, End, Show, Others
    <2>2. broken' \in BOOLEAN /\ left' \in [Counted -> Nat]
      BY <1>2, <1>p, BudgetType DEF UndoFiles, TypeOK, Processes
    <2>3. PICK init \in Existing(Scripts), meta \in Releases :
             /\ init = IF p.keptInit = None THEN disk.init ELSE p.keptInit
             /\ meta = IF p.keptMeta = None THEN disk.meta ELSE p.keptMeta
      BY <1>p, DiskTypes DEF Processes
    <2>4. disk' = [disk EXCEPT !.init = init, !.meta = meta] \/ disk' = disk
      BY <1>2, <2>3 DEF UndoFiles
    <2>5. [disk EXCEPT !.init = init, !.meta = meta] \in Disks /\ disk \in Disks
      BY DiskTypes DEF TypeOK
    <2>6. disk' \in Disks
      BY <2>4, <2>5
    <2> QED
      BY <1>2, <2>1, <2>2, <2>6 DEF UndoFiles, TypeOK
  <1>3. CASE Exit(w)
    <2>1. panel' \in BOOLEAN /\ unguarded' \in BOOLEAN
      BY <1>3, <1>p DEF Exit, TypeOK, Processes
    <2> QED
      BY <1>3, <2>1, <1>f, <1>off DEF Exit, TypeOK
  <1>4. CASE Interrupt(w)
    <2>1. [p EXCEPT !.stage = {}, !.tmp = FALSE] \in Processes
      BY <1>p DEF Processes
    <2>2. worker' \in [Workers -> Processes]
      BY <1>4, <2>1 DEF Interrupt, TypeOK
    <2> QED
      BY <1>4, <2>2, <1>f, BudgetType DEF Interrupt, TypeOK
  <1>5. CASE Kill(w)
    BY <1>5, <1>f, <1>off, BudgetType DEF Kill, Gone, TypeOK
  <1> QED
    BY <1>1, <1>2, <1>3, <1>4, <1>5

\* The types, whatever the step.
LEMMA TypeStep ==
    ASSUME IInv, [Next]_vars
    PROVE  TypeOK'
  <1>t. TypeOK /\ \A w \in Workers : Listed(w)
    BY DEF IInv, Good
  <1>1. CASE UNCHANGED vars
    BY <1>t, <1>1 DEF vars, TypeOK
  <1>2. CASE Cancel
    <2>1. left' \in [Counted -> Nat]
      BY <1>t, <1>2, BudgetType DEF Cancel
    <2> QED
      BY <1>t, <1>2, <2>1 DEF Cancel, TypeOK
  <1>3. CASE PowerCut
    <2>1. left' \in [Counted -> Nat]
      BY <1>t, <1>3, BudgetType DEF PowerCut
    <2>2. worker' \in [Workers -> Processes]
      BY <1>3, OffType DEF PowerCut
    <2>3. lock' \in Locks /\ status' \in Reports
      BY <1>3, ShownStages DEF PowerCut, NoLock, Locks, Reports, Pids
    <2> QED
      BY <1>t, <1>3, <2>1, <2>2, <2>3 DEF PowerCut, TypeOK
  <1>4. ASSUME NEW w \in Workers,
               \/ Detach(w) \/ ByHand(w)
               \/ MakeLock(w) \/ LookAtLock(w) \/ TakeLock(w) \/ Remake(w) \/ OwnLock(w) \/ NotePid(w)
               \/ Precheck(w) \/ Cancelled(w) \/ Plan(w) \/ Fetch(w) \/ Unpack(w) \/ Last(w)
        PROVE  TypeOK'
    BY <1>t, <1>4, TypeEarly
  <1>5. ASSUME NEW w \in Workers,
               \/ Commit(w) \/ StopServices(w) \/ ClearOld(w) \/ MoveOut(w) \/ MoveIn(w) \/ Meta(w)
               \/ KeepScripts(w) \/ InstallScripts(w) \/ DropOld(w) \/ StartPanel(w) \/ Finish(w)
        PROVE  TypeOK'
    BY <1>t, <1>5, TypeSwap
  <1>6. ASSUME NEW w \in Workers,
               UndoPart(w) \/ UndoFiles(w) \/ Exit(w) \/ Interrupt(w) \/ Kill(w)
        PROVE  TypeOK'
    BY <1>t, <1>6, TypeRest
  <1> QED
    BY <1>1, <1>2, <1>3, <1>4, <1>5, <1>6 DEF Next

-----------------------------------------------------------------------------
(* The invariant.                                                          *)

\* Nobody is at work, nothing is missing.
LEMMA InitIInv == Init => IInv
  <1> SUFFICES ASSUME Init PROVE IInv
    OBVIOUS
  <1>1. ASSUME NEW w \in Workers
        PROVE  /\ worker[w].pc = "off" /\ worker[w].moved = {} /\ worker[w].keptMeta = None
               /\ worker[w].keptInit = None /\ ~worker[w].bad
               /\ worker[w].comps = <<>> /\ worker[w].todo = <<>>
    <2>1. worker[w] = Off
      BY DEF Init
    <2> QED
      BY <2>1 DEF Off
  <1>2. Contents(0) \in Existing(Parts) /\ Contents(0) \in [Parts -> Releases]
    BY ContentsType, NamesAssumption
  <1>3. TypeOK
    <2>1. worker \in [Workers -> Processes]
      BY OffType DEF Init
    <2>2. disk \in Disks
      BY <1>2, NamesAssumption DEF Init, Disks, Existing
    <2>3. lock \in Locks /\ status \in Reports
      BY ShownStages DEF Init, NoLock, Locks, Reports, Pids
    <2>4. latest \in Releases /\ left \in [Counted -> Nat]
      BY NamesAssumption, BudgetsAssumption DEF Init
    <2>5. base \in Installations
      <3>1. base = [part |-> disk.part, meta |-> disk.meta, init |-> disk.init]
        BY DEF Init, Installed
      <3> QED
        BY <3>1, <2>2 DEF Installations, Disks
    <2> QED
      BY <2>1, <2>2, <2>3, <2>4, <2>5 DEF Init, TypeOK
  <1>4. \A w \in Workers : ~AtWork(w)
    BY <1>1 DEF AtWork, Working, Signalled, Early, Swapping
  <1>5. LockNames /\ OneUnbroken
    BY <1>4, NamesAssumption DEF Init, LockNames, OneUnbroken, NoLock
  <1>6. \A w \in Workers : Good(w)
    <2> SUFFICES ASSUME NEW w \in Workers PROVE Good(w)
      OBVIOUS
    <2>1. Listed(w) /\ Staged(w)
      BY <1>1, NoElems DEF Listed, Staged
    <2>2. Progress(w)
      BY <1>1 DEF Progress, Reused, Exchanged, Filed, Undoing, Planned, Swapping
    <2> QED
      BY <2>1, <2>2 DEF Good
  <1>7. NothingLost
    BY <1>2, NamesAssumption DEF Init, NothingLost
  <1>8. Waiting
    BY DEF Init, Waiting
  <1> QED
    BY <1>3, <1>5, <1>6, <1>7, <1>8 DEF IInv

\* Nothing happens.
LEMMA StutterStep ==
    ASSUME IInv, UNCHANGED vars, TypeOK'
    PROVE  IInv'
  <1>1. LockNames' /\ OneUnbroken' /\ NothingLost' /\ Waiting'
    BY DEF IInv, vars, LockNames, OneUnbroken, AtWork, NothingLost, Waiting
  <1>2. ASSUME NEW w \in Workers PROVE Good(w)'
    <2>1. Listed(w)' /\ Staged(w)'
      BY DEF IInv, Good, vars, Listed, Staged
    <2>2. Safe' => Progress(w)'
      BY DEF IInv, Good, vars, Safe, Progress, Reused, Exchanged, Filed, Undoing
    <2> QED
      BY <2>1, <2>2 DEF Good
  <1> QED
    BY <1>1, <1>2 DEF IInv

\* Every action, and the stutter.
LEMMA Step == IInv /\ [Next]_vars => IInv'
  <1> SUFFICES ASSUME IInv, [Next]_vars PROVE IInv'
    OBVIOUS
  <1>t. TypeOK'
    BY TypeStep
  <1>1. CASE UNCHANGED vars
    BY <1>1, <1>t, StutterStep
  <1>2. CASE Cancel
    BY <1>2, <1>t, CancelStep
  <1>3. CASE PowerCut
    BY <1>3, <1>t, PowerCutStep
  <1>4. ASSUME NEW w \in Workers, Detach(w) \/ ByHand(w) PROVE IInv'
    BY <1>4, <1>t, BeginStep
  <1>5. ASSUME NEW w \in Workers, MakeLock(w) PROVE IInv'
    BY <1>5, <1>t, MakeLockStep
  <1>31. ASSUME NEW w \in Workers, LookAtLock(w) PROVE IInv'
    BY <1>31, <1>t, LookAtLockStep
  <1>6. ASSUME NEW w \in Workers, TakeLock(w) PROVE IInv'
    BY <1>6, <1>t, TakeLockStep
  <1>7. ASSUME NEW w \in Workers, Remake(w) PROVE IInv'
    BY <1>7, <1>t, RemakeStep
  <1>8. ASSUME NEW w \in Workers, OwnLock(w) PROVE IInv'
    BY <1>8, <1>t, OwnLockStep
  <1>32. ASSUME NEW w \in Workers, NotePid(w) PROVE IInv'
    BY <1>32, <1>t, NotePidStep
  <1>9. ASSUME NEW w \in Workers, Precheck(w) PROVE IInv'
    BY <1>9, <1>t, PrecheckStep
  <1>10. ASSUME NEW w \in Workers, Cancelled(w) PROVE IInv'
    BY <1>10, <1>t, CancelledStep
  <1>11. ASSUME NEW w \in Workers, Plan(w) PROVE IInv'
    BY <1>11, <1>t, PlanStep
  <1>12. ASSUME NEW w \in Workers, Fetch(w) PROVE IInv'
    BY <1>12, <1>t, FetchStep
  <1>13. ASSUME NEW w \in Workers, Unpack(w) PROVE IInv'
    BY <1>13, <1>t, UnpackStep
  <1>14. ASSUME NEW w \in Workers, Last(w) PROVE IInv'
    BY <1>14, <1>t, LastStep
  <1>15. ASSUME NEW w \in Workers, Commit(w) PROVE IInv'
    BY <1>15, <1>t, CommitStep
  <1>16. ASSUME NEW w \in Workers, StopServices(w) PROVE IInv'
    BY <1>16, <1>t, StopServicesStep
  <1>17. ASSUME NEW w \in Workers, ClearOld(w) PROVE IInv'
    BY <1>17, <1>t, ClearOldStep
  <1>18. ASSUME NEW w \in Workers, MoveOut(w) PROVE IInv'
    BY <1>18, <1>t, MoveOutStep
  <1>19. ASSUME NEW w \in Workers, MoveIn(w) PROVE IInv'
    BY <1>19, <1>t, MoveInStep
  <1>20. ASSUME NEW w \in Workers, Meta(w) PROVE IInv'
    BY <1>20, <1>t, MetaStep
  <1>21. ASSUME NEW w \in Workers, KeepScripts(w) PROVE IInv'
    BY <1>21, <1>t, KeepScriptsStep
  <1>22. ASSUME NEW w \in Workers, InstallScripts(w) PROVE IInv'
    BY <1>22, <1>t, InstallScriptsStep
  <1>23. ASSUME NEW w \in Workers, DropOld(w) PROVE IInv'
    BY <1>23, <1>t, DropOldStep
  <1>24. ASSUME NEW w \in Workers, StartPanel(w) PROVE IInv'
    BY <1>24, <1>t, StartPanelStep
  <1>25. ASSUME NEW w \in Workers, Finish(w) PROVE IInv'
    BY <1>25, <1>t, FinishStep
  <1>26. ASSUME NEW w \in Workers, UndoPart(w) PROVE IInv'
    BY <1>26, <1>t, UndoPartStep
  <1>27. ASSUME NEW w \in Workers, UndoFiles(w) PROVE IInv'
    BY <1>27, <1>t, UndoFilesStep
  <1>28. ASSUME NEW w \in Workers, Exit(w) PROVE IInv'
    BY <1>28, <1>t, ExitStep
  <1>29. ASSUME NEW w \in Workers, Interrupt(w) PROVE IInv'
    BY <1>29, <1>t, InterruptStep
  <1>30. ASSUME NEW w \in Workers, Kill(w) PROVE IInv'
    BY <1>30, <1>t, KillStep
  <1> QED
    BY <1>1, <1>2, <1>3, <1>4, <1>5, <1>6, <1>7, <1>8, <1>9, <1>10, <1>11, <1>12, <1>13,
       <1>14, <1>15, <1>16, <1>17, <1>18, <1>19, <1>20, <1>21, <1>22, <1>23, <1>24,
       <1>25, <1>26, <1>27, <1>28, <1>29, <1>30, <1>31, <1>32
       DEF Next

\* The invariant, for every value of the constants.
THEOREM Invariance == Spec => []IInv
  BY InitIInv, Step, PTL DEF Spec

-----------------------------------------------------------------------------
(* What it gives.                                                          *)

\* One worker at a time and nothing missing: update.sh never leaves a component
\* that was in place neither in place nor beside it as .old (clear, out, in,
\* rollback), while no lock directory is removed under the one who made it.
THEOREM NothingMissing == Spec => []Intact
  <1>1. IInv => Intact
    BY DEF IInv, Intact, OneWorker, LockNames, AtWork
  <1> QED
    BY <1>1, Invariance, PTL

\* --cancel: who was told "requested" in time does not touch the services or the
\* installation, unless update.sh itself took the flag away because another update was
\* dispatched, or run by hand, since.
THEOREM RequestHonoured == Spec => []CancelHonoured
  <1>1. IInv => CancelHonoured
    BY DEF IInv, Waiting, CancelHonoured, Early, Locking, Swapping
  <1> QED
    BY <1>1, Invariance, PTL

\* What a run is at that has all in place, also what it did not have to exchange.
LEMMA AllExchanged ==
    ASSUME IInv, NEW w \in Workers, Safe, worker[w].pc \in {"drop", "panel"}
    PROVE  disk.part = Contents(worker[w].to) /\ \A s \in Scripts : disk.init[s] = worker[w].to
  <1>1. worker[w].to \in Releases /\ disk.part \in Existing(Parts)
    BY DEF IInv, TypeOK, Processes, Disks
  <1>2. Reused(w) /\ Exchanged(w) /\ Filed(w)
    BY DEF IInv, Good, Progress
  <1>3. \A c \in Parts \ Elems(worker[w].comps) : disk.part[c] = Contents(worker[w].to)[c]
    BY <1>2 DEF Reused, Planned
  <1>4. \A c \in Elems(worker[w].comps) : disk.part[c] = Contents(worker[w].to)[c]
    BY <1>2 DEF Exchanged
  <1>5. disk.part = Contents(worker[w].to)
    <2>1. PICK n, d : n = Contents(worker[w].to) /\ d = disk.part
      OBVIOUS
    <2>2. n \in [Parts -> Releases] /\ d \in [Parts -> Releases \cup {None}]
      BY <1>1, <2>1, ContentsType DEF Existing
    <2>3. \A c \in Parts : d[c] = n[c]
      BY <1>3, <1>4, <2>1
    <2>4. d = n
      BY <2>2, <2>3
    <2> QED
      BY <2>1, <2>4
  <1> QED
    BY <1>2, <1>5 DEF Filed

\* A run that got through its exchange has put a whole release in place, whatever
\* an earlier one had left for it.
THEOREM RunRepairs == Spec => []ExchangeRepairs
  <1>1. IInv => ExchangeRepairs
    BY AllExchanged DEF ExchangeRepairs, At, Safe
  <1> QED
    BY <1>1, Invariance, PTL

-----------------------------------------------------------------------------
(* The abstract specification.                                             *)

InExchange(w) == worker[w].pc \in Swapping

\* The installation, for one who does not look while it is exchanged.
Shown == IF \E w \in Workers : InExchange(w) THEN base ELSE Installed

\* It is the installed whole release.
LEMMA ShownInit == Init => A!Init
  <1> SUFFICES ASSUME Init PROVE A!Init
    OBVIOUS
  <1>1. ASSUME NEW w \in Workers PROVE worker[w].pc \notin Swapping
    <2>1. worker[w] = Off
      BY DEF Init
    <2>2. worker[w].pc = "off"
      BY <2>1 DEF Off
    <2> QED
      BY <2>2 DEF Swapping
  <1>2. Installed = Whole(0, 0)
    BY DEF Init, Installed, Whole
  <1> QED
    BY <1>1, <1>2, NamesAssumption DEF A!Init, Init

\* Nobody begins or ends an exchange.
LEMMA ShownOutside ==
    ASSUME \A q \in Workers : worker'[q].pc \in Swapping <=> worker[q].pc \in Swapping,
           UNCHANGED base, UNCHANGED <<disk.part, disk.meta, disk.init>>
    PROVE  Shown' = Shown
  BY DEF Shown, InExchange, Installed

\* One goes on with its exchange.
LEMMA ShownInside ==
    ASSUME NEW w \in Workers, InExchange(w), worker'[w].pc \in Swapping, UNCHANGED base
    PROVE  Shown' = Shown
  BY DEF Shown, InExchange

\* The steps of one that is not in the exchange.
LEMMA ShownBefore ==
    ASSUME IInv, NEW w \in Workers,
           \/ Detach(w) \/ ByHand(w)
           \/ MakeLock(w) \/ LookAtLock(w) \/ TakeLock(w) \/ Remake(w) \/ OwnLock(w) \/ NotePid(w)
           \/ Precheck(w) \/ Cancelled(w) \/ Plan(w) \/ Fetch(w) \/ Unpack(w) \/ Last(w)
           \/ Commit(w) \/ StopServices(w) \/ DropOld(w) \/ StartPanel(w) \/ Finish(w)
           \/ Exit(w) \/ Interrupt(w)
    PROVE  UNCHANGED base /\ Shown' = Shown
  <1>t. TypeOK
    BY DEF IInv
  <1>s. Swapping = {"out", "in", "meta", "scripts", "install", "rollback"}
    BY DEF Swapping
  <1>q. \A q \in Workers : worker[q] \in Processes
    BY <1>t DEF TypeOK
  <1> DEFINE Same == \A q \in Workers : worker'[q].pc \in Swapping <=> worker[q].pc \in Swapping
             Kept == UNCHANGED base /\ UNCHANGED <<disk.part, disk.meta, disk.init>>
  <1>go. ASSUME NEW pc \in Places \ Swapping, worker[w].pc \notin Swapping, Go(w, pc) PROVE Same
    BY <1>go, <1>t, GoEffect DEF Others
  <1>off. ASSUME worker[w].pc \notin Swapping, worker' = [worker EXCEPT ![w] = Off] PROVE Same
    <2>1. Off.pc = "off"
      BY DEF Off
    <2> QED
      BY <2>1, <1>off, <1>s, <1>t, OffEffect DEF Others
  <1>1. CASE Detach(w)
    <2>1. [Off EXCEPT !.pc = "lock", !.bg = TRUE] \in Processes
          /\ [Off EXCEPT !.pc = "lock", !.bg = TRUE].pc = "lock"
      BY OffType DEF Processes, Locking, Off
    <2>2. Same
      BY <1>1, <2>1, <1>t, Written, <1>s DEF Detach, At, Others
    <2> QED
      BY <1>1, <2>2, ShownOutside DEF Detach
  <1>2. CASE ByHand(w)
    <2>1. [Off EXCEPT !.pc = "lock"] \in Processes /\ [Off EXCEPT !.pc = "lock"].pc = "lock"
      BY OffType DEF Processes, Locking, Off
    <2>2. Same
      BY <1>2, <2>1, <1>t, Written, <1>s DEF ByHand, At, Others
    <2> QED
      BY <1>2, <2>2, ShownOutside DEF ByHand
  <1>3. CASE MakeLock(w)
    <2>1. Same
      BY <1>3, <1>go, <1>s, PlaceNames DEF MakeLock, Made, At
    <2> QED
      BY <1>3, <2>1, ShownOutside DEF MakeLock
  <1>20. CASE LookAtLock(w)
    <2>1. Same
      BY <1>20, <1>go, <1>off, <1>s, PlaceNames DEF LookAtLock, Gone, DieEarly, At
    <2> QED
      BY <1>20, <2>1, ShownOutside DEF LookAtLock, history
  <1>4. CASE TakeLock(w)
    <2>1. Same
      BY <1>4, <1>go, <1>s, PlaceNames DEF TakeLock, At
    <2> QED
      BY <1>4, <2>1, ShownOutside DEF TakeLock
  <1>5. CASE Remake(w)
    <2>1. Same
      BY <1>5, <1>go, <1>off, <1>s, PlaceNames DEF Remake, Made, DieEarly, At
    <2> QED
      BY <1>5, <2>1, ShownOutside DEF Remake
  <1>6. CASE OwnLock(w)
    <2>1. Same
      BY <1>6, <1>go, <1>s, PlaceNames DEF OwnLock, At
    <2> QED
      BY <1>6, <2>1, ShownOutside DEF OwnLock, history
  <1>21. CASE NotePid(w)
    <2>1. Same
      BY <1>21, <1>go, <1>s, PlaceNames DEF NotePid, At
    <2> QED
      BY <1>21, <2>1, ShownOutside DEF NotePid
  <1>7. CASE Precheck(w)
    <2>1. CASE DieEarly(w)
      BY <1>7, <2>1, <1>off, <1>s, ShownOutside DEF Precheck, DieEarly, At, history
    <2>2. CASE worker' = [q \in Workers |->
                   IF q = w THEN [worker[w] EXCEPT !.pc = "plan", !.tmp = TRUE]
                   ELSE [worker[q] EXCEPT !.stage = {}, !.keptMeta = None, !.keptInit = None]]
      <3>1. \A p \in Processes :
               /\ [p EXCEPT !.pc = "plan", !.tmp = TRUE].pc = "plan"
               /\ [p EXCEPT !.stage = {}, !.keptMeta = None, !.keptInit = None].pc = p.pc
        BY DEF Processes
      <3>2. worker'[w].pc = "plan" /\ \A q \in Workers \ {w} : worker'[q].pc = worker[q].pc
        BY <2>2, <3>1, <1>q
      <3>3. Same
        BY <1>7, <3>2, <1>s DEF Precheck, At
      <3> QED
        BY <1>7, <3>3, ShownOutside DEF Precheck, history
    <2> QED
      BY <1>7, <2>1, <2>2 DEF Precheck
  <1>end. ASSUME NEW stage, worker[w].pc \notin Swapping, End(w, stage) PROVE Same
    BY <1>end, <1>go, <1>s, PlaceNames DEF End
  <1>8. CASE Cancelled(w)
    <2>1. Same
      BY <1>8, <1>end, <1>s DEF Cancelled, Early
    <2> QED
      BY <1>8, <2>1, ShownOutside DEF Cancelled, history
  <1>9. CASE Plan(w)
    <2>1. CASE End(w, "done")
      BY <1>9, <2>1, <1>end, <1>s, ShownOutside DEF Plan, At, history
    <2>2. CASE \E r \in Releases, comps \in Seq(Parts) :
                  worker' = [worker EXCEPT ![w].pc = "fetch", ![w].to = r, ![w].comps = comps]
      <3>1. PICK r \in Releases, comps \in Seq(Parts) :
                  worker' = [worker EXCEPT ![w].pc = "fetch", ![w].to = r, ![w].comps = comps]
        BY <2>2
      <3>2. PICK p : p = worker[w]
        OBVIOUS
      <3>3. [p EXCEPT !.pc = "fetch", !.to = r, !.comps = comps] \in Processes
            /\ [p EXCEPT !.pc = "fetch", !.to = r, !.comps = comps].pc = "fetch"
        BY <1>q, <3>2, ZenonT(40) DEF Processes, Working, Signalled, Early
      <3>4. worker' = [worker EXCEPT ![w] = [p EXCEPT !.pc = "fetch", !.to = r, !.comps = comps]]
        BY <3>1, <3>2 DEF TypeOK
      <3>5. Others(w) /\ worker'[w] = [p EXCEPT !.pc = "fetch", !.to = r, !.comps = comps]
        BY <1>t, <3>3, <3>4, Written
      <3>6. worker'[w].pc = "fetch"
        BY <3>3, <3>5
      <3>7. Same
        BY <1>9, <3>5, <3>6, <1>s DEF Plan, At, Others
      <3> QED
        BY <1>9, <3>7, ShownOutside DEF Plan, history
    <2> QED
      BY <1>9, <2>1, <2>2, Lists DEF Plan
  <1>10. CASE Fetch(w)
    <2>1. Same
      BY <1>10, <1>go, <1>end, <1>s, PlaceNames DEF Fetch, Fail, At
    <2> QED
      BY <1>10, <2>1, ShownOutside DEF Fetch, history
  <1>11. CASE Unpack(w)
    <2>1. CASE worker' = [worker EXCEPT ![w].pc = "last",
                             ![w].stage = Elems(worker[w].comps) \cup {"meta"}]
      <3>1. PICK p : p = worker[w]
        OBVIOUS
      <3>2. Elems(p.comps) \subseteq Parts
        BY <1>q, <3>1 DEF Processes, Elems
      <3>3. [p EXCEPT !.pc = "last", !.stage = Elems(p.comps) \cup {"meta"}] \in Processes
            /\ [p EXCEPT !.pc = "last", !.stage = Elems(p.comps) \cup {"meta"}].pc = "last"
        BY <1>q, <3>1, <3>2, ZenonT(40) DEF Processes, Working, Signalled, Early
      <3>4. worker' = [worker EXCEPT ![w] = [p EXCEPT !.pc = "last", !.stage = Elems(p.comps) \cup {"meta"}]]
        BY <2>1, <3>1 DEF TypeOK
      <3>5. Same
        BY <1>11, <3>3, <3>4, <1>t, Written, <1>s DEF Unpack, At, Others
      <3> QED
        BY <1>11, <3>5, ShownOutside DEF Unpack, history
    <2>2. CASE \E stage : End(w, stage)
      BY <1>11, <2>2, <1>end, <1>s, ShownOutside DEF Unpack, At, history
    <2> QED
      BY <1>11, <2>1, <2>2 DEF Unpack, Fail, Elems
  <1>12. CASE Last(w)
    <2>1. Same
      BY <1>12, <1>go, <1>end, <1>s, PlaceNames DEF Last, At
    <2> QED
      BY <1>12, <2>1, ShownOutside DEF Last, history
  <1>13. CASE Commit(w)
    <2>1. Same
      BY <1>13, <1>go, <1>s, PlaceNames DEF Commit, At
    <2> QED
      BY <1>13, <2>1, ShownOutside DEF Commit, history
  <1>14. CASE StopServices(w)
    <2>1. PICK p : p = worker[w]
      OBVIOUS
    <2>2. [p EXCEPT !.pc = "clear", !.post = TRUE] \in Processes
          /\ [p EXCEPT !.pc = "clear", !.post = TRUE].pc = "clear"
      BY <1>q, <2>1 DEF Processes, Working
    <2>3. worker' = [worker EXCEPT ![w] = [p EXCEPT !.pc = "clear", !.post = TRUE]]
      BY <1>14, <2>1 DEF StopServices, TypeOK
    <2>4. Others(w) /\ worker'[w] = [p EXCEPT !.pc = "clear", !.post = TRUE]
      BY <1>t, <2>2, <2>3, Written
    <2>5. worker'[w].pc = "clear"
      BY <2>2, <2>4
    <2>6. Same
      BY <1>14, <2>4, <2>5, <1>s DEF StopServices, At, Others
    <2> QED
      BY <1>14, <2>6, ShownOutside DEF StopServices, history
  <1>15. CASE DropOld(w)
    <2>1. Same
      BY <1>15, <1>go, <1>s, PlaceNames DEF DropOld, At
    <2>2. UNCHANGED <<disk.part, disk.meta, disk.init>>
      BY <1>15, <1>t DEF DropOld, Without, TypeOK, Disks
    <2> QED
      BY <1>15, <2>1, <2>2, ShownOutside DEF DropOld, history
  <1>16. CASE StartPanel(w)
    <2>1. PICK p : p = worker[w]
      OBVIOUS
    <2>2. [p EXCEPT !.pc = "finish", !.post = FALSE] \in Processes
          /\ [p EXCEPT !.pc = "finish", !.post = FALSE].pc = "finish"
      BY <1>q, <2>1, ZenonT(40) DEF Processes, Working
    <2>3. worker' = [worker EXCEPT ![w] = [p EXCEPT !.pc = "finish", !.post = FALSE]]
      BY <1>16, <2>1 DEF StartPanel, TypeOK
    <2>4. Others(w) /\ worker'[w] = [p EXCEPT !.pc = "finish", !.post = FALSE]
      BY <1>t, <2>2, <2>3, Written
    <2>5. worker'[w].pc = "finish"
      BY <2>2, <2>4
    <2>6. Same
      BY <1>16, <2>4, <2>5, <1>s DEF StartPanel, At, Others
    <2> QED
      BY <1>16, <2>6, ShownOutside DEF StartPanel, history
  <1>17. CASE Finish(w)
    <2>1. CASE UNCHANGED worker
      BY <1>17, <2>1, ShownOutside DEF Finish, history
    <2>2. CASE End(w, "done")
      BY <1>17, <2>2, <1>end, <1>s, ShownOutside DEF Finish, At, history
    <2> QED
      BY <1>17, <2>1, <2>2 DEF Finish
  <1>18. CASE Exit(w)
    <2>1. Same
      BY <1>18, <1>off, <1>s DEF Exit, At
    <2> QED
      BY <1>18, <2>1, ShownOutside DEF Exit
  <1>19. CASE Interrupt(w)
    <2>1. PICK p : p = worker[w]
      OBVIOUS
    <2>2. [p EXCEPT !.stage = {}, !.tmp = FALSE] \in Processes
          /\ [p EXCEPT !.stage = {}, !.tmp = FALSE].pc = p.pc
      BY <1>q, <2>1 DEF Processes
    <2>3. worker' = [worker EXCEPT ![w] = [p EXCEPT !.stage = {}, !.tmp = FALSE]]
      BY <1>19, <2>1 DEF Interrupt, TypeOK
    <2>4. Others(w) /\ worker'[w] = [p EXCEPT !.stage = {}, !.tmp = FALSE]
      BY <1>t, <2>2, <2>3, Written
    <2>5. worker'[w].pc = p.pc
      BY <2>2, <2>4
    <2>6. Same
      BY <1>19, <2>1, <2>4, <2>5, <1>s DEF Interrupt, Signalled, Early, Others
    <2> QED
      BY <1>19, <2>6, ShownOutside DEF Interrupt
  <1> QED
    BY <1>1, <1>2, <1>3, <1>4, <1>5, <1>6, <1>7, <1>8, <1>9, <1>10, <1>11, <1>12, <1>13,
       <1>14, <1>15, <1>16, <1>17, <1>18, <1>19, <1>20, <1>21

\* The steps of one that is in its exchange and stays in it.
LEMMA ShownDuring ==
    ASSUME IInv, NEW w \in Workers,
           \/ MoveOut(w) \/ MoveIn(w) \/ Meta(w) \/ KeepScripts(w) \/ UndoPart(w)
           \/ (InstallScripts(w) /\ worker[w].todo # <<>>)
    PROVE  UNCHANGED base /\ Shown' = Shown
  <1>t. TypeOK /\ Listed(w)
    BY DEF IInv, Good
  <1>s. Swapping = {"out", "in", "meta", "scripts", "install", "rollback"}
    BY DEF Swapping
  <1>p. worker[w] \in Processes /\ worker[w].comps \in Seq(Parts \cup Scripts)
    BY <1>t, SeqEither DEF TypeOK, Processes
  <1>todo. ASSUME NEW pc \in Swapping, NEW s \in Seq(Parts \cup Scripts), Todo(w, pc, s)
           PROVE  worker'[w].pc \in Swapping
    BY <1>todo, <1>t, <1>s, PlaceNames, TodoEffect
  <1>back. RollBackOn(w) => worker'[w].pc \in Swapping
    BY <1>t, <1>s, BackEffect
  <1>put. \A n : worker' = [worker EXCEPT ![w] = n] => worker'[w] = n
    BY <1>t DEF TypeOK
  <1> PICK p : p = worker[w]
    OBVIOUS
  <1>1. CASE MoveOut(w)
    <2>1. worker[w].todo # <<>> => Tail(worker[w].todo) \in Seq(Parts \cup Scripts)
      BY <1>1, <1>t, NextPart DEF MoveOut, At
    <2>2. worker'[w].pc \in Swapping
      BY <1>1, <2>1, <1>p, <1>todo, <1>back, <1>s DEF MoveOut
    <2> QED
      BY <1>1, <2>2, <1>s, ShownInside DEF MoveOut, At, InExchange, history
  <1>2. CASE MoveIn(w)
    <2>1. CASE Go(w, "meta")
      BY <1>2, <2>1, <1>t, <1>s, PlaceNames, GoEffect, ShownInside DEF MoveIn, At, InExchange, history
    <2>2. CASE worker[w].todo # <<>>
      <3> PICK c : c = Head(worker[w].todo)
        OBVIOUS
      <3>1. \/ worker' = [worker EXCEPT ![w] = [p EXCEPT !.todo = Tail(p.todo), !.moved = p.moved \cup {c},
                                                         !.stage = p.stage \ {c}]]
            \/ worker' = [worker EXCEPT ![w] = [p EXCEPT !.pc = "rollback", !.todo = p.comps,
                                                         !.moved = p.moved \cup {c}]]
        BY <1>2, <2>2, <1>t DEF MoveIn, TypeOK
      <3>2. \/ worker'[w] = [p EXCEPT !.todo = Tail(p.todo), !.moved = p.moved \cup {c},
                                    !.stage = p.stage \ {c}]
            \/ worker'[w] = [p EXCEPT !.pc = "rollback", !.todo = p.comps, !.moved = p.moved \cup {c}]
        BY <3>1, <1>put
      <3>3. worker'[w].pc \in {"in", "rollback"}
        BY <1>2, <3>2, <1>p DEF MoveIn, At, Processes
      <3> QED
        BY <1>2, <3>3, <1>s, ShownInside DEF MoveIn, At, InExchange, history
    <2> QED
      BY <1>2, <2>1, <2>2 DEF MoveIn
  <1>3. CASE Meta(w)
    <2>1. \/ worker' = [worker EXCEPT ![w] = [p EXCEPT !.pc = "scripts", !.keptMeta = disk.meta,
                                                       !.stage = p.stage \ {"meta"}]]
          \/ RollBackOn(w)
      BY <1>3, <1>t DEF Meta, TypeOK
    <2>2. \/ worker'[w] = [p EXCEPT !.pc = "scripts", !.keptMeta = disk.meta, !.stage = p.stage \ {"meta"}]
          \/ RollBackOn(w)
      BY <2>1, <1>put
    <2>3. worker'[w].pc = "scripts" \/ RollBackOn(w)
      BY <2>2, <1>p DEF Processes
    <2>4. worker'[w].pc \in Swapping
      BY <2>3, <1>back, <1>s
    <2> QED
      BY <1>3, <2>4, <1>s, ShownInside DEF Meta, At, InExchange, history
  <1>4. CASE KeepScripts(w)
    <2>1. \/ worker' = [worker EXCEPT ![w] = [p EXCEPT !.pc = "install", !.keptInit = disk.init,
                                                       !.todo = <<"jbox", "jbox-panel">>]]
          \/ RollBackOn(w)
      BY <1>4, <1>t DEF KeepScripts, TypeOK
    <2>2. \/ worker'[w] = [p EXCEPT !.pc = "install", !.keptInit = disk.init, !.todo = <<"jbox", "jbox-panel">>]
          \/ RollBackOn(w)
      BY <2>1, <1>put
    <2>3. worker'[w].pc = "install" \/ RollBackOn(w)
      BY <2>2, <1>p DEF Processes
    <2>4. worker'[w].pc \in Swapping
      BY <2>3, <1>back, <1>s
    <2> QED
      BY <1>4, <2>4, <1>s, ShownInside DEF KeepScripts, At, InExchange, history
  <1>5. CASE UndoPart(w)
    <2>1. \/ worker' = [worker EXCEPT ![w] = [p EXCEPT !.pc = "rollback", !.todo = Tail(p.todo)]]
          \/ worker' = [worker EXCEPT ![w] = [p EXCEPT !.todo = Tail(p.todo), !.bad = TRUE]]
      BY <1>5, <1>t DEF UndoPart, Todo, TypeOK
    <2>2. \/ worker'[w] = [p EXCEPT !.pc = "rollback", !.todo = Tail(p.todo)]
          \/ worker'[w] = [p EXCEPT !.todo = Tail(p.todo), !.bad = TRUE]
      BY <2>1, <1>put
    <2>3. worker'[w].pc = "rollback"
      BY <1>5, <2>2, <1>p DEF UndoPart, At, Processes
    <2> QED
      BY <1>5, <2>3, <1>s, ShownInside DEF UndoPart, At, InExchange, history
  <1>6. CASE InstallScripts(w) /\ worker[w].todo # <<>>
    <2>1. Tail(worker[w].todo) \in Seq(Parts \cup Scripts)
      BY <1>6, <1>t, NextScript DEF InstallScripts, At
    <2>2. worker'[w].pc \in Swapping
      BY <1>6, <2>1, <1>todo, <1>back, <1>s DEF InstallScripts
    <2> QED
      BY <1>6, <2>2, <1>s, ShownInside DEF InstallScripts, At, InExchange, history
  <1> QED
    BY <1>1, <1>2, <1>3, <1>4, <1>5, <1>6

\* One that is at work is the only one in an exchange.
LEMMA AloneInside ==
    ASSUME IInv, ~broken, NEW w \in Workers, AtWork(w)
    PROVE  \A q \in Workers \ {w} : worker[q].pc \notin Swapping
  BY DEF IInv, OneUnbroken, AtWork, Working

\* An exchange begins: what is shown is what was installed.
LEMMA ShownBegin ==
    ASSUME IInv, ~broken, NEW w \in Workers, ClearOld(w)
    PROVE  Shown' = Shown
  <1>1. TypeOK /\ worker[w].pc = "clear"
    BY DEF IInv, ClearOld, At
  <1>2. \A q \in Workers : worker[q].pc \notin Swapping
    BY <1>1, AloneInside DEF AtWork, Working, Swapping
  <1>3. Shown = Installed
    BY <1>2 DEF Shown, InExchange
  <1>4. CASE Todo(w, "out", worker[w].comps)
    <2>1. worker'[w].pc = "out"
      BY <1>1, <1>4, TodoEffect, SeqEither, PlaceNames DEF TypeOK, Processes
    <2>2. Shown' = base'
      BY <2>1 DEF Shown, InExchange, Swapping
    <2> QED
      BY <1>3, <2>2 DEF ClearOld
  <1>5. CASE Go(w, "exit") /\ \E cs : disk' = Without(cs)
    <2>1. worker'[w].pc = "exit" /\ \A q \in Workers \ {w} : worker'[q] = worker[q]
      BY <1>1, <1>5, GoEffect, PlaceNames DEF Others
    <2>2. \A q \in Workers : worker'[q].pc \notin Swapping
      BY <1>2, <2>1 DEF Swapping
    <2>3. disk'.part = disk.part /\ disk'.meta = disk.meta /\ disk'.init = disk.init
      BY <1>1, <1>5 DEF Without, TypeOK, Disks
    <2> QED
      BY <1>3, <2>2, <2>3 DEF Shown, InExchange, Installed
  <1> QED
    BY <1>4, <1>5 DEF ClearOld

\* An exchange ends: a whole release, with its own version or the former one.
LEMMA ShownReplaced ==
    ASSUME IInv, IInv', ~broken, NEW w \in Workers, InstallScripts(w), worker[w].todo = <<>>
    PROVE  \E r, shown \in Releases :
              shown \in {r, Shown.meta} /\ Shown' = Whole(r, shown)
  <1>1. TypeOK /\ worker[w].pc = "install" /\ Go(w, "drop") /\ UNCHANGED <<disk, base, broken, unguarded>>
    BY DEF IInv, InstallScripts, At, history
  <1>2. worker'[w].pc = "drop" /\ worker'[w].to = worker[w].to
        /\ \A q \in Workers \ {w} : worker'[q] = worker[q]
    BY <1>1, GoEffect, PlaceNames DEF Others, Carries
  <1>3. \A q \in Workers : worker'[q].pc \notin Swapping
    BY <1>1, <1>2, AloneInside DEF AtWork, Working, Swapping
  <1>4. Shown' = Installed' /\ Shown = base
    BY <1>1, <1>3 DEF Shown, InExchange, Swapping
  <1>5. Filed(w)
    BY DEF IInv, Good, Safe, Progress
  <1>6. disk.meta \in {worker[w].to, base.meta}
    BY <1>1, <1>5 DEF Filed
  <1>7. worker[w].to \in Releases /\ disk.meta \in Releases /\ disk.init \in Existing(Scripts)
    BY <1>1 DEF TypeOK, Processes, Disks
  <1>8. disk.part = Contents(worker[w].to) /\ \A s \in Scripts : disk.init[s] = worker[w].to
    <2>1. Reused(w) /\ Exchanged(w)
      BY DEF IInv, Good, Safe, Progress
    <2>2. \A c \in Parts \ Elems(worker[w].comps) : disk.part[c] = Contents(worker[w].to)[c]
      BY <1>1, <2>1 DEF Reused, Planned, Swapping
    <2>3. \A c \in Elems(worker[w].comps) : disk.part[c] = Contents(worker[w].to)[c]
      BY <1>1, <2>1 DEF Exchanged
    <2>4. \A s \in Scripts : disk.init[s] = worker[w].to
      BY <1>1, <1>5, NoElems DEF Filed
    <2>5. PICK n, d : n = Contents(worker[w].to) /\ d = disk.part
      OBVIOUS
    <2>6. n \in [Parts -> Releases] /\ d \in [Parts -> Releases \cup {None}]
      BY <1>1, <1>7, <2>5, ContentsType DEF TypeOK, Disks, Existing
    <2>7. \A c \in Parts : d[c] = n[c]
      BY <2>2, <2>3, <2>5
    <2>8. d = n
      BY <2>6, <2>7
    <2> QED
      BY <2>4, <2>5, <2>8
  <1>9. disk.init = [s \in Scripts |-> worker[w].to]
    BY <1>7, <1>8 DEF Existing
  <1>10. Installed' = Whole(worker[w].to, disk.meta)
    BY <1>1, <1>8, <1>9 DEF Installed, Whole
  <1> QED
    BY <1>4, <1>6, <1>7, <1>10

\* A rollback that succeeds: what was installed is installed again.
LEMMA ShownUndone ==
    ASSUME IInv, ~broken, NEW w \in Workers, UndoFiles(w), ~broken'
    PROVE  UNCHANGED base /\ Shown' = Shown
  <1>1. TypeOK /\ worker[w].pc = "rollback" /\ worker[w].todo = <<>> /\ Go(w, "exit")
        /\ UNCHANGED base
    BY DEF IInv, UndoFiles, At, End
  <1>2. worker'[w].pc = "exit" /\ \A q \in Workers \ {w} : worker'[q] = worker[q]
    BY <1>1, GoEffect, PlaceNames DEF Others
  <1>3. \A q \in Workers : worker'[q].pc \notin Swapping
    BY <1>1, <1>2, AloneInside DEF AtWork, Working, Swapping
  <1>4. Shown' = Installed' /\ Shown = base
    BY <1>1, <1>3 DEF Shown, InExchange, Swapping
  <1> PICK p : p = worker[w]
    OBVIOUS
  <1>5. /\ ~p.bad
        /\ disk' = [disk EXCEPT !.init = IF p.keptInit = None THEN @ ELSE p.keptInit,
                                !.meta = IF p.keptMeta = None THEN @ ELSE p.keptMeta]
    BY DEF UndoFiles
  <1>6. Reused(w) /\ Undoing(w)
    BY DEF IInv, Good, Safe, Progress
  <1>7. \A c \in Parts : disk.part[c] = base.part[c]
    <2>1. \A c \in Parts \ Elems(p.comps) : disk.part[c] = base.part[c]
      BY <1>1, <1>6 DEF Reused, Swapping
    <2>2. \A c \in Elems(p.comps) : disk.part[c] = base.part[c]
      BY <1>1, <1>5, <1>6, NoElems DEF Undoing
    <2> QED
      BY <2>1, <2>2
  <1>8. /\ disk \in Disks /\ base.part \in Existing(Parts) /\ disk.part \in Existing(Parts)
        /\ base = [part |-> base.part, meta |-> base.meta, init |-> base.init]
    BY <1>1 DEF TypeOK, Disks, Installations
  <1>9. disk.part = base.part
    BY <1>7, <1>8 DEF Existing
  <1>10. /\ base.meta = IF p.keptMeta = None THEN disk.meta ELSE p.keptMeta
         /\ base.init = IF p.keptInit = None THEN disk.init ELSE p.keptInit
    BY <1>1, <1>6 DEF Undoing
  <1>11. disk' = [disk EXCEPT !.init = base.init, !.meta = base.meta]
    BY <1>5, <1>10
  <1>12. disk'.part = base.part /\ disk'.meta = base.meta /\ disk'.init = base.init
    BY <1>8, <1>9, <1>11 DEF Disks
  <1>13. Installed' = base
    BY <1>8, <1>12 DEF Installed
  <1> QED
    BY <1>1, <1>4, <1>13

\* Every step replaces the installation by a whole release, breaks it by one of
\* the exceptions, or leaves it as it is.
LEMMA ShownStep ==
    ASSUME IInv, IInv', [Next]_vars
    PROVE  [A!Replace \/ A!Break]_A!vars
  <1>t. TypeOK /\ TypeOK'
    BY DEF IInv
  <1>a. A!vars = <<Shown, broken>> /\ A!vars' = <<Shown', broken'>>
    BY DEF A!vars, Shown, InExchange
  <1>b. A!Break <=> broken' = TRUE
    BY DEF A!Break
  <1>c. A!Replace <=> /\ ~broken
                      /\ \E r, shown \in Releases :
                            shown \in {r, Shown.meta} /\ Shown' = Whole(r, shown)
                      /\ UNCHANGED broken
    BY DEF A!Replace, Shown, InExchange
  <1> SUFFICES ASSUME ~broken' PROVE (Shown' = Shown /\ UNCHANGED broken) \/ A!Replace
    BY <1>t, <1>a, <1>b DEF TypeOK
  <1>1. CASE UNCHANGED vars
    BY <1>1 DEF vars, Shown, InExchange, Installed
  <1>2. CASE Cancel
    BY <1>2 DEF Cancel, Shown, InExchange, Installed
  <1>3. CASE PowerCut
    <2>1. \A w \in Workers : ~InExchange(w)
      BY <1>3 DEF PowerCut, InExchange
    <2>2. ASSUME NEW w \in Workers PROVE ~InExchange(w)'
      <3>1. worker'[w] = Off
        BY <1>3 DEF PowerCut
      <3>2. worker'[w].pc = "off"
        BY <3>1 DEF Off
      <3> QED
        BY <3>2 DEF InExchange, Swapping
    <2>3. UNCHANGED broken
      BY <1>3, <1>t DEF PowerCut, TypeOK
    <2> QED
      BY <1>3, <2>1, <2>2, <2>3 DEF PowerCut, Shown, Installed
  <1>4. ASSUME NEW w \in Workers,
               \/ Detach(w) \/ ByHand(w)
               \/ MakeLock(w) \/ LookAtLock(w) \/ TakeLock(w) \/ Remake(w) \/ OwnLock(w) \/ NotePid(w)
               \/ Precheck(w) \/ Cancelled(w) \/ Plan(w) \/ Fetch(w) \/ Unpack(w) \/ Last(w)
               \/ Commit(w) \/ StopServices(w) \/ DropOld(w) \/ StartPanel(w) \/ Finish(w)
               \/ Exit(w) \/ Interrupt(w)
        PROVE  Shown' = Shown /\ UNCHANGED broken
    <2>1. broken => broken'
      BY <1>4, <1>t DEF Detach, ByHand, MakeLock, Made, LookAtLock, TakeLock, Remake, OwnLock, NotePid,
         Precheck, Cancelled, Plan, Fetch, Unpack, Last, Commit, StopServices, DropOld, StartPanel, Finish, Exit, Interrupt,
         history
    <2>2. UNCHANGED broken
      BY <2>1, <1>t DEF TypeOK
    <2> QED
      BY <1>4, <2>2, ShownBefore
  <1>5. ASSUME NEW w \in Workers,
               \/ MoveOut(w) \/ MoveIn(w) \/ Meta(w) \/ KeepScripts(w) \/ UndoPart(w)
               \/ (InstallScripts(w) /\ worker[w].todo # <<>>)
        PROVE  Shown' = Shown /\ UNCHANGED broken
    <2>1. UNCHANGED broken
      BY <1>5 DEF MoveOut, MoveIn, Meta, KeepScripts, UndoPart, InstallScripts, history
    <2> QED
      BY <1>5, <2>1, ShownDuring
  <1>6. ASSUME NEW w \in Workers, ClearOld(w) PROVE Shown' = Shown /\ UNCHANGED broken
    <2>1. UNCHANGED broken /\ ~broken
      BY <1>6 DEF ClearOld
    <2> QED
      BY <1>6, <2>1, ShownBegin
  <1>7. ASSUME NEW w \in Workers, InstallScripts(w), worker[w].todo = <<>> PROVE A!Replace
    <2>1. UNCHANGED broken /\ ~broken
      BY <1>7 DEF InstallScripts, history
    <2> QED
      BY <1>7, <2>1, <1>c, ShownReplaced
  <1>8. ASSUME NEW w \in Workers, UndoFiles(w) PROVE Shown' = Shown /\ UNCHANGED broken
    <2>1. ~broken
      BY <1>8, <1>t DEF UndoFiles, TypeOK
    <2>2. UNCHANGED broken
      BY <2>1, <1>t DEF TypeOK
    <2> QED
      BY <1>8, <2>1, <2>2, ShownUndone
  <1>9. ASSUME NEW w \in Workers, Kill(w) PROVE Shown' = Shown /\ UNCHANGED broken
    <2>1. ~broken /\ worker[w].pc \notin Swapping /\ UNCHANGED <<disk, base>>
      BY <1>9, <1>t DEF Kill, TypeOK
    <2>2. worker'[w] = Off /\ \A q \in Workers \ {w} : worker'[q] = worker[q]
      BY <1>9, <1>t, OffEffect DEF Kill, Gone, Others
    <2>3. worker'[w].pc = "off"
      BY <2>2 DEF Off
    <2>4. \A q \in Workers : worker'[q].pc \in Swapping <=> worker[q].pc \in Swapping
      BY <2>1, <2>2, <2>3 DEF Swapping
    <2>5. UNCHANGED broken
      BY <2>1, <1>t DEF TypeOK
    <2> QED
      BY <2>1, <2>4, <2>5, ShownOutside
  <1> QED
    BY <1>1, <1>2, <1>3, <1>4, <1>5, <1>6, <1>7, <1>8, <1>9 DEF Next

\* An update replaces the whole installation or leaves it as it was, unless two
\* work at once, a rollback fails or one dies in its exchange.
THEOREM Atomic == Spec => ImplementsAtomicInstall
  <1>1. Init => A!Init
    BY ShownInit
  <1>2. IInv /\ IInv' /\ [Next]_vars => [A!Replace \/ A!Break]_A!vars
    BY ShownStep
  <1> QED
    BY <1>1, <1>2, Invariance, PTL DEF Spec, ImplementsAtomicInstall, A!Spec
=============================================================================
