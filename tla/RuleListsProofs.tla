-------------------------- MODULE RuleListsProofs --------------------------
(***************************************************************************)
(* Proofs about RuleLists: for any lists, contents and shipped lists, files *)
(* and record agree, no configuration refers to nothing, and the file DNS   *)
(* rules refer to holds no IP condition.                                    *)
(***************************************************************************)
EXTENDS RuleLists, TLAPS

\* A list is under way in these, and its files are being made anew in those.
AtList == job.pc \in {"fetch", "domain", "ip"}
AtFile == job.pc \in {"domain", "ip"}

-----------------------------------------------------------------------------
(* The inductive invariant, in parts. *)

Underway == (AtList => job.list \in Lists) /\ (AtFile => job.how # "")

\* What is referred to as split, anywhere, has a pure first file.
Pure(l) == files[l]["domain"] \cap Ips = {}
PureWhereSplit(t) == \A l \in DOMAIN t : t[l].split => Pure(l)
Purity ==
    /\ PureWhereSplit(record) /\ PureWhereSplit(active)
    /\ PureWhereSplit(job.mem) /\ PureWhereSplit(job.next)
    /\ job.pc = "ip" => Pure(job.list)

\* The deploy's own account of the lists: todo, the one under way, those done.
Rest == job.todo \cup (IF AtList THEN {job.list} ELSE {})
Kept(l) == HasFile(l) \/ l \in job.failed
Account ==
    /\ job.pc = "seed" => job.next = NoTable
    /\ job.pc \in {"list", "fetch", "domain", "ip"} =>
         /\ job.want \subseteq Rest \cup DOMAIN job.next
         /\ Rest \cap DOMAIN job.next = {}
         /\ \A l \in DOMAIN job.next : Kept(l)
    /\ job.pc = "config" => \A l \in job.want : Kept(l)
    /\ AtList => job.list \notin job.todo
    /\ job.pc = "fetch" /\ job.had => Kept(job.list)
    /\ job.pc = "domain" /\ (job.had \/ job.how # "fetch") => Kept(job.list)
    /\ AtFile => job.what # {}
    /\ job.pc = "ip" => files[job.list]["domain"] = job.what \cap Domains

\* What an entry says of the files of its list, the lists a table is right about, and
\* those whose files hold all they were made of.
Told(l, e) == OnDisk(files[l]) = Referred(e)
RightAbout(t, S) == \A l \in S : l \in DOMAIN t /\ Told(l, t[l])
Whole(l) == files[l]["domain"] \cup files[l]["ip"] = content[l]
WholeOr(S) == \A l \in Lists \ S : Whole(l)
Truth ==
    /\ RightAbout(record, Lists \ loose)
    /\ \A l \in Lists \ lost : Whole(l) \/ Between(l)
    /\ job.pc \in {"seed", "list", "fetch", "domain", "ip"} =>
         /\ RightAbout(job.next, job.clean \cap DOMAIN job.next)
         /\ RightAbout(job.mem, (job.clean \ DOMAIN job.next)
                                  \ (IF job.pc = "ip" THEN {job.list} ELSE {}))
    /\ AtFile /\ job.how # "fetch" /\ job.list \in job.clean \ lost =>
         job.what = content[job.list]
    /\ job.pc = "ip" => job.list \in loose

IInv == TypeOK /\ Underway /\ Purity /\ Account /\ Truth
-----------------------------------------------------------------------------
(* Tables, entries and jobs.                                               *)
LEMMA InTables ==
    ASSUME NEW S, NEW f \in Tables(S)
    PROVE  DOMAIN f \subseteq Lists /\ f \in [DOMAIN f -> S]
  BY DEF Tables

\* And a function on some of the lists is a table.
LEMMA IsTable ==
    ASSUME NEW S, NEW T \in SUBSET Lists, NEW f \in [T -> S]
    PROVE  f \in Tables(S)
  BY DEF Tables

\* The entries the code makes are entries.
LEMMA EntryTypes ==
    ASSUME NEW fresh \in BOOLEAN
    PROVE  /\ Unsplit(fresh) \in Entries
           /\ \A c : Split(fresh, c) \in Entries
  BY DEF Unsplit, Split, Shape, Entries

\* What a table is with one entry more, or another one.
LEMMA WithTypes ==
    ASSUME NEW f \in Tables(Entries), NEW l \in Lists, NEW v \in Entries
    PROVE  /\ With(f, l, v) \in Tables(Entries)
           /\ DOMAIN With(f, l, v) = DOMAIN f \cup {l}
           /\ With(f, l, v)[l] = v
           /\ \A i \in DOMAIN f \ {l} : With(f, l, v)[i] = f[i]
  <1>1. DOMAIN f \subseteq Lists /\ f \in [DOMAIN f -> Entries]
    BY InTables
  <1>2. With(f, l, v) \in [DOMAIN f \cup {l} -> Entries]
    BY <1>1 DEF With
  <1>3. With(f, l, v) \in Tables(Entries)
    BY <1>1, <1>2, IsTable
  <1> QED
    BY <1>3 DEF With

\* The empty table.
LEMMA NoTableTypes == NoTable \in Tables(Entries) /\ DOMAIN NoTable = {}
  <1>1. NoTable \in [{} -> Entries]
    BY DEF NoTable
  <1> QED
    BY <1>1, IsTable DEF NoTable

\* No deploy is a job as well.
LEMMA IdleType == Idle \in Jobs
  BY NoTableTypes DEF Idle, Jobs

\* The former entry of a list, or the one that stands for it.
LEMMA FormerType ==
    ASSUME NEW j \in Jobs
    PROVE  Former(j) \in Entries
  <1>1. j.mem \in Tables(Entries)
    BY DEF Jobs
  <1>2. j.mem \in [DOMAIN j.mem -> Entries]
    BY <1>1, InTables
  <1> QED
    BY <1>2, EntryTypes DEF Former

\* Each way a job goes on leads to a job.
LEMMA EnteredType ==
    ASSUME NEW j \in Jobs, j.list \in Lists, NEW e \in Entries
    PROVE  Entered(j, e) \in Jobs
  <1>1. j.next \in Tables(Entries)
    BY DEF Jobs
  <1>2. With(j.next, j.list, e) \in Tables(Entries)
    BY <1>1, WithTypes
  <1> QED
    BY <1>2 DEF Entered, Jobs

LEMMA CompiledType ==
    ASSUME NEW j \in Jobs, NEW how \in {"resplit", "fetch", "old"},
           NEW c \in SUBSET Conditions
    PROVE  Compiled(j, how, c) \in Jobs
  BY DEF Compiled, Jobs

LEMMA FallBackType ==
    ASSUME NEW j \in Jobs, j.list \in Lists, NEW f \in [Halves -> SUBSET Conditions]
    PROVE  FallBack(j, f) \in Jobs
  <1>1. f["domain"] \in SUBSET Conditions
    BY DEF Halves
  <1>2. Compiled(j, "old", f["domain"]) \in Jobs
    BY <1>1, CompiledType
  <1>3. Entered(j, Former(j)) \in Jobs
    BY EnteredType, FormerType
  <1> QED
    BY <1>2, <1>3, IdleType DEF FallBack

\* One half of some conditions.
LEMMA HalfType ==
    ASSUME NEW c \in SUBSET Conditions, NEW h \in Halves
    PROVE  Half(c, h) \in SUBSET Conditions
  BY DEF Half, Conditions

\* What is left of a budget is a number.
LEMMA SpendType == ASSUME TypeOK, NEW k \in Counted, May(k), Spend(k)
                   PROVE  left' \in [Counted -> Nat]
  BY DEF TypeOK, May, Spend

-----------------------------------------------------------------------------
(* The types, one action at a time.                                        *)
LEMMA TypeInit == Init => TypeOK
  <1> SUFFICES ASSUME Init PROVE TypeOK
    OBVIOUS
  <1>1. source \in [Lists -> Contents] /\ up \subseteq Lists /\ wanted \subseteq Lists
    BY RuleListsAssumption DEF Init
  <1>2. left \in [Counted -> Nat] /\ job \in Jobs
    BY RuleListsAssumption, IdleType DEF Init
  <1>3. content \in [Lists -> SUBSET Conditions] /\ loose \subseteq Lists /\ lost \subseteq Lists
    BY RuleListsAssumption DEF Init
  <1>4. files \in [Lists -> [Halves -> SUBSET Conditions]]
    BY <1>3 DEF Init
  <1>5. record \in Tables(Entries) /\ active \in Tables(Entries)
    <2>1. [l \in wanted |-> Unsplit(TRUE)] \in [wanted -> Entries]
      BY EntryTypes
    <2>2. [l \in wanted |-> Unsplit(TRUE)] \in Tables(Entries)
      BY <1>1, <2>1, IsTable
    <2> QED
      BY <2>2, NoTableTypes DEF Init
  <1> QED
    BY <1>1, <1>2, <1>3, <1>4, <1>5 DEF TypeOK

\* The types, over a step of a deploy.
LEMMA TypeDeploy ==
    ASSUME TypeOK, Underway, Deploy
    PROVE  TypeOK'
  <1> USE DEF TypeOK, world, history
  <1>0. /\ job.mem \in Tables(Entries) /\ job.next \in Tables(Entries)
        /\ \A l \in DOMAIN job.mem : job.mem[l] \in Entries
        /\ \A l \in DOMAIN job.next : job.next[l] \in Entries
    <2>1. job.mem \in Tables(Entries) /\ job.next \in Tables(Entries)
      BY DEF Jobs
    <2> QED
      BY <2>1, InTables
  <1>1. ASSUME NEW l \in Lists, Seed(l) PROVE TypeOK'
    <2>1. l \in DOMAIN Snapshot /\ Snapshot[l] \in SUBSET Conditions
      <3>1. l \in DOMAIN Snapshot
        BY <1>1 DEF Seed, ToSeed
      <3> QED
        BY <3>1, InTables, RuleListsAssumption
    <2>2. files' \in [Lists -> [Halves -> SUBSET Conditions]]
      BY <1>1, <2>1, HalfType DEF Seed
    <2>3. With(job.mem, l, Split(TRUE, Snapshot[l])) \in Tables(Entries)
      BY <1>0, WithTypes, EntryTypes
    <2>4. job' \in Jobs
      BY <1>1, <2>3 DEF Seed, Jobs
    <2> QED
      BY <1>1, <2>1, <2>2, <2>4 DEF Seed
  <1>2. ASSUME NEW l \in Lists, Take(l) PROVE TypeOK'
    <2> DEFINE j == [job EXCEPT !.list = l, !.had = HasFile(l), !.todo = @ \ {l}]
    <2>1. j \in Jobs /\ j.list = l
      BY DEF Jobs, HasFile
    <2>2. l \in DOMAIN job.mem => Entered(j, job.mem[l]) \in Jobs
      BY <1>0, <2>1, EnteredType
    <2>3. files[l]["domain"] \in SUBSET Conditions
      BY DEF Halves
    <2>4. Compiled(j, "resplit", files[l]["domain"]) \in Jobs
      BY <2>1, <2>3, CompiledType
    <2>5. [j EXCEPT !.pc = "fetch"] \in Jobs
      BY <2>1 DEF Jobs
    <2>6. job' \in Jobs
      BY <1>2, <2>2, <2>4, <2>5 DEF Take, UpToDate
    <2> QED
      BY <1>2, <2>6 DEF Take
  <1>3. ASSUME Seeded PROVE TypeOK'
    BY <1>3 DEF Seeded, Jobs
  <1>4. ASSUME Fetch PROVE TypeOK'
    <2>1. job.list \in Lists
      BY <1>4 DEF Fetch, Underway, AtList
    <2>2. source[job.list] \in SUBSET Conditions
      BY <2>1, RuleListsAssumption
    <2>3. Compiled(job, "fetch", source[job.list]) \in Jobs
      BY <2>2, CompiledType
    <2>4. FallBack(job, files[job.list]) \in Jobs
      BY <2>1, FallBackType
    <2> QED
      BY <1>4, <2>3, <2>4 DEF Fetch
  <1>5. ASSUME CompileDomain PROVE TypeOK'
    <2>1. job.list \in Lists /\ job.what \in SUBSET Conditions
      BY <1>5 DEF CompileDomain, Underway, AtList, Jobs
    <2>2. files' \in [Lists -> [Halves -> SUBSET Conditions]]
      BY <1>5, <2>1, HalfType DEF CompileDomain, Written, Halves
    <2>3. job' \in Jobs
      BY <1>5 DEF CompileDomain, Jobs
    <2> QED
      BY <1>5, <2>1, <2>2, <2>3 DEF CompileDomain
  <1>6. ASSUME CompileIp PROVE TypeOK'
    <2>1. job.list \in Lists /\ job.what \in SUBSET Conditions
      BY <1>6 DEF CompileIp, Underway, AtList, Jobs
    <2>2. files' \in [Lists -> [Halves -> SUBSET Conditions]]
      BY <1>6, <2>1, HalfType DEF CompileIp, Written, Halves
    <2>3. (job.how = "fetch" \/ Former(job).fresh) \in BOOLEAN
      OBVIOUS
    <2>4. Split(job.how = "fetch" \/ Former(job).fresh, job.what) \in Entries
      BY <2>3, EntryTypes
    <2>5. Entered(job, Split(job.how = "fetch" \/ Former(job).fresh, job.what)) \in Jobs
      BY <2>1, <2>4, EnteredType
    <2>6. job' \in Jobs
      BY <1>6, <2>1, <2>5 DEF CompileIp, Jobs
    <2> QED
      BY <1>6, <2>1, <2>2, <2>6 DEF CompileIp
  <1>7. ASSUME CompileFails PROVE TypeOK'
    <2> DEFINE l == job.list
               J(f) == IF job.pc = "ip" \/ f # files[l]
                       THEN [job EXCEPT !.clean = @ \ {l}, !.failed = @ \cup {l}] ELSE job
    <2>1. l \in Lists /\ job.what \in SUBSET Conditions
      BY <1>7 DEF CompileFails, Underway, AtList, Jobs
    <2>3. PICK f \in {files[l], [files[l] EXCEPT ![job.pc] = {}]} :
            /\ files' = [files EXCEPT ![l] = f]
            /\ job' = CASE job.how = "resplit" -> [J(f) EXCEPT !.pc = "fetch"]
                        [] job.how = "fetch"   -> FallBack(J(f), f)
                        [] job.how = "old"     -> Entered(J(f), Former(J(f)))
            /\ loose' \in {loose, loose \cup {l}} /\ lost' \in {lost, lost \cup {l}}
      BY <1>7 DEF CompileFails
    <2>2. PICK j \in Jobs : j = J(f) /\ j.list = l
      <3>1. [job EXCEPT !.clean = @ \ {l}, !.failed = @ \cup {l}] \in Jobs
        BY <2>1 DEF Jobs
      <3>2. [job EXCEPT !.clean = @ \ {l}, !.failed = @ \cup {l}].list = l
        BY DEF Jobs
      <3> QED
        BY <3>1, <3>2
    <2> HIDE DEF J
    <2>4. f \in [Halves -> SUBSET Conditions]
      BY <2>1, <2>3
    <2>5. files' \in [Lists -> [Halves -> SUBSET Conditions]]
      BY <2>1, <2>3, <2>4
    <2>6. left' \in [Counted -> Nat]
      BY <1>7, SpendType DEF CompileFails, Counted
    <2>7. /\ [j EXCEPT !.pc = "fetch"] \in Jobs
          /\ FallBack(j, f) \in Jobs
          /\ Entered(j, Former(j)) \in Jobs
      <3>1. [j EXCEPT !.pc = "fetch"] \in Jobs
        BY <2>2 DEF Jobs
      <3> QED
        BY <3>1, <2>1, <2>2, <2>4, FallBackType, EnteredType, FormerType
    <2>8. job.how \in {"resplit", "fetch", "old"}
      BY <1>7 DEF CompileFails, Jobs, Underway, AtFile
    <2>9. job' \in Jobs
      BY <2>2, <2>3, <2>7, <2>8
    <2> QED
      BY <1>7, <2>1, <2>3, <2>5, <2>6, <2>9 DEF CompileFails
  <1>8. ASSUME Finish PROVE TypeOK'
    BY <1>8, <1>0, NoTableTypes DEF Finish, Jobs
  <1>9. ASSUME Install PROVE TypeOK'
    <2>1. [l \in wanted |-> Shaped(l)] \in [wanted -> Entries]
      BY <1>0, EntryTypes DEF Shaped
    <2>2. [l \in wanted |-> Shaped(l)] \in Tables(Entries)
      BY <2>1, IsTable
    <2> QED
      BY <1>9, <2>2, IdleType DEF Install
  <1>10. ASSUME Refused PROVE TypeOK'
    BY <1>10, IdleType, SpendType DEF Refused, Counted
  <1> QED
    BY <1>1, <1>2, <1>3, <1>4, <1>5, <1>6, <1>7, <1>8, <1>9, <1>10 DEF Deploy, Works

\* The types, over any step.
LEMMA TypeStep == TypeOK /\ Underway /\ [Next]_vars => TypeOK'
  <1> SUFFICES ASSUME TypeOK, Underway, [Next]_vars PROVE TypeOK'
    OBVIOUS
  <1> USE DEF history
  <1>1. CASE Begin
    <2>1. job.want \subseteq Lists /\ loose \subseteq Lists
      BY DEF TypeOK, Jobs
    <2>2. job' \in Jobs
      BY <1>1, IdleType DEF Begin, TypeOK, Jobs
    <2> QED
      BY <1>1, <2>2 DEF Begin, TypeOK, world
  <1>2. CASE Deploy
    BY <1>2, TypeDeploy
  <1>3. CASE Dies
    BY <1>3, IdleType, SpendType DEF Dies, TypeOK, Counted, world, Underway, AtList
  <1>4. CASE World
    <2>1. left' \in [Counted -> Nat]
      BY <1>4, SpendType DEF World, Counted
    <2>2. source' \in [Lists -> Contents] /\ up' \subseteq Lists /\ wanted' \subseteq Lists
      BY <1>4 DEF World, TypeOK
    <2> QED
      BY <1>4, <2>1, <2>2 DEF World, TypeOK
  <1>5. ASSUME NEW l \in Lists, GetsOld(l) PROVE TypeOK'
    <2>1. DOMAIN record \subseteq Lists /\ record \in [DOMAIN record -> Entries]
      BY InTables DEF TypeOK
    <2>2. record' \in [DOMAIN record -> Entries]
      BY <1>5, <2>1 DEF GetsOld, Entries
    <2>3. record' \in Tables(Entries)
      BY <2>1, <2>2, IsTable
    <2> QED
      BY <1>5, <2>3 DEF GetsOld, TypeOK, world
  <1>6. CASE UNCHANGED vars
    BY <1>6 DEF vars, world, TypeOK
  <1> QED
    BY <1>1, <1>2, <1>3, <1>4, <1>5, <1>6 DEF Next

-----------------------------------------------------------------------------
(* What becomes of a job: its list has its entry, or is to be compiled.    *)
LEMMA EnteredFields ==
    ASSUME NEW j \in Jobs, NEW e
    PROVE  LET k == Entered(j, e) IN
           /\ k.pc = "list" /\ k.next = With(j.next, j.list, e)
           /\ k.want = j.want /\ k.todo = j.todo /\ k.mem = j.mem
           /\ k.clean = j.clean /\ k.failed = j.failed
  BY DEF Entered, Jobs

\* The same of a list whose files are to be made.
LEMMA CompiledFields ==
    ASSUME NEW j \in Jobs, NEW how, NEW c
    PROVE  LET k == Compiled(j, how, c) IN
           /\ k.pc = "domain" /\ k.how = how /\ k.what = c /\ k.list = j.list
           /\ k.want = j.want /\ k.todo = j.todo /\ k.mem = j.mem /\ k.next = j.next
           /\ k.clean = j.clean /\ k.failed = j.failed /\ k.had = j.had
  BY DEF Compiled, Jobs

LEMMA IdleFields == Idle.pc = "idle" /\ Idle.mem = NoTable /\ Idle.next = NoTable
  BY DEF Idle

Assured == Underway /\ Purity /\ Account /\ Truth

(* Without a job there is only the record and the configuration to look at. *)
LEMMA IdleAssured ==
    ASSUME job' = Idle, RightAbout(record, Lists \ loose)', WholeOr(lost)',
           PureWhereSplit(record)', PureWhereSplit(active)'
    PROVE  Assured'
  <1>1. ~AtList' /\ ~AtFile' /\ job'.pc = "idle"
    BY IdleFields DEF AtList, AtFile
  <1>2. PureWhereSplit(job.mem)' /\ PureWhereSplit(job.next)'
    BY IdleFields, NoTableTypes DEF PureWhereSplit
  <1> QED
    BY <1>1, <1>2 DEF Assured, Underway, Purity, Account, Truth, WholeOr

(* A step about list l only, that takes no purity from its files and says    *)
(* that the record is not about them when it changes them.                  *)
About(l) ==
    /\ \A k \in Lists \ {l} : files'[k] = files[k] /\ content'[k] = content[k]
    /\ Pure(l) => Pure(l)'
    /\ loose \subseteq loose'
    /\ l \notin loose' => files'[l] = files[l]
    /\ lost \ {l} = lost' \ {l}
    /\ record' = record /\ active' = active

LEMMA Frame ==
    ASSUME IInv, NEW l \in Lists, About(l)
    PROVE  /\ PureWhereSplit(record)' /\ PureWhereSplit(active)'
           /\ \A t \in Tables(Entries) :
                PureWhereSplit(t) => \A k \in DOMAIN t : t[k].split => Pure(k)'
           /\ RightAbout(record, Lists \ loose)'
           /\ \A k \in Lists \ {l} : HasFile(k)' <=> HasFile(k)
           /\ \A k \in Lists \ {l} : \A e : Told(k, e) => Told(k, e)'
           /\ (job.pc = "ip" => job.list = l) => WholeOr(lost \cup {l})'
  <1> USE DEF About
  <1>1. \A k \in Lists : Pure(k) => Pure(k)'
    BY DEF Pure
  <1>2. \A t \in Tables(Entries) :
           PureWhereSplit(t) => \A k \in DOMAIN t : t[k].split => Pure(k)'
    BY <1>1, InTables DEF PureWhereSplit
  <1>3. PureWhereSplit(record)' /\ PureWhereSplit(active)'
    BY <1>2 DEF IInv, TypeOK, Purity, PureWhereSplit
  <1>4. \A k \in Lists \ {l} : HasFile(k)' <=> HasFile(k)
    BY DEF HasFile
  <1>5. \A k \in Lists \ {l} : \A e : Told(k, e) => Told(k, e)'
    BY DEF Told
  <1>6. RightAbout(record, Lists \ loose)'
    BY DEF IInv, Truth, RightAbout, Told
  <1>7. ASSUME job.pc = "ip" => job.list = l
        PROVE  WholeOr(lost \cup {l})'
    BY <1>7 DEF IInv, Truth, Between, Whole, WholeOr
  <1> QED
    BY <1>2, <1>3, <1>4, <1>5, <1>6, <1>7

(* The deploy works on list l, of those it has not done.                    *)
OnList(l) ==
    /\ About(l)
    /\ job.pc \in {"list", "fetch", "domain", "ip"}
    /\ l \in Rest /\ (AtList => l = job.list)
    /\ job'.want = job.want /\ job'.todo = job.todo \ {l} /\ job'.mem = job.mem
    /\ job.failed \subseteq job'.failed /\ job'.clean \subseteq job.clean \cup {l}

\* Such a step leaves all that was true of the other lists.
LEMMA OnListFacts ==
    ASSUME IInv, TypeOK', NEW l \in Lists, OnList(l)
    PROVE  /\ job.mem \in Tables(Entries) /\ job.next \in Tables(Entries)
           /\ job'.clean \subseteq Lists
           /\ Rest = job.todo \cup {l} /\ l \notin DOMAIN job.next
           /\ job'.todo \cap DOMAIN job.next = {}
           /\ job.want \subseteq job'.todo \cup {l} \cup DOMAIN job.next
           /\ \A k \in DOMAIN job.next : Kept(k)'
           /\ PureWhereSplit(job.mem)'
           /\ \A k \in DOMAIN job.next : job.next[k].split => Pure(k)'
           /\ \A k \in (job'.clean \ {l}) \cap DOMAIN job.next :
                \A e : e = job.next[k] => Told(k, e)'
           /\ \A k \in (job'.clean \ {l}) \ DOMAIN job.next :
                k \in DOMAIN job'.mem /\ Told(k, job.mem[k])'
           /\ WholeOr(lost \cup {l})'
  <1> USE DEF OnList
  <1>1. job.mem \in Tables(Entries) /\ job.next \in Tables(Entries)
    BY DEF IInv, TypeOK, Jobs
  <1>2. job'.clean \subseteq Lists
    BY DEF TypeOK, Jobs
  <1>3. Rest = job.todo \cup {l}
    BY DEF Rest, AtList
  <1>4. /\ Rest \cap DOMAIN job.next = {}
        /\ job.want \subseteq Rest \cup DOMAIN job.next
        /\ \A k \in DOMAIN job.next : Kept(k)
    BY DEF IInv, Account
  <1>5. \A k \in DOMAIN job.next : k \in Lists \ {l}
    BY <1>1, <1>3, <1>4, InTables
  <1>6. \A k \in DOMAIN job.next : Kept(k)'
    BY <1>4, <1>5, Frame DEF Kept
  <1>7. PureWhereSplit(job.mem)'
    BY <1>1, Frame DEF IInv, Purity, PureWhereSplit
  <1>8. \A k \in DOMAIN job.next : job.next[k].split => Pure(k)'
    BY <1>1, Frame DEF IInv, Purity
  <1>9. /\ RightAbout(job.next, job.clean \cap DOMAIN job.next)
        /\ \A k \in job.clean \ DOMAIN job.next : k # l =>
             k \in DOMAIN job.mem /\ Told(k, job.mem[k])
    BY DEF IInv, Truth, RightAbout, AtList
  <1>10. \A k \in (job'.clean \ {l}) \cap DOMAIN job.next :
            \A e : e = job.next[k] => Told(k, e)'
    <2> SUFFICES ASSUME NEW k \in (job'.clean \ {l}) \cap DOMAIN job.next,
                        NEW e, e = job.next[k]
                 PROVE  Told(k, e)'
      OBVIOUS
    <2>1. k \in Lists \ {l} /\ Told(k, e)
      BY <1>2, <1>9 DEF RightAbout
    <2> QED
      BY <2>1, Frame
  <1>11. \A k \in (job'.clean \ {l}) \ DOMAIN job.next :
            k \in DOMAIN job'.mem /\ Told(k, job.mem[k])'
    <2> SUFFICES ASSUME NEW k \in (job'.clean \ {l}) \ DOMAIN job.next
                 PROVE  k \in DOMAIN job'.mem /\ Told(k, job.mem[k])'
      OBVIOUS
    <2>1. k \in Lists \ {l} /\ k \in DOMAIN job.mem /\ Told(k, job.mem[k])
      BY <1>2, <1>9
    <2> QED
      BY <2>1, Frame
  <1>12. WholeOr(lost \cup {l})'
    BY Frame DEF AtList
  <1> QED
    BY <1>1, <1>2, <1>3, <1>4, <1>6, <1>7, <1>8, <1>10, <1>11, <1>12

(* The list gets its entry.                                                *)
LEMMA Enters ==
    ASSUME IInv, TypeOK', NEW l \in Lists, NEW e \in Entries, OnList(l),
           job'.pc = "list", job'.next = With(job.next, l, e),
           e.split => Pure(l)', Kept(l)', l \in job'.clean => Told(l, e)',
           l \notin lost' => Whole(l)'
    PROVE  Assured'
  <1> DEFINE next == job.next
  <1>1. /\ DOMAIN job'.next = DOMAIN next \cup {l} /\ job'.next[l] = e
        /\ \A k \in DOMAIN next \ {l} : job'.next[k] = next[k]
    <2>1. next \in Tables(Entries)
      BY OnListFacts
    <2>2. /\ DOMAIN With(next, l, e) = DOMAIN next \cup {l} /\ With(next, l, e)[l] = e
          /\ \A k \in DOMAIN next \ {l} : With(next, l, e)[k] = next[k]
      <3> HIDE DEF next
      <3> QED
        BY <2>1 DEF With
    <2> QED
      BY <2>2
  <1>2. ~AtList' /\ ~AtFile' /\ job'.pc \notin {"seed", "config", "ip", "fetch"}
    BY DEF AtList, AtFile
  <1>3. Purity'
    <2>1. PureWhereSplit(job.next)'
      BY <1>1, OnListFacts DEF PureWhereSplit
    <2> QED
      BY <1>2, <2>1, Frame, OnListFacts DEF Purity, OnList
  <1>4. Account'
    <2>1. Rest' = job'.todo
      BY <1>2 DEF Rest
    <2>2. job'.want \subseteq Rest' \cup DOMAIN job'.next
      BY <1>1, <2>1, OnListFacts DEF OnList
    <2>3. Rest' \cap DOMAIN job'.next = {}
      BY <1>1, <2>1, OnListFacts DEF OnList
    <2>4. \A k \in DOMAIN job'.next : Kept(k)'
      BY <1>1, OnListFacts
    <2> QED
      BY <1>2, <2>2, <2>3, <2>4 DEF Account
  <1>5. Truth'
    <2>1. RightAbout(job.next, job.clean \cap DOMAIN job.next)'
      <3> SUFFICES ASSUME NEW k \in job'.clean \cap DOMAIN job'.next
                   PROVE  Told(k, job.next[k])'
        BY DEF RightAbout
      <3>1. CASE k = l
        BY <1>1, <3>1
      <3>2. CASE k # l
        <4>1. \A x : x = next[k] => Told(k, x)'
          BY <1>1, <3>2, OnListFacts
        <4>2. job'.next[k] = next[k]
          BY <1>1, <3>2
        <4> QED
          BY <4>1, <4>2
      <3> QED
        BY <3>1, <3>2
    <2>2. RightAbout(job.mem, job.clean \ DOMAIN job.next)'
      <3> SUFFICES ASSUME NEW k \in job'.clean \ DOMAIN job'.next
                   PROVE  k \in DOMAIN job'.mem /\ Told(k, job.mem[k])'
        BY DEF RightAbout
      <3>1. k \in (job'.clean \ {l}) \ DOMAIN next
        BY <1>1
      <3> QED
        BY <3>1, OnListFacts
    <2>3. WholeOr(lost)'
      BY OnListFacts DEF WholeOr
    <2> QED
      BY <1>2, <2>1, <2>2, <2>3, Frame DEF Truth, RightAbout, OnList, WholeOr
  <1> QED
    BY <1>2, <1>3, <1>4, <1>5 DEF Assured, Underway

(* The list is to be fetched, or its files are to be made.                 *)
LEMMA GoesOn ==
    ASSUME IInv, TypeOK', NEW l \in Lists, OnList(l),
           job'.list = l, job'.next = job.next,
           l \in job'.clean => l \in DOMAIN job'.mem /\ Told(l, job.mem[l])',
           l \notin lost' => Whole(l)',
           \/ job'.pc = "fetch" /\ (job'.had => Kept(l)')
           \/ /\ job'.pc = "domain" /\ job'.what # {} /\ job'.how # ""
              /\ job'.had \/ job'.how # "fetch" => Kept(l)'
              /\ job'.how # "fetch" /\ l \in job'.clean \ lost' => job'.what = content'[l]
    PROVE  Assured'
  <1>1. /\ AtList' /\ (AtFile' <=> job'.pc = "domain")
        /\ job'.pc \notin {"seed", "config", "ip", "list"}
    BY DEF AtList, AtFile
  <1>2. Underway'
    BY <1>1 DEF Underway
  <1>3. Purity'
    <2>1. PureWhereSplit(job.next)'
      BY OnListFacts DEF PureWhereSplit
    <2> QED
      BY <1>1, <2>1, Frame, OnListFacts DEF Purity, OnList
  <1>4. Account'
    <2>1. Rest' = job'.todo \cup {l}
      BY <1>1 DEF Rest
    <2>2. job'.want \subseteq Rest' \cup DOMAIN job'.next
      BY <2>1, OnListFacts DEF OnList
    <2>3. Rest' \cap DOMAIN job'.next = {}
      BY <2>1, OnListFacts
    <2>4. \A k \in DOMAIN job'.next : Kept(k)'
      BY OnListFacts
    <2>5. l \notin job'.todo
      BY DEF OnList
    <2> QED
      BY <1>1, <2>2, <2>3, <2>4, <2>5 DEF Account
  <1>5. Truth'
    <2>1. RightAbout(job.next, job.clean \cap DOMAIN job.next)'
      BY OnListFacts DEF RightAbout
    <2>2. RightAbout(job.mem, job.clean \ DOMAIN job.next)'
      BY <1>1, OnListFacts DEF RightAbout
    <2>3. WholeOr(lost)'
      BY OnListFacts DEF WholeOr
    <2> QED
      BY <1>1, <2>1, <2>2, <2>3, Frame DEF Truth, OnList, WholeOr, RightAbout
  <1> QED
    BY <1>2, <1>3, <1>4, <1>5 DEF Assured

-----------------------------------------------------------------------------
(* The steps on a list.                                                     *)

\* What was known of the files stays known while they are left as they are.
LEMMA Untouched ==
    ASSUME NEW l \in Lists, UNCHANGED <<files, record, active, history>>
    PROVE  /\ About(l) /\ (Kept(l) /\ job.failed \subseteq job'.failed => Kept(l)')
           /\ \A e : Told(l, e) => Told(l, e)'
           /\ IInv /\ l \notin lost /\ job.pc # "ip" => Whole(l)'
  BY DEF About, Pure, Kept, HasFile, Told, history, Whole, IInv, Truth, Between

\* An entry without a shape, where it is right about the files, has all the conditions of
\* its list in the first.
LEMMA FirstOnly ==
    ASSUME NEW l \in Lists, NEW e \in Entries, Told(l, e), ~e.split, Whole(l)
    PROVE  content[l] = files[l]["domain"]
  <1>1. OnDisk(files[l]) = {"domain"}
    BY DEF Told, Referred
  <1>2. files[l]["ip"] = {}
    BY <1>1 DEF OnDisk, Halves
  <1> QED
    BY <1>2 DEF Whole

\* The former entry of a list describes it while the deploy is right about it,
\* and where that has no shape, all conditions are in the first file.
LEMMA FormerRight ==
    ASSUME IInv, NEW l \in Lists, l \notin DOMAIN job.next, l \in job.clean,
           job.pc \in {"list", "fetch", "domain"}
    PROVE  /\ l \in DOMAIN job.mem /\ Told(l, job.mem[l])
           /\ l \notin lost /\ ~job.mem[l].split => content[l] = files[l]["domain"]
  <1>1. l \in DOMAIN job.mem /\ Told(l, job.mem[l])
    BY DEF IInv, Truth, RightAbout
  <1>2. job.mem[l] \in Entries
    <2>1. job.mem \in Tables(Entries)
      BY DEF IInv, TypeOK, Jobs
    <2> QED
      BY <1>1, <2>1, InTables
  <1>3. l \notin lost => Whole(l)
    BY DEF IInv, Truth, Between
  <1> QED
    BY <1>1, <1>2, <1>3, FirstOnly

\* A list is kept, split out of its old file, or will be fetched.
LEMMA TakeAssured ==
    ASSUME IInv, TypeOK', NEW l \in Lists, Take(l)
    PROVE  Assured'
  <1> DEFINE j == [job EXCEPT !.list = l, !.had = HasFile(l), !.todo = @ \ {l}]
  <1>1. /\ j \in Jobs /\ j.list = l /\ j.todo = job.todo \ {l} /\ j.want = job.want
        /\ j.mem = job.mem /\ j.next = job.next /\ j.clean = job.clean
        /\ j.failed = job.failed /\ (j.had <=> HasFile(l))
    BY DEF IInv, TypeOK, Jobs, HasFile
  <1>2. job.pc = "list" /\ l \in Rest /\ ~AtList
    BY DEF Take, Rest, AtList
  <1>3. UNCHANGED <<files, record, active, history>>
    BY DEF Take
  <1>4. job.next \in Tables(Entries) /\ job.mem \in Tables(Entries) /\ l \notin DOMAIN job.next
    BY <1>2 DEF IInv, TypeOK, Jobs, Account
  <1>5. job' = IF UpToDate(l) /\ job.mem[l].split THEN Entered(j, job.mem[l])
               ELSE IF UpToDate(l) /\ files[l]["domain"] # {}
                    THEN Compiled(j, "resplit", files[l]["domain"])
               ELSE [j EXCEPT !.pc = "fetch"]
    BY DEF Take
  <1> HIDE DEF j
  <1>6. l \in job.clean =>
          /\ l \in DOMAIN job.mem /\ Told(l, job.mem[l])
          /\ l \notin lost /\ ~job.mem[l].split => content[l] = files[l]["domain"]
    BY <1>2, <1>4, FormerRight
  <1>10. /\ lost' = lost /\ content' = content /\ (l \notin lost' => Whole(l)')
         /\ l \in job.clean =>
              l \in DOMAIN job.mem /\ \A e : e = job.mem[l] => Told(l, e)'
    BY <1>2, <1>3, <1>6, Untouched DEF history
  <1>7. CASE UpToDate(l) /\ job.mem[l].split
    <2>1. l \in DOMAIN job.mem /\ job.mem[l] \in Entries
      BY <1>4, <1>7, InTables DEF UpToDate
    <2>2. PICK e \in Entries : e = job.mem[l]
      BY <2>1
    <2>3. e.split => Pure(l)'
      BY <1>3, <1>7, <2>1 DEF IInv, Purity, PureWhereSplit, Pure
    <2>4. Kept(l)'
      BY <1>3, <1>7 DEF UpToDate, Kept, HasFile
    <2>5. l \in job.clean => Told(l, e)
      BY <1>6, <2>2
    <2>6. /\ job'.pc = "list" /\ job'.next = With(job.next, l, e) /\ job'.want = job.want
          /\ job'.todo = job.todo \ {l} /\ job'.mem = job.mem /\ job'.clean = job.clean
          /\ job'.failed = job.failed
      <3>1. job' = Entered(j, e)
        BY <1>5, <1>7, <2>2
      <3> QED
        BY <1>1, <3>1, EnteredFields
    <2>7. OnList(l)
      BY <1>2, <1>3, <2>6, Untouched DEF OnList
    <2>8. l \in job'.clean => Told(l, e)'
      BY <1>3, <2>5, <2>6, Untouched
    <2> QED
      BY <1>10, <2>3, <2>4, <2>6, <2>7, <2>8, Enters
  <1>8. CASE ~(UpToDate(l) /\ job.mem[l].split) /\ UpToDate(l) /\ files[l]["domain"] # {}
    <2> DEFINE c == files[l]["domain"]
    <2>1. job' = Compiled(j, "resplit", c) /\ c # {}
      BY <1>5, <1>8
    <2>2. l \in job.clean \ lost => c = content[l]
      BY <1>6, <1>8
    <2> HIDE DEF c
    <2>3. /\ job'.pc = "domain" /\ job'.how = "resplit" /\ job'.what = c /\ job'.list = l
          /\ job'.want = job.want /\ job'.todo = job.todo \ {l} /\ job'.mem = job.mem
          /\ job'.next = job.next /\ job'.clean = job.clean /\ job'.failed = job.failed
      BY <1>1, <2>1, CompiledFields
    <2>4. OnList(l)
      BY <1>2, <1>3, <2>3, Untouched DEF OnList
    <2>5. l \in job'.clean \ lost' => job'.what = content'[l]
      BY <1>10, <2>2, <2>3
    <2>6. Kept(l)'
      BY <1>3, <1>8 DEF UpToDate, Kept, HasFile
    <2> QED
      BY <1>10, <2>1, <2>3, <2>4, <2>5, <2>6, GoesOn
  <1>9. CASE ~(UpToDate(l) /\ job.mem[l].split) /\ ~(UpToDate(l) /\ files[l]["domain"] # {})
    <2>1. /\ job'.pc = "fetch" /\ job'.list = l /\ job'.had = j.had
          /\ job'.want = job.want /\ job'.todo = job.todo \ {l} /\ job'.mem = job.mem
          /\ job'.next = job.next /\ job'.clean = job.clean /\ job'.failed = job.failed
      <3>1. job' = [j EXCEPT !.pc = "fetch"]
        BY <1>5, <1>9
      <3> QED
        BY <1>1, <3>1 DEF Jobs
    <2>2. OnList(l)
      BY <1>2, <1>3, <2>1, Untouched DEF OnList
    <2>3. job'.had => Kept(l)'
      BY <1>1, <1>3, <2>1 DEF Kept, HasFile
    <2>4. l \in job'.clean => l \in DOMAIN job'.mem /\ Told(l, job.mem[l])'
      BY <1>10, <2>1 DEF Told
    <2> QED
      BY <1>10, <2>1, <2>2, <2>3, <2>4, GoesOn
  <1> QED
    BY <1>7, <1>8, <1>9

\* Without the source, the files of list l there are by now.
LEMMA FallsBack ==
    ASSUME IInv, TypeOK', NEW l \in Lists, About(l), AtList, job.list = l,
           NEW j \in Jobs, j.list = l, j.had = job.had, j.want = job.want, j.todo = job.todo,
           j.mem = job.mem, j.next = job.next,
           job.failed \subseteq j.failed, j.clean \subseteq job.clean,
           job' = FallBack(j, files'[l]),
           j.had => HasFile(l)' \/ l \in j.failed,
           l \in j.clean => l \in DOMAIN j.mem /\ Told(l, j.mem[l])',
           l \notin lost' => Whole(l)'
    PROVE  Assured'
  <1>1. CASE ~j.had
    <2>1. job' = Idle
      BY <1>1 DEF FallBack
    <2>2. WholeOr(lost)'
      BY Frame DEF WholeOr, AtList
    <2> QED
      BY <2>1, <2>2, Frame, IdleAssured
  <1>2. job.todo = job.todo \ {l} /\ l \in Rest
        /\ job.pc \in {"list", "fetch", "domain", "ip"}
    BY DEF IInv, Account, Rest, AtList
  <1>3. CASE j.had /\ ~Former(j).split /\ files'[l]["domain"] # {}
    <2>1. PICK c : c = files'[l]["domain"]
      OBVIOUS
    <2>2. job' = Compiled(j, "old", c)
      BY <1>3, <2>1 DEF FallBack
    <2>3. /\ job'.pc = "domain" /\ job'.how = "old" /\ job'.what = c /\ job'.list = l
          /\ job'.want = job.want /\ job'.todo = job.todo /\ job'.mem = job.mem
          /\ job'.next = job.next /\ job'.clean = j.clean /\ job'.failed = j.failed
      BY <2>2, CompiledFields
    <2>4. OnList(l)
      BY <1>2, <2>3 DEF OnList
    <2>5. l \in job'.clean \ lost' => job'.what = content'[l]
      <3> SUFFICES ASSUME l \in j.clean, l \notin lost' PROVE content'[l] = files'[l]["domain"]
        BY <2>1, <2>3
      <3>1. Former(j) = j.mem[l] /\ ~Former(j).split /\ OnDisk(files'[l]) = Referred(j.mem[l])
        BY <1>3 DEF Former, Told
      <3>2. files'[l]["ip"] = {}
        BY <3>1 DEF Referred, OnDisk, Halves
      <3> QED
        BY <3>2 DEF Whole
    <2>6. Kept(l)'
      BY <1>3 DEF Kept, HasFile, OnDisk, Halves
    <2>7. l \in job'.clean => l \in DOMAIN job'.mem /\ Told(l, job.mem[l])'
      BY <2>3 DEF Told
    <2> QED
      BY <1>3, <2>1, <2>3, <2>4, <2>5, <2>6, <2>7, GoesOn
  <1>4. CASE j.had /\ ~(~Former(j).split /\ files'[l]["domain"] # {})
    <2>1. PICK e \in Entries : e = Former(j)
      BY FormerType
    <2>2. job' = Entered(j, e)
      BY <1>4, <2>1 DEF FallBack
    <2>3. /\ job'.pc = "list" /\ job'.next = With(job.next, l, e) /\ job'.want = job.want
          /\ job'.todo = job.todo /\ job'.mem = job.mem /\ job'.clean = j.clean
          /\ job'.failed = j.failed
      BY <2>2, EnteredFields
    <2>4. OnList(l)
      BY <1>2, <2>3 DEF OnList
    <2>5. e.split => Pure(l)'
      <3>1. CASE l \in DOMAIN job.mem
        <4>1. e = job'.mem[l] /\ l \in DOMAIN job'.mem
          BY <2>1, <2>3, <3>1 DEF Former
        <4>2. PureWhereSplit(job.mem)'
          BY <2>4, OnListFacts
        <4> QED
          BY <4>1, <4>2 DEF PureWhereSplit
      <3>2. CASE l \notin DOMAIN job.mem
        BY <2>1, <3>2 DEF Former, Unsplit
      <3> QED
        BY <3>1, <3>2
    <2>6. Kept(l)'
      BY <1>4, <2>3 DEF Kept
    <2>7. l \in job'.clean => Told(l, e)'
      BY <2>1, <2>3 DEF Former, Told
    <2> QED
      BY <2>3, <2>4, <2>5, <2>6, <2>7, Enters
  <1> QED
    BY <1>1, <1>3, <1>4

\* The source is asked, and the files there are do if it fails.
LEMMA FetchAssured ==
    ASSUME IInv, TypeOK', Fetch
    PROVE  Assured'
  <1>1. PICK l \in Lists : l = job.list
    BY DEF Fetch, IInv, Underway, AtList
  <1>2. /\ UNCHANGED <<files, record, active, history>>
        /\ job.pc = "fetch" /\ AtList /\ job \in Jobs
    BY DEF Fetch, AtList, IInv, TypeOK
  <1>3. l \notin DOMAIN job.next /\ l \in Rest /\ job.todo = job.todo \ {l}
    BY <1>1, <1>2 DEF IInv, Account, Rest
  <1>6. /\ l \in job.clean =>
             l \in DOMAIN job.mem /\ \A e : e = job.mem[l] => Told(l, e)'
        /\ l \notin lost' => Whole(l)'
    BY <1>2, <1>3, FormerRight, Untouched DEF history
  <1>4. CASE job.list \in up /\ source[job.list] # {}
    <2>1. PICK c : c = source[job.list]
      OBVIOUS
    <2>2. job' = Compiled(job, "fetch", c)
      BY <1>4, <2>1 DEF Fetch
    <2>3. /\ job'.pc = "domain" /\ job'.how = "fetch" /\ job'.what = c /\ job'.list = l
          /\ job'.had = job.had
          /\ job'.want = job.want /\ job'.todo = job.todo /\ job'.mem = job.mem
          /\ job'.next = job.next /\ job'.clean = job.clean /\ job'.failed = job.failed
      BY <1>1, <1>2, <2>2, CompiledFields
    <2>4. OnList(l)
      BY <1>1, <1>2, <1>3, <2>3, Untouched DEF OnList
    <2>5. job'.had => Kept(l)'
      BY <1>1, <1>2, <2>3, Untouched DEF IInv, Account
    <2>6. l \in job'.clean => l \in DOMAIN job'.mem /\ Told(l, job.mem[l])'
      BY <1>6, <2>3 DEF Told
    <2> QED
      BY <1>4, <1>6, <2>1, <2>3, <2>4, <2>5, <2>6, GoesOn
  <1>5. CASE ~(job.list \in up /\ source[job.list] # {})
    <2>1. job' = FallBack(job, files'[l])
      BY <1>1, <1>2, <1>5 DEF Fetch
    <2>2. job.had => HasFile(l)' \/ l \in job.failed
      BY <1>1, <1>2 DEF IInv, Account, Kept, HasFile
    <2>6. PICK j \in Jobs : j = job
      BY <1>2
    <2>7. /\ j.list = l /\ job' = FallBack(j, files'[l])
          /\ j.had => HasFile(l)' \/ l \in j.failed
          /\ l \in j.clean => l \in DOMAIN j.mem /\ Told(l, j.mem[l])'
          /\ job.failed \subseteq j.failed /\ j.clean \subseteq job.clean
      BY <1>1, <1>6, <2>1, <2>2, <2>6
    <2> QED
      BY <1>1, <1>2, <1>6, <2>6, <2>7, Untouched, FallsBack
  <1> QED
    BY <1>4, <1>5

\* The file of the domains is written, that of the IPs is the old one.
LEMMA CompileDomainAssured ==
    ASSUME IInv, TypeOK', CompileDomain
    PROVE  Assured'
  <1>1. PICK l \in Lists : l = job.list
    BY DEF CompileDomain, IInv, Underway, AtList
  <1>2. /\ job.pc = "domain" /\ AtList /\ AtFile /\ job \in Jobs
        /\ loose' = loose \cup {l} /\ UNCHANGED <<record, active, content, lost>>
    BY <1>1 DEF CompileDomain, AtList, AtFile, IInv, TypeOK
  <1>3. /\ job'.pc = "ip" /\ job'.list = l /\ job'.want = job.want /\ job'.todo = job.todo
        /\ job'.mem = job.mem /\ job'.next = job.next /\ job'.clean = job.clean
        /\ job'.failed = job.failed /\ job'.what = job.what /\ job'.how = job.how
    BY <1>1, <1>2 DEF CompileDomain, Jobs
  <1>4. \A k \in Lists \ {l} : files'[k] = files[k]
    BY <1>1 DEF CompileDomain, IInv, TypeOK
  <1>5. files'[l]["domain"] = job.what \cap Domains
    BY <1>1 DEF CompileDomain, IInv, TypeOK, Written, Half, Halves
  <1>6. Pure(l)'
    BY <1>5, RuleListsAssumption DEF Pure
  <1>7. About(l)
    BY <1>2, <1>4, <1>6 DEF About
  <1>8. l \notin DOMAIN job.next /\ l \in Rest /\ l \notin job.todo
        /\ job.todo = job.todo \ {l} /\ job.what # {}
    BY <1>1, <1>2 DEF IInv, Account, Rest
  <1>9. OnList(l)
    BY <1>1, <1>2, <1>3, <1>7, <1>8 DEF OnList
  <1>10. AtList' /\ AtFile'
    BY <1>3 DEF AtList, AtFile
  <1>11. Underway'
    BY <1>2, <1>3 DEF Underway, IInv
  <1>12. Purity'
    <2>1. PureWhereSplit(job.next)'
      BY <1>3, <1>9, OnListFacts DEF PureWhereSplit
    <2> QED
      BY <1>3, <1>6, <1>7, <1>9, <2>1, Frame, OnListFacts DEF Purity
  <1>13. Account'
    <2>1. Rest' = job'.todo \cup {l}
      BY <1>3, <1>10 DEF Rest
    <2>2. job'.want \subseteq Rest' \cup DOMAIN job'.next
      BY <1>3, <1>9, <2>1, OnListFacts
    <2>3. Rest' \cap DOMAIN job'.next = {}
      BY <1>3, <1>9, <2>1, OnListFacts
    <2>4. \A k \in DOMAIN job'.next : Kept(k)'
      BY <1>3, <1>9, OnListFacts
    <2> QED
      BY <1>3, <1>5, <1>8, <2>2, <2>3, <2>4 DEF Account
  <1>14. Truth'
    <2>1. RightAbout(job.next, job.clean \cap DOMAIN job.next)'
      <3> SUFFICES ASSUME NEW k \in job'.clean \cap DOMAIN job'.next
                   PROVE  Told(k, job.next[k])'
        BY DEF RightAbout
      <3>1. \A x : x = job.next[k] => Told(k, x)'
        BY <1>3, <1>8, <1>9, OnListFacts
      <3> QED
        BY <1>3, <3>1
    <2>2. RightAbout(job.mem, (job.clean \ DOMAIN job.next)
                                 \ (IF job.pc = "ip" THEN {job.list} ELSE {}))'
      BY <1>3, <1>9, <1>10, OnListFacts DEF RightAbout
    <2>3. job'.how # "fetch" /\ l \in job'.clean \ lost' => job'.what = content'[l]
      BY <1>1, <1>2, <1>3 DEF IInv, Truth
    <2>4. \A k \in Lists \ lost' : Whole(k)' \/ Between(k)'
      BY <1>3, <1>9, OnListFacts DEF WholeOr, Between
    <2> QED
      BY <1>2, <1>3, <1>7, <2>1, <2>2, <2>3, <2>4, Frame DEF Truth
  <1> QED
    BY <1>11, <1>12, <1>13, <1>14 DEF Assured

\* The file of the IPs is written, and both are of the same conditions.
LEMMA CompileIpAssured ==
    ASSUME IInv, TypeOK', CompileIp
    PROVE  Assured'
  <1>1. PICK l \in Lists : l = job.list
    BY DEF CompileIp, IInv, Underway, AtList
  <1>2. /\ job.pc = "ip" /\ AtList /\ AtFile /\ job \in Jobs
        /\ UNCHANGED <<record, active, loose>>
    BY DEF CompileIp, AtList, AtFile, IInv, TypeOK
  <1>3. PICK e \in Entries : e = Split(job.how = "fetch" \/ Former(job).fresh, job.what)
    BY EntryTypes
  <1>4. /\ job'.pc = "list" /\ job'.next = With(job.next, l, e)
        /\ job'.want = job.want /\ job'.todo = job.todo /\ job'.mem = job.mem
        /\ job'.failed = job.failed
        /\ job'.clean = IF job.how = "fetch" THEN job.clean \cup {l} ELSE job.clean
    <2>1. PICK k : k = Entered(job, e)
      OBVIOUS
    <2>2. /\ k.pc = "list" /\ k.next = With(job.next, l, e) /\ k.want = job.want
          /\ k.todo = job.todo /\ k.mem = job.mem /\ k.clean = job.clean
          /\ k.failed = job.failed
      BY <1>1, <1>2, <2>1, EnteredFields
    <2>3. k \in Jobs
      BY <1>1, <1>2, <2>1, EnteredType
    <2>4. job' = [k EXCEPT !.clean = IF job.how = "fetch" THEN @ \cup {l} ELSE @]
      BY <1>1, <1>3, <2>1 DEF CompileIp
    <2> QED
      BY <2>2, <2>3, <2>4 DEF Jobs
  <1>5. /\ \A k \in Lists \ {l} : files'[k] = files[k] /\ content'[k] = content[k]
        /\ content'[l] = IF job.how = "fetch" THEN job.what ELSE content[l]
        /\ lost' = IF job.how = "fetch" THEN lost \ {l} ELSE lost \cup ({l} \ job.clean)
    BY <1>1 DEF CompileIp, IInv, TypeOK
  <1>6. /\ files'[l]["domain"] = job.what \cap Domains
        /\ files'[l]["ip"] = job.what \cap Ips
        /\ job.what \subseteq Conditions /\ job.what # {}
    <2>1. files[l]["domain"] = job.what \cap Domains /\ job.what # {}
      BY <1>1, <1>2 DEF IInv, Account
    <2>2. files'[l] = [files[l] EXCEPT !["ip"] = Half(job.what, "ip")]
      BY <1>1 DEF CompileIp, IInv, TypeOK, Written
    <2>3. files[l] \in [Halves -> SUBSET Conditions]
      BY DEF IInv, TypeOK
    <2>4. job.what \subseteq Conditions
      BY <1>2 DEF Jobs
    <2> QED
      BY <2>1, <2>2, <2>3, <2>4 DEF Half, Halves
  <1>7. Pure(l)' /\ l \in loose
    BY <1>1, <1>2, <1>6, RuleListsAssumption DEF Pure, IInv, Truth
  <1>8. About(l)
    BY <1>2, <1>5, <1>7 DEF About
  <1>9. l \in Rest /\ job.todo = job.todo \ {l}
    BY <1>1, <1>2 DEF IInv, Account, Rest
  <1>10. OnList(l)
    BY <1>1, <1>2, <1>4, <1>8, <1>9 DEF OnList
  <1>11. OnDisk(files'[l]) = Shape(job.what)
    BY <1>6 DEF OnDisk, Shape, Half, Halves
  <1>12. Kept(l)'
    <2>1. Shape(job.what) # {}
      BY <1>6 DEF Shape, Half, Halves, Conditions
    <2> QED
      BY <1>11, <2>1 DEF Kept, HasFile
  <1>13. l \in job'.clean => Told(l, e)'
    <2>1. Referred(e) = Shape(job.what)
      BY <1>3 DEF Referred, Split
    <2> QED
      BY <1>11, <2>1 DEF Told
  <1>14. l \notin lost' => Whole(l)'
    <2>1. l \notin lost' => content'[l] = job.what
      BY <1>1, <1>2, <1>4, <1>5 DEF IInv, Truth
    <2>2. files'[l]["domain"] \cup files'[l]["ip"] = job.what
      BY <1>6 DEF Conditions
    <2> QED
      BY <2>1, <2>2 DEF Whole
  <1> QED
    BY <1>4, <1>7, <1>10, <1>12, <1>13, <1>14, Enters

\* A command fails, and the file it was to write may be gone.
LEMMA CompileFailsAssured ==
    ASSUME IInv, TypeOK', CompileFails
    PROVE  Assured'
  <1>1. PICK l \in Lists : l = job.list
    BY DEF CompileFails, IInv, Underway, AtList
  <1>2. /\ AtList /\ AtFile /\ job \in Jobs /\ job.pc \in Halves
        /\ UNCHANGED <<record, active, content>>
    BY <1>1 DEF CompileFails, AtList, AtFile, IInv, TypeOK, Halves
  <1>3. PICK f \in {files[l], [files[l] EXCEPT ![job.pc] = {}]} :
          LET touched == job.pc = "ip" \/ f # files[l]
              j == IF touched THEN [job EXCEPT !.clean = @ \ {l}, !.failed = @ \cup {l}]
                   ELSE job IN
          /\ files' = [files EXCEPT ![l] = f]
          /\ job' = CASE job.how = "resplit" -> [j EXCEPT !.pc = "fetch"]
                      [] job.how = "fetch"   -> FallBack(j, f)
                      [] job.how = "old"     -> Entered(j, Former(j))
          /\ loose' = IF touched THEN loose \cup {l} ELSE loose
          /\ lost' = IF touched THEN lost \cup {l} ELSE lost
    BY <1>1 DEF CompileFails
  <1>4. PICK j \in Jobs :
          /\ j.pc = job.pc /\ j.list = l /\ j.had = job.had /\ j.want = job.want
          /\ j.todo = job.todo /\ j.mem = job.mem /\ j.next = job.next
          /\ \/ /\ j.clean = job.clean \ {l} /\ j.failed = job.failed \cup {l}
                /\ loose' = loose \cup {l} /\ lost' = lost \cup {l}
             \/ /\ job.pc = "domain" /\ f = files[l] /\ j.clean = job.clean
                /\ j.failed = job.failed /\ loose' = loose /\ lost' = lost
          /\ job' = CASE job.how = "resplit" -> [j EXCEPT !.pc = "fetch"]
                      [] job.how = "fetch"   -> FallBack(j, f)
                      [] job.how = "old"     -> Entered(j, Former(j))
    <2>1. CASE job.pc = "ip" \/ f # files[l]
      <3>1. PICK j \in Jobs : j = [job EXCEPT !.clean = @ \ {l}, !.failed = @ \cup {l}]
        BY <1>2 DEF Jobs
      <3>2. /\ j.pc = job.pc /\ j.list = l /\ j.had = job.had /\ j.want = job.want
            /\ j.todo = job.todo /\ j.mem = job.mem /\ j.next = job.next
            /\ j.clean = job.clean \ {l} /\ j.failed = job.failed \cup {l}
        BY <1>1, <1>2, <3>1 DEF Jobs
      <3> QED
        BY <1>3, <2>1, <3>1, <3>2
    <2>2. CASE ~(job.pc = "ip" \/ f # files[l])
      BY <1>1, <1>2, <1>3, <2>2 DEF Halves
    <2> QED
      BY <2>1, <2>2
  <1>15. /\ j.list = l /\ j.want = job.want /\ j.todo = job.todo /\ j.mem = job.mem
         /\ j.next = job.next
    BY <1>4
  <1>6. files'[l] = f /\ \A k \in Lists \ {l} : files'[k] = files[k]
    BY <1>3 DEF IInv, TypeOK
  <1>7. Pure(l) => Pure(l)'
    <2>1. f["domain"] \subseteq files[l]["domain"]
      BY <1>2, <1>3 DEF IInv, TypeOK, Halves
    <2> QED
      BY <1>6, <2>1 DEF Pure
  <1>8. About(l)
    BY <1>2, <1>4, <1>6, <1>7 DEF About
  <1>9. l \in Rest /\ job.todo = job.todo \ {l}
    BY <1>1, <1>2 DEF IInv, Account, Rest
  <1>5. /\ l \in j.clean => l \in DOMAIN j.mem /\ Told(l, j.mem[l])'
        /\ l \notin lost' => Whole(l)'
    <2> SUFFICES ASSUME l \in j.clean \/ l \notin lost'
                 PROVE  /\ l \in j.clean => l \in DOMAIN j.mem /\ Told(l, j.mem[l])'
                        /\ l \notin lost' => Whole(l)'
      OBVIOUS
    <2>1. job.pc = "domain" /\ files'[l] = files[l] /\ j.clean = job.clean /\ lost' = lost
      BY <1>4, <1>6
    <2>2. l \notin DOMAIN job.next
      BY <1>1, <1>2 DEF IInv, Account, Rest, AtList
    <2>3. l \in job.clean => l \in DOMAIN job.mem /\ Told(l, job.mem[l])
      BY <2>1, <2>2, FormerRight
    <2>4. l \notin lost => Whole(l)
      BY <2>1 DEF IInv, Truth, Between
    <2> QED
      BY <1>2, <1>4, <2>1, <2>3, <2>4 DEF Told, Whole
  <1>14. (job.had \/ job.how # "fetch" => Kept(l)' \/ l \in j.failed)
         /\ (l \notin j.failed => (HasFile(l)' <=> HasFile(l)))
    <2>1. CASE l \in j.failed
      BY <2>1
    <2>2. CASE l \notin j.failed
      <3>1. job.pc = "domain" /\ files'[l] = files[l] /\ l \notin job.failed
        BY <1>4, <1>6, <2>2
      <3> QED
        BY <1>1, <3>1 DEF IInv, Account, Kept, HasFile
    <2> QED
      BY <2>1, <2>2
  <1>10. CASE job.how = "resplit"
    <2>1. /\ job'.pc = "fetch" /\ job'.list = l /\ job'.want = job.want
          /\ job'.todo = job.todo /\ job'.mem = job.mem /\ job'.next = job.next
          /\ job'.clean = j.clean /\ job'.failed = j.failed
      <3>1. job' = [j EXCEPT !.pc = "fetch"]
        BY <1>4, <1>10
      <3> QED
        BY <1>4, <3>1 DEF Jobs
    <2>2. OnList(l)
      BY <1>1, <1>2, <1>4, <1>8, <1>9, <2>1 DEF OnList, AtList
    <2>3. Kept(l)'
      BY <1>10, <1>14, <2>1 DEF Kept
    <2>4. l \in job'.clean => l \in DOMAIN job'.mem /\ Told(l, job.mem[l])'
      BY <1>4, <1>5, <2>1 DEF Told
    <2> QED
      BY <1>5, <2>1, <2>2, <2>3, <2>4, GoesOn
  <1>11. CASE job.how = "fetch"
    <2>1. job' = FallBack(j, files'[l])
      BY <1>4, <1>6, <1>11
    <2>2. job.failed \subseteq j.failed /\ j.clean \subseteq job.clean
      BY <1>4
    <2>3. j.had => HasFile(l)' \/ l \in j.failed
      <3>1. CASE l \in j.failed
        BY <3>1
      <3>2. CASE l \notin j.failed
        <4>1. job.pc = "domain" /\ l \notin job.failed
          BY <1>4, <3>2
        <4> QED
          BY <1>1, <1>4, <1>14, <3>2, <4>1 DEF IInv, Account, Kept
      <3> QED
        BY <3>1, <3>2
    <2> QED
      BY <1>1, <1>2, <1>4, <1>5, <1>8, <2>1, <2>2, <2>3, FallsBack
  <1>12. CASE job.how = "old"
    <2>1. PICK e \in Entries : e = Former(j)
      BY FormerType
    <2>2. /\ job'.pc = "list" /\ job'.next = With(job.next, l, e) /\ job'.want = job.want
          /\ job'.todo = job.todo /\ job'.mem = job.mem
          /\ job'.clean = j.clean /\ job'.failed = j.failed
      <3>1. job' = Entered(j, e)
        BY <1>4, <1>12, <2>1
      <3> QED
        BY <1>15, <3>1, EnteredFields
    <2>3. OnList(l)
      BY <1>1, <1>2, <1>4, <1>8, <1>9, <2>2 DEF OnList, AtList
    <2>4. e.split => Pure(l)'
      <3>1. CASE l \in DOMAIN job.mem
        BY <1>4, <2>1, <2>2, <2>3, <3>1, OnListFacts DEF Former, PureWhereSplit
      <3>2. CASE l \notin DOMAIN job.mem
        BY <1>4, <2>1, <3>2 DEF Former, Unsplit
      <3> QED
        BY <3>1, <3>2
    <2>5. Kept(l)'
      BY <1>12, <1>14, <2>2 DEF Kept
    <2>6. l \in job'.clean => Told(l, e)'
      BY <1>4, <1>5, <2>1, <2>2 DEF Told, Former
    <2> QED
      BY <1>5, <2>2, <2>3, <2>4, <2>5, <2>6, Enters
  <1>13. job.how \in {"resplit", "fetch", "old"}
    BY <1>2 DEF Jobs, IInv, Underway
  <1> QED
    BY <1>10, <1>11, <1>12, <1>13

\* A list that ships with the panel is put where there is none.
LEMMA SeedAssured ==
    ASSUME IInv, TypeOK', NEW l \in Lists, Seed(l)
    PROVE  Assured'
  <1>1. Snapshot[l] \in SUBSET Conditions
    <2>1. l \in DOMAIN Snapshot
      BY DEF Seed, ToSeed
    <2> QED
      BY <2>1, InTables, RuleListsAssumption
  <1>2. PICK e \in Entries : e = Split(TRUE, Snapshot[l])
    BY EntryTypes
  <1>3. /\ job.pc = "seed" /\ job \in Jobs /\ loose' = loose \cup {l}
        /\ job.mem \in Tables(Entries) /\ UNCHANGED <<record, active>>
    BY DEF Seed, IInv, TypeOK, Jobs
  <1>4. /\ job'.pc = "seed" /\ job'.next = job.next /\ job'.mem = With(job.mem, l, e)
        /\ job'.clean = job.clean \cup {l}
    BY <1>2, <1>3 DEF Seed, Jobs
  <1>5. /\ DOMAIN job'.mem = DOMAIN job.mem \cup {l} /\ job'.mem[l] = e
        /\ \A k \in DOMAIN job.mem \ {l} : job'.mem[k] = job.mem[k]
    BY <1>4 DEF With
  <1>6. /\ \A k \in Lists \ {l} : files'[k] = files[k] /\ content'[k] = content[k]
        /\ content'[l] = Snapshot[l] /\ lost' = lost \ {l}
        /\ files'[l] = [h \in Halves |-> Half(Snapshot[l], h)]
    BY DEF Seed, IInv, TypeOK
  <1>7. /\ files'[l]["domain"] = Snapshot[l] \cap Domains
        /\ files'[l]["ip"] = Snapshot[l] \cap Ips
    BY <1>6 DEF Half, Halves
  <1>8. Pure(l)'
    BY <1>7, RuleListsAssumption DEF Pure
  <1>9. About(l)
    BY <1>3, <1>6, <1>8 DEF About
  <1>10. Told(l, e)'
    <2>1. OnDisk(files'[l]) = Referred(e)
      BY <1>2, <1>6 DEF OnDisk, Referred, Split, Shape, Halves
    <2> QED
      BY <2>1 DEF Told
  <1>16. WholeOr(lost)'
    <2>1. Whole(l)'
      BY <1>1, <1>6, <1>7 DEF Conditions, Whole
    <2> QED
      BY <1>3, <1>9, <2>1, Frame DEF WholeOr
  <1>11. ~AtList' /\ ~AtFile' /\ job.next = NoTable /\ DOMAIN job'.next = {}
    BY <1>3, <1>4, NoTableTypes DEF AtList, AtFile, IInv, Account
  <1>12. PureWhereSplit(job.mem)'
    <2>1. \A k \in DOMAIN job.mem : job.mem[k].split => Pure(k)'
      BY <1>3, <1>9, Frame DEF IInv, Purity
    <2> QED
      BY <1>5, <1>8, <2>1 DEF PureWhereSplit
  <1>13. Purity'
    BY <1>4, <1>9, <1>11, <1>12, Frame DEF Purity, PureWhereSplit
  <1>14. RightAbout(job.mem, job.clean \ DOMAIN job.next)'
    <2> SUFFICES ASSUME NEW k \in job'.clean
                 PROVE  k \in DOMAIN job'.mem /\ Told(k, job.mem[k])'
      BY DEF RightAbout
    <2>1. CASE k = l
      BY <1>5, <1>10, <2>1
    <2>2. CASE k # l
      <3>1. k \in Lists \ {l} /\ k \in DOMAIN job.mem /\ Told(k, job.mem[k])
        <4>1. k \in job.clean /\ k \in Lists
          BY <1>3, <1>4, <2>2 DEF Jobs
        <4>2. RightAbout(job.mem, job.clean)
          BY <1>3, <1>11, NoTableTypes DEF IInv, Truth, RightAbout
        <4> QED
          BY <2>2, <4>1, <4>2 DEF RightAbout
      <3>2. PICK x : x = job.mem[k] /\ Told(k, x)'
        BY <1>9, <3>1, Frame
      <3> QED
        BY <1>5, <2>2, <3>1, <3>2
    <2> QED
      BY <2>1, <2>2
  <1>15. Truth'
    BY <1>4, <1>9, <1>11, <1>14, <1>16, Frame DEF Truth, RightAbout, WholeOr
  <1> QED
    BY <1>4, <1>11, <1>13, <1>15 DEF Assured, Underway, Account

-----------------------------------------------------------------------------
(* The steps between the lists.                                            *)

\* While nothing is touched, the record is as right as it was.
LEMMA AllUntouched ==
    ASSUME IInv, UNCHANGED <<files, record, active, loose, content>>
    PROVE  /\ RightAbout(record, Lists \ loose)' /\ PureWhereSplit(record)'
           /\ PureWhereSplit(active)'
           /\ \A l : (Pure(l)' <=> Pure(l)) /\ (HasFile(l)' <=> HasFile(l))
           /\ \A l, e : Told(l, e) => Told(l, e)'
           /\ \A l : Whole(l)' <=> Whole(l)
           /\ job.pc # "ip" => WholeOr(lost)
  BY DEF IInv, Purity, Truth, RightAbout, PureWhereSplit, Pure, Told, HasFile, Whole, WholeOr,
         Between

\* A new installation, and the files of the version before.
LEMMA InitAssured == Init => Assured
  <1> SUFFICES ASSUME Init PROVE Assured
    OBVIOUS
  <1>1. job = Idle
    BY DEF Init
  <1>2. ~AtList /\ ~AtFile /\ job.pc = "idle"
    BY <1>1, IdleFields DEF AtList, AtFile
  <1>3. /\ \A l \in DOMAIN record : record[l] = Unsplit(TRUE)
        /\ active = record
        /\ Lists \ loose \subseteq DOMAIN record
        /\ \A l \in Lists \ loose : content[l] # {}
    <2>1. CASE record = NoTable /\ active = NoTable /\ loose = Lists
      BY <2>1, NoTableTypes
    <2>2. CASE /\ record = [l \in wanted |-> Unsplit(TRUE)] /\ active = record
               /\ loose = Lists \ wanted
               /\ \A l \in Lists : content[l] = {} <=> l \notin wanted
      BY <2>2
    <2> QED
      BY <2>1, <2>2 DEF Init
  <1>4. PureWhereSplit(record) /\ PureWhereSplit(active)
    BY <1>3 DEF PureWhereSplit, Unsplit
  <1>5. PureWhereSplit(job.mem) /\ PureWhereSplit(job.next)
    BY <1>1, IdleFields, NoTableTypes DEF PureWhereSplit
  <1>6. RightAbout(record, Lists \ loose)
    <2> SUFFICES ASSUME NEW l \in Lists \ loose PROVE Told(l, Unsplit(TRUE))
      BY <1>3 DEF RightAbout
    <2>1. files[l] = [h \in Halves |-> IF h = "domain" THEN content[l] ELSE {}]
      BY DEF Init
    <2> QED
      BY <1>3, <2>1 DEF Told, OnDisk, Referred, Unsplit, Halves
  <1>7. \A l \in Lists : Whole(l)
    <2> SUFFICES ASSUME NEW l \in Lists PROVE Whole(l)
      OBVIOUS
    <2>1. files[l] = [h \in Halves |-> IF h = "domain" THEN content[l] ELSE {}]
      BY DEF Init
    <2> QED
      BY <2>1 DEF Whole, Halves
  <1> QED
    BY <1>2, <1>4, <1>5, <1>6, <1>7 DEF Assured, Underway, Purity, Account, Truth

\* A deploy starts from the record.
LEMMA BeginAssured ==
    ASSUME IInv, TypeOK', Begin
    PROVE  Assured'
  <1>1. UNCHANGED <<files, record, active, loose, content, lost>>
    BY DEF Begin, history
  <1>8. job.pc = "idle"
    BY DEF Begin
  <1>2. /\ job'.pc = IF wanted = {} THEN "config" ELSE "seed"
        /\ job'.want = wanted /\ job'.mem = record /\ job'.clean = Lists \ loose
        /\ job'.next = NoTable
    BY DEF Begin, Idle
  <1>3. ~AtList' /\ ~AtFile' /\ DOMAIN job'.next = {}
    BY <1>2, NoTableTypes DEF AtList, AtFile
  <1>4. PureWhereSplit(job.mem)' /\ PureWhereSplit(job.next)'
    BY <1>1, <1>2, <1>3, AllUntouched DEF PureWhereSplit
  <1>5. Account'
    BY <1>2, <1>3 DEF Account
  <1>6. RightAbout(job.mem, job.clean)'
    BY <1>1, <1>2, AllUntouched DEF RightAbout
  <1>7. Truth'
    <2>1. WholeOr(lost)'
      BY <1>1, <1>8, AllUntouched DEF WholeOr
    <2> QED
      BY <1>1, <1>2, <1>3, <1>6, <2>1, AllUntouched DEF Truth, RightAbout, WholeOr
  <1> QED
    BY <1>1, <1>2, <1>3, <1>4, <1>5, <1>7, AllUntouched DEF Assured, Underway, Purity

\* All lists are to be done.
LEMMA SeededAssured ==
    ASSUME IInv, TypeOK', Seeded
    PROVE  Assured'
  <1>1. UNCHANGED <<files, record, active, loose, content, lost>>
    BY DEF Seeded, history
  <1>2. /\ job.pc = "seed" /\ job'.pc = "list" /\ job'.want = job.want /\ job'.todo = job.want
        /\ job'.mem = job.mem /\ job'.next = job.next /\ job'.clean = job.clean
    BY DEF Seeded, IInv, TypeOK, Jobs
  <1>3. /\ ~AtList' /\ ~AtFile' /\ ~AtFile /\ Rest' = job'.todo
        /\ DOMAIN job'.next = {} /\ DOMAIN job.next = {}
    BY <1>2, NoTableTypes DEF AtList, AtFile, IInv, Account, Rest
  <1>4. PureWhereSplit(job.mem)' /\ PureWhereSplit(job.next)'
    BY <1>1, <1>2, <1>3, AllUntouched DEF IInv, Purity, PureWhereSplit
  <1>5. Account'
    BY <1>2, <1>3 DEF Account
  <1>6. RightAbout(job.mem, job.clean)'
    <2>1. RightAbout(job.mem, job.clean)
      BY <1>2, <1>3 DEF IInv, Truth, RightAbout
    <2> QED
      BY <1>1, <1>2, <2>1, AllUntouched DEF RightAbout
  <1>7. Truth'
    <2>1. WholeOr(lost)'
      BY <1>1, <1>2, AllUntouched DEF WholeOr
    <2> QED
      BY <1>1, <1>2, <1>3, <1>6, <2>1, AllUntouched DEF Truth, RightAbout, WholeOr
  <1> QED
    BY <1>1, <1>2, <1>3, <1>4, <1>5, <1>7, AllUntouched DEF Assured, Underway, Purity

\* The record is that of the lists done.
LEMMA FinishAssured ==
    ASSUME IInv, TypeOK', Finish
    PROVE  Assured'
  <1>1. /\ record' = job.next /\ UNCHANGED <<files, active, content, lost>>
        /\ loose' = Lists \ (job.clean \cap DOMAIN job.next)
    BY DEF Finish
  <1>2. /\ job.pc = "list" /\ job.todo = {} /\ job'.pc = "config" /\ job'.want = job.want
        /\ job'.mem = NoTable /\ job'.next = job.next /\ job'.failed = job.failed
    BY DEF Finish, IInv, TypeOK, Jobs
  <1>3. ~AtList' /\ ~AtFile' /\ ~AtList
    BY <1>2 DEF AtList, AtFile
  <1>4. Purity'
    BY <1>1, <1>2, <1>3, NoTableTypes DEF IInv, Purity, PureWhereSplit, Pure
  <1>5. Account'
    <2>1. \A l \in job.want : Kept(l)
      BY <1>2, <1>3 DEF IInv, Account, Rest
    <2> QED
      BY <1>1, <1>2, <1>3, <2>1 DEF Account, Kept, HasFile
  <1>6. Truth'
    <2>1. RightAbout(job.next, job.clean \cap DOMAIN job.next)
      BY <1>2 DEF IInv, Truth
    <2>2. \A l \in Lists \ lost' : Whole(l)'
      BY <1>1, <1>2 DEF IInv, Truth, Between, Whole
    <2> QED
      BY <1>1, <1>2, <1>3, <2>1, <2>2 DEF Truth, RightAbout, Told
  <1> QED
    BY <1>3, <1>4, <1>5, <1>6 DEF Assured, Underway

\* The configuration refers to the files as the deploy found them.
LEMMA InstallAssured ==
    ASSUME IInv, TypeOK', Install
    PROVE  Assured'
  <1>1. UNCHANGED <<files, record, loose, content, lost>> /\ job' = Idle /\ job.pc = "config"
    BY DEF Install, history
  <1>2. RightAbout(record, Lists \ loose)' /\ PureWhereSplit(record)'
    BY <1>1 DEF IInv, Purity, Truth, RightAbout, PureWhereSplit, Pure, Told
  <1>3. PureWhereSplit(active)'
    <2>1. CASE active' = active
      BY <1>1, <2>1 DEF IInv, Purity, PureWhereSplit, Pure
    <2>2. CASE active' = [l \in wanted |-> Shaped(l)]
      <3>1. \A l \in wanted : Shaped(l).split => l \in DOMAIN job.next /\ job.next[l].split
        BY DEF Shaped, Unsplit
      <3> QED
        BY <1>1, <2>2, <3>1 DEF IInv, Purity, PureWhereSplit, Pure, Shaped
    <2> QED
      BY <2>1, <2>2 DEF Install
  <1>4. WholeOr(lost)'
    BY <1>1 DEF IInv, Truth, Between, Whole, WholeOr
  <1> QED
    BY <1>1, <1>2, <1>3, <1>4, IdleAssured

\* A record that gets old says the same of its files.
LEMMA GetsOldAssured ==
    ASSUME IInv, TypeOK', NEW l \in Lists, GetsOld(l)
    PROVE  Assured'
  <1>1. UNCHANGED <<files, job, active, loose, content, lost>> /\ job.pc = "idle"
    BY DEF GetsOld, history
  <1>2. DOMAIN record \subseteq Lists /\ record \in [DOMAIN record -> Entries]
    BY InTables DEF IInv, TypeOK
  <1>3. DOMAIN record' = DOMAIN record
        /\ \A k \in DOMAIN record : /\ record'[k].split = record[k].split
                                     /\ record'[k].shape = record[k].shape
    BY <1>2 DEF GetsOld, Entries
  <1>4. \A k \in DOMAIN record : Referred(record'[k]) = Referred(record[k])
    BY <1>3 DEF Referred
  <1>5. RightAbout(record, Lists \ loose)' /\ PureWhereSplit(record)'
    BY <1>1, <1>3, <1>4 DEF IInv, Purity, Truth, RightAbout, PureWhereSplit, Pure, Told
  <1>6. ~AtList' /\ ~AtFile'
    BY <1>1 DEF AtList, AtFile
  <1>7. \A k \in Lists \ lost' : Whole(k)'
    BY <1>1 DEF IInv, Truth, Between, Whole
  <1> QED
    BY <1>1, <1>5, <1>6, <1>7
       DEF Assured, Underway, Purity, Account, Truth, PureWhereSplit, Pure, IInv

\* A step outside the deploy, or none.
LEMMA QuietAssured ==
    ASSUME IInv, UNCHANGED <<files, record, job, active, history>>
    PROVE  Assured'
  <1>1. (AtList' <=> AtList) /\ (AtFile' <=> AtFile)
    BY DEF AtList, AtFile
  <1>2. Underway' /\ Purity'
    BY <1>1 DEF IInv, Underway, Purity, PureWhereSplit, Pure
  <1>3. Account'
    BY <1>1 DEF IInv, Account, Rest, Kept, HasFile
  <1>4. Truth'
    BY <1>1 DEF IInv, Truth, RightAbout, Told, Whole, Between, history
  <1> QED
    BY <1>2, <1>3, <1>4 DEF Assured

\* Every step keeps the invariant.
LEMMA Step == IInv /\ [Next]_vars => IInv'
  <1> SUFFICES ASSUME IInv, [Next]_vars PROVE IInv'
    OBVIOUS
  <1>1. TypeOK'
    BY TypeStep DEF IInv
  <1>2. CASE Begin
    BY <1>1, <1>2, BeginAssured DEF IInv, Assured
  <1>3. CASE Deploy
    <2>1. ASSUME NEW l \in Lists, Seed(l) \/ Take(l) PROVE IInv'
      BY <1>1, <2>1, SeedAssured, TakeAssured DEF IInv, Assured
    <2>2. CASE Seeded
      BY <1>1, <2>2, SeededAssured DEF IInv, Assured
    <2>3. CASE Fetch
      BY <1>1, <2>3, FetchAssured DEF IInv, Assured
    <2>4. CASE CompileDomain
      BY <1>1, <2>4, CompileDomainAssured DEF IInv, Assured
    <2>5. CASE CompileIp
      BY <1>1, <2>5, CompileIpAssured DEF IInv, Assured
    <2>6. CASE CompileFails
      BY <1>1, <2>6, CompileFailsAssured DEF IInv, Assured
    <2>7. CASE Finish
      BY <1>1, <2>7, FinishAssured DEF IInv, Assured
    <2>8. CASE Install
      BY <1>1, <2>8, InstallAssured DEF IInv, Assured
    <2>9. CASE Refused
      <3>1. /\ UNCHANGED <<files, record, active, loose, content, lost>> /\ job' = Idle
            /\ job.pc # "ip"
        BY <2>9 DEF Refused, history
      <3>2. WholeOr(lost)'
        BY <3>1, AllUntouched DEF WholeOr
      <3> QED
        BY <1>1, <3>1, <3>2, AllUntouched, IdleAssured DEF IInv, Assured
    <2> QED
      BY <1>3, <2>1, <2>2, <2>3, <2>4, <2>5, <2>6, <2>7, <2>8, <2>9 DEF Deploy, Works
  <1>4. CASE Dies
    <2>1. Assured'
      <3>1. /\ UNCHANGED <<files, record, active, loose, content>> /\ job' = Idle
            /\ lost' = IF job.pc = "ip" THEN lost \cup {job.list} ELSE lost
        BY <1>4 DEF Dies
      <3>2. WholeOr(lost)'
        BY <3>1, AllUntouched DEF WholeOr, IInv, Truth, Between
      <3> QED
        BY <3>1, <3>2, AllUntouched, IdleAssured
    <2> QED
      BY <1>1, <2>1 DEF IInv, Assured
  <1>5. CASE World \/ UNCHANGED vars
    <2>1. Assured'
      BY <1>5, QuietAssured DEF World, vars
    <2> QED
      BY <1>1, <2>1 DEF IInv, Assured
  <1>6. ASSUME NEW l \in Lists, GetsOld(l) PROVE IInv'
    BY <1>1, <1>6, GetsOldAssured DEF IInv, Assured
  <1> QED
    BY <1>2, <1>3, <1>4, <1>5, <1>6 DEF Next

-----------------------------------------------------------------------------
(* The invariant holds in every behaviour, whatever fails, dies or changes. *)
THEOREM Invariance == Spec => []IInv
  <1>1. Init => IInv
    BY TypeInit, InitAssured DEF IInv, Assured
  <1> QED
    BY <1>1, Step, PTL DEF Spec

\* What the record says of a list is what its files are and hold, and no
\* configuration is made of lists of which there is nothing.
THEOREM RecordSafe == Spec => []RecordAgrees
  <1>1. IInv => RecordAgrees
    <2> SUFFICES ASSUME IInv PROVE RecordAgrees
      OBVIOUS
    <2>1. RecordTellsFiles
      BY DEF IInv, Truth, RightAbout, Told, Whole, RecordTellsFiles
    <2>2. NoEmptyRules
      BY DEF IInv, Account, Kept, NoEmptyRules
    <2> QED
      BY <2>1, <2>2 DEF IInv, RecordAgrees
  <1> QED
    BY <1>1, Invariance, PTL

\* The file that DNS rules refer to as that of the domains of a list holds no IP
\* condition, at any moment of a deploy that makes the files anew.
THEOREM DnsSafe == Spec => []DnsSeesNoIps
  <1>1. IInv => DnsSeesNoIps
    BY DEF IInv, Purity, PureWhereSplit, Pure, DnsSeesNoIps
  <1> QED
    BY <1>1, Invariance, PTL
=============================================================================
