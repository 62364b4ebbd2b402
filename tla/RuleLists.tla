----------------------------- MODULE RuleLists -----------------------------
(***************************************************************************)
(* system/rule-lists.mjs: the rule lists a user gives by address.  Before a *)
(* configuration is made, each list the profile uses is fetched and         *)
(* compiled into a file of its domain conditions and a file of its IP       *)
(* conditions; data/rule-lists.json records what each list came to, and     *)
(* tells the configuration which files to refer to.                         *)
(*                                                                         *)
(* A list is a set of conditions, and its tag and address are one: the tag  *)
(* is a hash.  A record is fresh for a day, and no deploy lasts over the    *)
(* moment it gets old.  Texts, .mrs and .srs all come to conditions.        *)
(***************************************************************************)
EXTENDS Naturals, FiniteSets

CONSTANTS
    Lists,
    Domains, Ips,   \* conditions
    Contents,       \* what a source may serve; {} is a page without a condition
    First,          \* what the sources serve when the behaviour begins
    Snapshot,       \* the lists that come with the panel, and their conditions
    Legacy,         \* what a file of the version before may hold, both kinds in one
    Nothing,        \* no list
    Budgets         \* edits of the user, changes and outages of the sources, commands
                    \* that fail, deploys that fail later on, deaths of the panel

Halves == {"domain", "ip"}
Counted == {"edits", "changes", "outages", "failures", "refusals", "deaths"}
Entries == [fresh : BOOLEAN, split : BOOLEAN, shape : SUBSET Halves]
Tables(S) == UNION {[T -> S] : T \in SUBSET Lists}
Conditions == Domains \cup Ips

ASSUME RuleListsAssumption ==
    /\ Domains \cap Ips = {} /\ Nothing \notin Lists
    /\ Contents \cup Legacy \subseteq SUBSET Conditions /\ {} \notin Legacy
    /\ First \subseteq [Lists -> Contents]
    /\ Snapshot \in Tables(SUBSET Conditions)
    /\ Budgets \subseteq [Counted -> Nat]

VARIABLES
    source, up,  \* what each address serves, and the addresses that answer
    wanted,      \* the lists the profile uses
    files,       \* the two files of each list; {} is no file
    record,      \* rule-lists.json
    job,         \* the deploy under way
    active,      \* the lists of the configuration in force, as it refers to them
    left,
    \* History.
    loose,       \* lists the record does not describe: none was written since the
                 \* files changed, or it was dropped, or made from such files
    content,     \* what the files of a list were last made of
    lost         \* lists that may have lost some of it: a command failed on a file, the
                 \* panel died between the two, or one was split that no record is about

world == <<source, up, wanted>>
history == <<loose, content, lost>>
vars == <<world, files, record, job, active, left, history>>

-----------------------------------------------------------------------------
Half(c, h) == IF h = "domain" THEN c \cap Domains ELSE c \cap Ips
Shape(c) == {h \in Halves : Half(c, h) # {}}
OnDisk(f) == {h \in Halves : f[h] # {}}
HasFile(l) == OnDisk(files[l]) # {}
With(f, l, v) == [i \in DOMAIN f \cup {l} |-> IF i = l THEN v ELSE f[i]]
Split(fresh, c) == [fresh |-> fresh, split |-> TRUE, shape |-> Shape(c)]
Unsplit(fresh) == [fresh |-> fresh, split |-> FALSE, shape |-> {}]

\* The files a list is referred to by: without a shape the one that may hold both.
Referred(e) == IF e.split THEN e.shape ELSE {"domain"}

May(what) == left[what] > 0
Spend(what) == left' = [left EXCEPT ![what] = @ - 1]

NoTable == [l \in {} |-> Unsplit(FALSE)]
Idle == [pc |-> "idle", want |-> {}, todo |-> {}, mem |-> NoTable, next |-> NoTable,
         list |-> Nothing, had |-> FALSE, how |-> "", what |-> {}, clean |-> {}, failed |-> {}]

Jobs == [pc : {"idle", "seed", "list", "fetch", "domain", "ip", "config"},
         want : SUBSET Lists, todo : SUBSET Lists, mem : Tables(Entries), next : Tables(Entries),
         list : Lists \cup {Nothing}, had : BOOLEAN, how : {"", "resplit", "fetch", "old"},
         what : SUBSET Conditions, clean : SUBSET Lists, failed : SUBSET Lists]

TypeOK ==
    /\ source \in [Lists -> Contents] /\ up \subseteq Lists /\ wanted \subseteq Lists
    /\ files \in [Lists -> [Halves -> SUBSET Conditions]]
    /\ record \in Tables(Entries) /\ active \in Tables(Entries)
    /\ job \in Jobs /\ left \in [Counted -> Nat]
    /\ loose \subseteq Lists /\ content \in [Lists -> SUBSET Conditions]
    /\ lost \subseteq Lists

\* A new installation, or the files and records of a version that did not split.
Init ==
    /\ source \in First /\ up = Lists /\ wanted \in SUBSET Lists
    /\ left \in Budgets /\ job = Idle /\ lost = {}
    /\ \/ /\ record = NoTable /\ active = NoTable /\ loose = Lists
          /\ content = [l \in Lists |-> {}]
       \/ /\ record = [l \in wanted |-> Unsplit(TRUE)] /\ active = record
          /\ loose = Lists \ wanted /\ wanted # {}
          /\ content \in [Lists -> Legacy \cup {{}}]
          /\ \A l \in Lists : content[l] = {} <=> l \notin wanted
    /\ files = [l \in Lists |-> [h \in Halves |-> IF h = "domain" THEN content[l] ELSE {}]]

-----------------------------------------------------------------------------
(* ensureRuleLists. *)

Begin ==
    /\ job.pc = "idle"
    /\ job' = [Idle EXCEPT !.pc = IF wanted = {} THEN "config" ELSE "seed",
                           !.want = wanted, !.mem = record, !.clean = Lists \ loose]
    /\ UNCHANGED <<world, files, record, active, left, history>>

ToSeed == {l \in job.want \cap DOMAIN Snapshot :
             ~HasFile(l) /\ Cardinality(Shape(Snapshot[l])) = 1}

Seed(l) ==
    /\ job.pc = "seed" /\ l \in ToSeed
    /\ files' = [files EXCEPT ![l] = [h \in Halves |-> Half(Snapshot[l], h)]]
    /\ job' = [job EXCEPT !.mem = With(@, l, Split(TRUE, Snapshot[l])), !.clean = @ \cup {l}]
    /\ loose' = loose \cup {l}
    /\ content' = [content EXCEPT ![l] = Snapshot[l]] /\ lost' = lost \ {l}
    /\ UNCHANGED <<world, record, active, left>>

Seeded ==
    /\ job.pc = "seed" /\ ToSeed = {}
    /\ job' = [job EXCEPT !.pc = "list", !.todo = job.want]
    /\ UNCHANGED <<world, files, record, active, left, history>>

\* The list has its entry; and: its files are made anew out of c.
Entered(j, e) == [j EXCEPT !.pc = "list", !.next = With(@, j.list, e),
                           !.list = Nothing, !.had = FALSE, !.how = "", !.what = {}]
Compiled(j, how, c) == [j EXCEPT !.pc = "domain", !.how = how, !.what = c]

\* Mutant: the age of the record is not looked at.
UpToDateOnce(l) == HasFile(l) /\ l \in DOMAIN job.mem

UpToDate(l) == HasFile(l) /\ l \in DOMAIN job.mem /\ job.mem[l].fresh

\* One list after the other: kept, split out of its old file, or to be fetched.
Take(l) ==
    LET j == [job EXCEPT !.list = l, !.had = HasFile(l), !.todo = @ \ {l}] IN
    /\ job.pc = "list" /\ l \in job.todo
    /\ job' = IF UpToDate(l) /\ job.mem[l].split THEN Entered(j, job.mem[l])
              ELSE IF UpToDate(l) /\ files[l]["domain"] # {}
                   THEN Compiled(j, "resplit", files[l]["domain"])
              ELSE [j EXCEPT !.pc = "fetch"]
    /\ UNCHANGED <<world, files, record, active, left, history>>

Former(j) == IF j.list \in DOMAIN j.mem THEN j.mem[j.list] ELSE Unsplit(FALSE)

\* The files there are do: what they are is in the former entry, or found out by
\* splitting the first.  Without a file the deploy ends.
FallBack(j, f) ==
    IF ~j.had THEN Idle
    ELSE IF ~Former(j).split /\ f["domain"] # {} THEN Compiled(j, "old", f["domain"])
    ELSE Entered(j, Former(j))

Fetch ==
    /\ job.pc = "fetch"
    /\ job' = IF job.list \in up /\ source[job.list] # {}
              THEN Compiled(job, "fetch", source[job.list])
              ELSE FallBack(job, files[job.list])
    /\ UNCHANGED <<world, files, record, active, left, history>>

\* Mutant: the file of a half that has become empty stays.
WrittenKept(f, h, c) == IF Half(c, h) = {} THEN f ELSE [f EXCEPT ![h] = Half(c, h)]

\* Mutant: the first file is compiled before the list is split.
WrittenMixed(f, h, c) ==
    [f EXCEPT ![h] = IF h = "domain" /\ Half(c, h) # {} THEN c ELSE Half(c, h)]

\* A half without a condition has no file, and one that is there goes.
Written(f, h, c) == [f EXCEPT ![h] = Half(c, h)]

CompileDomain ==
    /\ job.pc = "domain"
    /\ files' = [files EXCEPT ![job.list] = Written(@, "domain", job.what)]
    /\ loose' = loose \cup {job.list}
    /\ job' = [job EXCEPT !.pc = "ip"]
    /\ UNCHANGED <<world, record, active, left, content, lost>>

CompileIp ==
    LET fetched == job.how = "fetch" IN
    /\ job.pc = "ip"
    /\ files' = [files EXCEPT ![job.list] = Written(@, "ip", job.what)]
    /\ job' = [Entered(job, Split(fetched \/ Former(job).fresh, job.what)) EXCEPT
                 !.clean = IF fetched THEN @ \cup {job.list} ELSE @]
    /\ content' = IF fetched THEN [content EXCEPT ![job.list] = job.what] ELSE content
    /\ lost' = IF fetched THEN lost \ {job.list} ELSE lost \cup ({job.list} \ job.clean)
    /\ UNCHANGED <<world, record, active, left, loose>>

\* sing-box fails, and may have removed the file it was to write; or it fails to read the
\* file that is to be split.
CompileFails ==
    LET l == job.list IN
    /\ job.pc \in {"domain", "ip"} /\ May("failures") /\ Spend("failures")
    /\ \E f \in {files[l], [files[l] EXCEPT ![job.pc] = {}]} :
         LET touched == job.pc = "ip" \/ f # files[l]
             j == IF touched THEN [job EXCEPT !.clean = @ \ {l}, !.failed = @ \cup {l}]
                  ELSE job IN
         /\ Half(job.what, job.pc) # {} \/ (job.how # "fetch" /\ ~touched)
         /\ files' = [files EXCEPT ![l] = f]
         /\ job' = CASE job.how = "resplit" -> [j EXCEPT !.pc = "fetch"]
                     [] job.how = "fetch"   -> FallBack(j, f)
                     [] job.how = "old"     -> Entered(j, Former(j))
         /\ loose' = IF touched THEN loose \cup {l} ELSE loose
         /\ lost' = IF touched THEN lost \cup {l} ELSE lost
    /\ UNCHANGED <<world, record, active, content>>

\* The record is written when all lists are done, and holds only those.
Finish ==
    /\ job.pc = "list" /\ job.todo = {}
    /\ record' = job.next
    /\ loose' = Lists \ (job.clean \cap DOMAIN job.next)
    /\ job' = [job EXCEPT !.pc = "config", !.mem = NoTable]
    /\ UNCHANGED <<world, files, active, left, content, lost>>

-----------------------------------------------------------------------------
(* The configuration, of the profile as it is by now; the kernel refuses one *)
(* that refers to a file that is not there.                                  *)
Shaped(l) == IF l \in DOMAIN job.next THEN job.next[l] ELSE Unsplit(FALSE)

Install ==
    /\ job.pc = "config"
    /\ active' = IF \A l \in wanted : \A h \in Referred(Shaped(l)) : files[l][h] # {}
                 THEN [l \in wanted |-> Shaped(l)] ELSE active
    /\ job' = Idle
    /\ UNCHANGED <<world, files, record, left, history>>

Refused ==
    /\ job.pc = "config" /\ May("refusals") /\ Spend("refusals")
    /\ job' = Idle
    /\ UNCHANGED <<world, files, record, active, history>>

Works == \E l \in Lists : Seed(l) \/ Take(l)
Deploy == Works \/ Seeded \/ Fetch \/ CompileDomain \/ CompileIp \/ CompileFails \/ Finish
          \/ Install \/ Refused

Dies ==
    /\ job.pc # "idle" /\ May("deaths") /\ Spend("deaths")
    /\ job' = Idle
    /\ lost' = IF job.pc = "ip" THEN lost \cup {job.list} ELSE lost
    /\ UNCHANGED <<world, files, record, active, loose, content>>

GetsOld(l) ==
    /\ job.pc = "idle" /\ l \in DOMAIN record /\ record[l].fresh
    /\ record' = [record EXCEPT ![l].fresh = FALSE]
    /\ UNCHANGED <<world, files, job, active, left, history>>

World ==
    /\ \/ /\ May("edits") /\ Spend("edits")
          /\ wanted' \in SUBSET Lists \ {wanted} /\ UNCHANGED <<source, up>>
       \/ /\ May("changes") /\ Spend("changes")
          /\ \E l \in Lists : \E c \in Contents \ {source[l]} : source' = [source EXCEPT ![l] = c]
          /\ UNCHANGED <<up, wanted>>
       \/ /\ May("outages") /\ Spend("outages")
          /\ up' \in SUBSET Lists \ {up} /\ UNCHANGED <<source, wanted>>
    /\ UNCHANGED <<files, record, job, active, history>>

Next == Begin \/ Deploy \/ Dies \/ World \/ \E l \in Lists : GetsOld(l)

Spec == Init /\ [][Next]_vars
\* A deploy that has begun goes on, and the clock does, between deploys too.
FairSpec == Spec /\ WF_vars(Deploy) /\ \A l \in Lists : SF_vars(GetsOld(l))

-----------------------------------------------------------------------------
\* Of a list whose files are as the last record found them, the files it says there are
\* exist and no other.  And the files of a list hold together all the conditions that they
\* were made of, so that what was taken once is used for as long as the source is silent:
\* through outages, splits of old files, aborted deploys, deaths of the panel and records
\* that were never written.  Three things may cost a list some of them until it is fetched
\* again: a command that fails on one of its files, a death between the two, and the split
\* of a file no record is about, which may have been split before.
Between(l) == job.pc = "ip" /\ job.list = l

RecordTellsFiles ==
    \A l \in Lists :
      /\ l \notin loose => l \in DOMAIN record /\ OnDisk(files[l]) = Referred(record[l])
      /\ l \in lost \/ Between(l) \/ files[l]["domain"] \cup files[l]["ip"] = content[l]

\* A file that DNS rules refer to as that of the domains holds no IP condition, so
\* no name is resolved only to be compared with it, in the configuration in force.
DnsSeesNoIps ==
    \A l \in DOMAIN active : active[l].split => files[l]["domain"] \cap Ips = {}

\* A list of which there is no file stops the deploy: its rules would be empty.  The
\* exception is a list whose last file went with a command that failed on the way.
NoEmptyRules ==
    job.pc = "config" => \A l \in job.want \ job.failed : HasFile(l)

\* Files and record agree, and no list is used of which there is nothing.
RecordAgrees == TypeOK /\ RecordTellsFiles /\ NoEmptyRules

\* If deploys are asked for again and again while the sources that are used answer,
\* then whatever happened before, the configuration ends up with all they serve.
Current ==
    /\ DOMAIN active = wanted
    /\ \A l \in wanted :
         /\ active[l].split /\ active[l].shape = Shape(source[l])
         /\ \A h \in Halves : files[l][h] = Half(source[l], h)
Answered == wanted \subseteq up /\ \A l \in wanted : source[l] # {}
Settles == ([]<><<Begin>>_vars /\ <>[]Answered) => <>[]Current
=============================================================================
