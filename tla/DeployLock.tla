----------------------------- MODULE DeployLock -----------------------------
(***************************************************************************)
(* The cross-process deploy lock of panel/server/api/deploy-runner.mjs      *)
(* (withDeployLock).  The panel and the command line started by update.sh   *)
(* run the same pipeline in two processes and agree through one record of   *)
(* the shared store, the key jbox/deploy-lock.  The store offers get, set   *)
(* and delete, each atomic, and no compare-and-swap: an attempt looks,      *)
(* writes, and looks again.  Within a process deployQueue admits one        *)
(* attempt at a time, so a process has one program counter.                 *)
(*                                                                         *)
(* Time is counted in retry periods (the 500 ms sleep).  The timestamp of   *)
(* the record is kept as its age.  A process that is late with something    *)
(* its event loop had to do when a period passed has been stalled: blocked, *)
(* or suspended by the kernel.                                              *)
(***************************************************************************)
EXTENDS Integers, FiniteSets

CONSTANTS
    Procs,       \* the processes that deploy, named by their pid
    Tokens,      \* what randomBytes draws from
    NoToken,     \* the token of a process that is not in withDeployLock
    NoLock,      \* the store has no record
    Stale,       \* LOCK_STALE_MS, in retry periods
    Beat,        \* LOCK_HEARTBEAT_MS
    Wait,        \* LOCK_WAIT_MS
    MaxCrashes,  \* bound: how often a process may be killed
    MaxStalls    \* bound: how many periods may find a process stalled

ASSUME TimesAssumption ==
    /\ Stale \in Nat /\ Beat \in Nat /\ Wait \in Nat
    /\ 0 < Beat /\ Beat < Stale
    /\ MaxCrashes \in Nat /\ MaxStalls \in Nat

ASSUME NamesAssumption == NoToken \notin Tokens /\ NoLock \notin [pid : Procs, token : Tokens \cup {NoToken}]

VARIABLES
    lock,     \* the record in the store, or NoLock
    age,      \* now() - lock.at, counted up to Stale
    pc,       \* where each process is in withDeployLock
    tok,      \* the token of its current attempt
    waited,   \* time since the attempt began, counted up to Wait + 1
    since,    \* time since its heartbeat timer last fired
    crashes, stalls,
    \* What follows is not in the program; it records what has happened.
    fresh,    \* who is about to act on a read of the store that is still true of it
    late,     \* late[p]: p has been stalled since it last wrote the record
    orphaned, \* the process that wrote the record has died since
    overrun   \* the record was once replaced on an outdated read, or over a stalled holder

vars == <<lock, age, pc, tok, waited, since, crashes, stalls, fresh, late, orphaned, overrun>>

Records == [pid : Procs, token : Tokens]

\* look: about to read.  write, check: the write and the second read.
\* beat, unlock: a heartbeat or the release has read its own record.
Trying == {"look", "write", "check", "sleep"}
Inside == {"fn", "beat", "unlock"}
Places == {"idle", "dead"} \cup Trying \cup Inside

TypeOK ==
    /\ lock \in Records \cup {NoLock}
    /\ age \in 0..Stale
    /\ pc \in [Procs -> Places]
    /\ tok \in [Procs -> Tokens \cup {NoToken}]
    /\ waited \in [Procs -> 0..(Wait + 1)]
    /\ since \in [Procs -> 0..Beat]
    /\ crashes \in 0..MaxCrashes
    /\ stalls \in 0..MaxStalls
    /\ fresh \in SUBSET Procs
    /\ late \in [Procs -> BOOLEAN]
    /\ orphaned \in BOOLEAN
    /\ overrun \in BOOLEAN

Init ==
    /\ lock = NoLock /\ age = 0
    /\ pc = [p \in Procs |-> "idle"]
    /\ tok = [p \in Procs |-> NoToken]
    /\ waited = [p \in Procs |-> 0]
    /\ since = [p \in Procs |-> 0]
    /\ crashes = 0 /\ stalls = 0
    /\ fresh = {}
    /\ late = [p \in Procs |-> FALSE]
    /\ orphaned = FALSE
    /\ overrun = FALSE

\* Mutant: the record has no token.
RecOfPid(p) == [pid |-> p, token |-> NoToken]

Rec(p) == [pid |-> p, token |-> tok[p]]
Mine(p) == lock = Rec(p)
Alive(p) == pc[p] # "dead"

\* Mutants: the comparison with LOCK_STALE_MS turned round; no way past a
\* record whose holder is gone.
HeldInverted(p) == lock # NoLock /\ ~Mine(p) /\ age >= Stale /\ Alive(lock.pid)
HeldForever(p) == lock # NoLock /\ ~Mine(p)

\* The record keeps p out: another's, still fresh, of a pid that exists.
Held(p) ==
    /\ lock # NoLock
    /\ ~Mine(p)
    /\ age < Stale
    /\ Alive(lock.pid)

Expired(p) == waited[p] > Wait

\* randomBytes(8) does not hit a token that somebody remembers.  Tokens are only
\* compared, so it makes no difference which of the others it draws.
UsedTokens ==
    {tok[p] : p \in Procs} \cup (IF lock = NoLock THEN {} ELSE {lock.token})
NewToken == CHOOSE t \in Tokens : t \notin UsedTokens

Goto(p, place) == pc' = [pc EXCEPT ![p] = place]

\* The attempt is over and its variables with it.
Forget(p) ==
    /\ tok' = [tok EXCEPT ![p] = NoToken]
    /\ waited' = [waited EXCEPT ![p] = 0]
    /\ since' = [since EXCEPT ![p] = 0]
    /\ late' = [late EXCEPT ![p] = FALSE]
Idle(p) == Goto(p, "idle") /\ Forget(p)
Retry(p) == Goto(p, "sleep") /\ UNCHANGED <<tok, waited, since, late>>

\* A step that writes the store.  Everybody's last read is outdated by it, and
\* its own used up.
Overruns(p) ==
    \/ p \notin fresh
    \/ \E q \in Procs \ {p} : pc[q] \in Inside /\ Mine(q) /\ late[q]
Put(p, new) ==
    /\ lock' = new
    /\ age' = 0
    /\ fresh' = {}
    /\ orphaned' = FALSE
    /\ overrun' = (overrun \/ Overruns(p))

-----------------------------------------------------------------------------
(* Acquiring.                                                              *)

Begin(p) ==
    /\ pc[p] = "idle"
    /\ Tokens \ UsedTokens # {}
    /\ tok' = [tok EXCEPT ![p] = NewToken]
    /\ Goto(p, "look")
    /\ UNCHANGED <<lock, age, waited, since, crashes, stalls, fresh, late, orphaned, overrun>>

LookFree(p) ==
    /\ pc[p] = "look"
    /\ ~Held(p)
    /\ Goto(p, "write")
    /\ fresh' = fresh \cup {p}
    /\ UNCHANGED <<lock, age, tok, waited, since, crashes, stalls, late, orphaned, overrun>>

LookHeld(p) ==
    /\ pc[p] = "look"
    /\ Held(p)
    /\ IF Expired(p) THEN Idle(p) ELSE Retry(p)
    /\ UNCHANGED <<lock, age, crashes, stalls, fresh, orphaned, overrun>>

Write(p) ==
    /\ pc[p] = "write"
    /\ Put(p, Rec(p))
    /\ Goto(p, "check")
    /\ late' = [late EXCEPT ![p] = FALSE]
    /\ UNCHANGED <<tok, waited, since, crashes, stalls>>

\* The second read decides; the heartbeat timer starts on entry.
CheckMine(p) ==
    /\ pc[p] = "check"
    /\ Mine(p)
    /\ Goto(p, "fn")
    /\ waited' = [waited EXCEPT ![p] = 0]
    /\ since' = [since EXCEPT ![p] = 0]
    /\ UNCHANGED <<lock, age, tok, crashes, stalls, fresh, late, orphaned, overrun>>

CheckLost(p) ==
    /\ pc[p] = "check"
    /\ ~Mine(p)
    /\ IF Expired(p) THEN Idle(p) ELSE Retry(p)
    /\ UNCHANGED <<lock, age, crashes, stalls, fresh, orphaned, overrun>>

-----------------------------------------------------------------------------
(* The heartbeat and the release: each reads, and writes only its own.     *)

BeatRead(p) ==
    /\ pc[p] = "fn"
    /\ since[p] = Beat
    /\ \/ /\ Mine(p)
          /\ Goto(p, "beat")
          /\ fresh' = fresh \cup {p}
          /\ UNCHANGED since
       \/ /\ ~Mine(p)
          /\ since' = [since EXCEPT ![p] = 0]
          /\ UNCHANGED <<pc, fresh>>
    /\ UNCHANGED <<lock, age, tok, waited, crashes, stalls, late, orphaned, overrun>>

\* Mutant: the heartbeat writes the record back with its old timestamp.
BeatWriteStale(p) ==
    /\ pc[p] = "beat"
    /\ Goto(p, "fn")
    /\ since' = [since EXCEPT ![p] = 0]
    /\ late' = [late EXCEPT ![p] = FALSE]
    /\ fresh' = fresh \ {p}
    /\ UNCHANGED <<lock, age, tok, waited, crashes, stalls, orphaned, overrun>>

BeatWrite(p) ==
    /\ pc[p] = "beat"
    /\ Put(p, Rec(p))
    /\ Goto(p, "fn")
    /\ since' = [since EXCEPT ![p] = 0]
    /\ late' = [late EXCEPT ![p] = FALSE]
    /\ UNCHANGED <<tok, waited, crashes, stalls>>

\* fn returned or threw; finally.
Finish(p) ==
    /\ pc[p] = "fn"
    /\ \/ /\ Mine(p)
          /\ Goto(p, "unlock")
          /\ fresh' = fresh \cup {p}
          /\ UNCHANGED <<tok, waited, since, late>>
       \/ ~Mine(p) /\ Idle(p) /\ UNCHANGED fresh
    /\ UNCHANGED <<lock, age, crashes, stalls, orphaned, overrun>>

\* Mutant: the record is left behind.
UnlockLeaves(p) ==
    /\ pc[p] = "unlock"
    /\ Idle(p)
    /\ fresh' = fresh \ {p}
    /\ UNCHANGED <<lock, age, crashes, stalls, orphaned, overrun>>

Unlock(p) ==
    /\ pc[p] = "unlock"
    /\ Put(p, NoLock)
    /\ Idle(p)
    /\ UNCHANGED <<crashes, stalls>>

-----------------------------------------------------------------------------
(* Processes die and their pids come back; time passes.                    *)

Crash(p) ==
    /\ Alive(p) /\ crashes < MaxCrashes
    /\ Goto(p, "dead")
    /\ Forget(p)
    /\ crashes' = crashes + 1
    /\ fresh' = fresh \ {p}
    /\ orphaned' = (orphaned \/ Mine(p))
    /\ UNCHANGED <<lock, age, stalls, overrun>>

\* The pid exists again: the restarted panel, or any process that got it.
Restart(p) ==
    /\ pc[p] = "dead"
    /\ Goto(p, "idle")
    /\ UNCHANGED <<lock, age, tok, waited, since, crashes, stalls, fresh, late, orphaned, overrun>>

\* What a responsive event loop does not let a period pass over.
Overdue(p) ==
    \/ pc[p] \in {"look", "write", "check", "beat", "unlock"}
    \/ pc[p] = "fn" /\ since[p] = Beat

UpTo(bound, n) == IF n < bound THEN n + 1 ELSE n

Tick ==
    /\ IF \E p \in Procs : Overdue(p)
       THEN stalls < MaxStalls /\ stalls' = stalls + 1
       ELSE UNCHANGED stalls
    /\ age' = IF lock = NoLock THEN age ELSE UpTo(Stale, age)
    /\ late' = [p \in Procs |-> late[p] \/ Overdue(p)]
    /\ waited' = [p \in Procs |->
                    IF pc[p] \in Trying THEN UpTo(Wait + 1, waited[p]) ELSE waited[p]]
    /\ since' = [p \in Procs |->
                   IF pc[p] \in Inside THEN UpTo(Beat, since[p]) ELSE since[p]]
    /\ pc' = [p \in Procs |-> IF pc[p] = "sleep" THEN "look" ELSE pc[p]]
    /\ UNCHANGED <<lock, tok, crashes, fresh, orphaned, overrun>>

Attempt(p) == LookFree(p) \/ LookHeld(p) \/ Write(p) \/ CheckMine(p) \/ CheckLost(p)
Holding(p) == BeatRead(p) \/ BeatWrite(p) \/ Finish(p) \/ Unlock(p)

Next ==
    \/ \E p \in Procs :
         \/ Begin(p) \/ LookFree(p) \/ LookHeld(p) \/ Write(p) \/ CheckMine(p) \/ CheckLost(p)
         \/ BeatRead(p) \/ BeatWrite(p) \/ Finish(p) \/ Unlock(p)
         \/ Crash(p) \/ Restart(p)
    \/ Tick

Spec == Init /\ [][Next]_vars

\* Event loops run what is ready and timers fire; the pipeline inside the
\* lock ends (every command it runs has a timeout).  A period passes although
\* steps that take no time keep happening.  Somebody asks for a
\* deploy again, and procd restarts a panel that died.
Fairness ==
    /\ SF_vars(Tick)
    /\ \A p \in Procs :
         /\ WF_vars(Attempt(p))
         /\ WF_vars(BeatWrite(p) \/ Unlock(p))
         /\ SF_vars(Finish(p))
         /\ WF_vars(Begin(p))
         /\ WF_vars(Restart(p))

FairSpec == Spec /\ Fairness

-----------------------------------------------------------------------------
(* Properties.                                                             *)

\* Two processes run the pipeline at once only after the record was
\* replaced by somebody acting on a read that was no longer true, or taken
\* from a holder that had been stalled.  Without such a step the lock
\* excludes (the look-write-look protocol of withDeployLock).
ExclusionUnlessOverrun ==
    overrun \/ \A p, q \in Procs : pc[p] \in Inside /\ pc[q] \in Inside => p = q

\* A record belongs to an attempt that is under way and will release it: no path out
\* of withDeployLock, failed, lost or finished, leaves it behind.  Only a process that
\* died leaves its record, and nobody takes that one for his own, refreshes it or
\* releases it, also not who comes back with its pid (deploy-runner.mjs:306-308); so
\* it grows stale.
NoOrphanRecord ==
    lock # NoLock =>
        IF orphaned THEN \A p \in Procs : ~Mine(p)
        ELSE Mine(lock.pid) /\ pc[lock.pid] \in {"check"} \cup Inside

\* A holder whose event loop is alive keeps its record: heartbeats keep it
\* younger than LOCK_STALE_MS, so whoever replaces or deletes it decided on
\* a read made before the record was last written.
LiveHolderKept ==
    [][\A p \in Procs :
          (/\ pc[p] \in Inside /\ pc'[p] = pc[p]
           /\ Mine(p) /\ ~late[p]
           /\ lock' # lock)
          => \E q \in Procs \ {p} : pc'[q] # pc[q] /\ q \notin fresh]_vars

\* Every attempt comes to an end: it gets in, gives up after LOCK_WAIT_MS,
\* or dies.
AttemptsEnd ==
    \A p \in Procs : pc[p] \in Trying ~> pc[p] \notin Trying

\* Neither a killed holder nor a pid that came back under its record locks
\* deploys out for good: again and again somebody gets in.
LockNeverWedges == []<>(\E p \in Procs : pc[p] = "fn")

\* The lock locks nobody out: both of these.
NobodyLockedOut == AttemptsEnd /\ LockNeverWedges

\* withDeployLock implements the promise its callers rely on: nobody enters
\* while somebody is inside, until an overrun.
E == INSTANCE Exclusive WITH
        inside <- {p \in Procs : pc[p] \in Inside},
        broken <- overrun

ImplementsExclusive == E!Spec
=============================================================================
