-------------------------- MODULE DeployLockProofs --------------------------
(***************************************************************************)
(* Proofs about DeployLock, for any number of processes and any timing      *)
(* constants with the heartbeat shorter than the staleness limit.           *)
(***************************************************************************)
EXTENDS DeployLock, TLAPS

\* A process has a token exactly while it is in withDeployLock, and no two
\* share one.
Named ==
    /\ \A p \in Procs : pc[p] \in {"idle", "dead"} <=> tok[p] = NoToken
    /\ \A p, q \in Procs : tok[p] = tok[q] /\ p # q => tok[p] = NoToken

\* A record is its writer's only from its write on, and while the writer
\* was not stalled it is no older than the writer's heartbeat timer.
Refreshed ==
    \A p \in Procs : Mine(p) =>
        /\ pc[p] \in {"check"} \cup Inside
        /\ ~late[p] => IF pc[p] = "check" THEN age = 0 ELSE age <= since[p]

\* A decision to write, refresh or delete that is still up to date: the
\* record is nobody's, or of a stalled process; or the decider's own.
Decided ==
    \A q \in fresh :
        /\ pc[q] = "write" => \A p \in Procs \ {q} : Mine(p) => late[p]
        /\ pc[q] \in {"beat", "unlock"} => Mine(q)

InsideMine == ~overrun => \A p \in Procs : pc[p] \in Inside => Mine(p)

\* The record is its writer's, or its writer is dead and it is nobody's.
Owned == lock # NoLock => IF orphaned THEN \A p \in Procs : ~Mine(p) ELSE Mine(lock.pid)

IInv == TypeOK /\ Named /\ Refreshed /\ Decided /\ InsideMine /\ Owned

-----------------------------------------------------------------------------
(* The record names its owner.                                             *)
LEMMA MineUnique ==
    ASSUME NEW p \in Procs, NEW q \in Procs, Mine(p), Mine(q)
    PROVE  p = q
  BY DEF Mine, Rec

LEMMA RecInRecords ==
    ASSUME TypeOK, NEW p \in Procs, tok[p] # NoToken
    PROVE  Rec(p) \in Records /\ Rec(p) # NoLock
  BY NamesAssumption DEF TypeOK, Rec, Records

LEMMA InitIInv == Init => IInv
  <1> SUFFICES ASSUME Init PROVE IInv
    OBVIOUS
  <1> USE DEF Init
  <1>1. \A p \in Procs : ~Mine(p)
    <2> SUFFICES ASSUME NEW p \in Procs PROVE NoLock # [pid |-> p, token |-> NoToken]
      BY DEF Mine, Rec
    <2> QED
      BY NamesAssumption
  <1>2. TypeOK
    <2>1. 0 \in 0..Stale /\ 0 \in 0..(Wait + 1) /\ 0 \in 0..Beat
      BY TimesAssumption
    <2>2. 0 \in 0..MaxCrashes /\ 0 \in 0..MaxStalls
      BY TimesAssumption
    <2> QED
      BY <2>1, <2>2 DEF TypeOK, Places, Trying, Inside
  <1>3. Named
    BY DEF Named
  <1>4. Refreshed
    BY <1>1 DEF Refreshed
  <1>5. Decided /\ InsideMine /\ Owned
    BY DEF Decided, InsideMine, Owned, Inside
  <1> QED
    BY <1>2, <1>3, <1>4, <1>5 DEF IInv

(* The token of an attempt is nobody else's.                               *)
LEMMA FreshToken ==
    ASSUME Tokens \ UsedTokens # {}
    PROVE  NewToken \in Tokens \ UsedTokens
  BY DEF NewToken

LEMMA IdleTypes ==
    ASSUME TypeOK, NEW p \in Procs, Idle(p)
    PROVE  /\ pc' \in [Procs -> Places]
           /\ tok' \in [Procs -> Tokens \cup {NoToken}]
           /\ waited' \in [Procs -> 0..(Wait + 1)]
           /\ since' \in [Procs -> 0..Beat]
           /\ late' \in [Procs -> BOOLEAN]
  BY TimesAssumption DEF TypeOK, Idle, Forget, Goto, Places

LEMMA PutTypes ==
    ASSUME TypeOK, NEW p \in Procs, NEW new \in Records \cup {NoLock}, Put(p, new)
    PROVE  /\ lock' \in Records \cup {NoLock} /\ age' \in 0..Stale /\ fresh' \in SUBSET Procs
           /\ orphaned' \in BOOLEAN /\ overrun' \in BOOLEAN
  <1>1. overrun' \in BOOLEAN
    BY DEF Put
  <1>2. lock' \in Records \cup {NoLock} /\ age' \in 0..Stale /\ fresh' \in SUBSET Procs
    BY TimesAssumption DEF Put
  <1>3. orphaned' \in BOOLEAN
    BY DEF Put
  <1> QED
    BY <1>1, <1>2, <1>3

(* The types, one action at a time.                                        *)
LEMMA TypeStep == IInv /\ [Next]_vars => TypeOK'
  <1> SUFFICES ASSUME IInv, [Next]_vars PROVE TypeOK'
    OBVIOUS
  <1> USE TimesAssumption DEF IInv, TypeOK, Goto, Places, Trying, Inside
  <1>1. ASSUME NEW p \in Procs, Begin(p) PROVE TypeOK'
    BY <1>1, FreshToken DEF Begin
  <1>2. ASSUME NEW p \in Procs, LookFree(p) PROVE TypeOK'
    BY <1>2 DEF LookFree
  <1>3. ASSUME NEW p \in Procs, LookHeld(p) PROVE TypeOK'
    <2>1. CASE Idle(p)
      BY <1>3, <2>1, IdleTypes DEF LookHeld
    <2>2. CASE Retry(p)
      BY <1>3, <2>2 DEF LookHeld, Retry
    <2> QED
      BY <1>3, <2>1, <2>2 DEF LookHeld
  <1>4. ASSUME NEW p \in Procs, Write(p) PROVE TypeOK'
    <2>1. Rec(p) \in Records
      BY <1>4, RecInRecords DEF Write, Named
    <2> QED
      BY <1>4, <2>1, PutTypes DEF Write
  <1>5. ASSUME NEW p \in Procs, CheckMine(p) PROVE TypeOK'
    BY <1>5 DEF CheckMine
  <1>6. ASSUME NEW p \in Procs, CheckLost(p) PROVE TypeOK'
    <2>1. CASE Idle(p)
      BY <1>6, <2>1, IdleTypes DEF CheckLost
    <2>2. CASE Retry(p)
      BY <1>6, <2>2 DEF CheckLost, Retry
    <2> QED
      BY <1>6, <2>1, <2>2 DEF CheckLost
  <1>7. ASSUME NEW p \in Procs, BeatRead(p) PROVE TypeOK'
    BY <1>7 DEF BeatRead
  <1>8. ASSUME NEW p \in Procs, BeatWrite(p) PROVE TypeOK'
    <2>1. Rec(p) \in Records
      BY <1>8, RecInRecords DEF BeatWrite, Named
    <2> QED
      BY <1>8, <2>1, PutTypes DEF BeatWrite
  <1>9. ASSUME NEW p \in Procs, Finish(p) PROVE TypeOK'
    <2>1. CASE Idle(p)
      BY <1>9, <2>1, IdleTypes DEF Finish
    <2>2. CASE Mine(p)
      BY <1>9, <2>2 DEF Finish
    <2> QED
      BY <1>9, <2>1, <2>2 DEF Finish
  <1>10. ASSUME NEW p \in Procs, Unlock(p) PROVE TypeOK'
    BY <1>10, PutTypes, IdleTypes DEF Unlock
  <1>11. ASSUME NEW p \in Procs, Crash(p) PROVE TypeOK'
    BY <1>11 DEF Crash, Forget
  <1>12. ASSUME NEW p \in Procs, Restart(p) PROVE TypeOK'
    BY <1>12 DEF Restart
  <1>13. CASE Tick
    BY <1>13 DEF Tick, UpTo, Overdue
  <1>14. CASE UNCHANGED vars
    BY <1>14 DEF vars
  <1> QED
    BY <1>1, <1>2, <1>3, <1>4, <1>5, <1>6, <1>7, <1>8, <1>9, <1>10, <1>11, <1>12, <1>13, <1>14
    DEF Next

-----------------------------------------------------------------------------
(* A step that leaves record and tokens alone leaves the owners alone.     *)
LEMMA SameOwner ==
    ASSUME UNCHANGED <<lock, tok>>, NEW p \in Procs
    PROVE  Mine(p)' <=> Mine(p)
  BY DEF Mine, Rec

(* A record that stays, with its owner, stays his.                         *)
LEMMA SameRecord ==
    ASSUME TypeOK, Owned, UNCHANGED <<lock, orphaned>>, \A q \in Procs : Mine(q)' <=> Mine(q)
    PROVE  Owned'
  BY DEF TypeOK, Owned, Records

(* A record that has just been written is its writer's.                    *)
LEMMA OwnRecord ==
    ASSUME NEW p \in Procs, UNCHANGED tok, lock' = Rec(p), orphaned' = FALSE
    PROVE  Owned'
  BY DEF Owned, Mine, Rec

(* Who has no token owns no record.                                        *)
LEMMA OwnerHasToken ==
    ASSUME TypeOK, NEW p \in Procs, Mine(p)
    PROVE  tok[p] # NoToken
  BY NamesAssumption DEF TypeOK, Mine, Rec, Records

LEMMA BeginStep ==
    ASSUME IInv, NEW p \in Procs, Begin(p)
    PROVE  Named' /\ Refreshed' /\ Decided' /\ InsideMine' /\ Owned'
  <1> USE DEF IInv, TypeOK, Begin, Goto
  <1>1. PICK t \in Tokens \ UsedTokens : tok' = [tok EXCEPT ![p] = t]
    BY FreshToken
  <1>2. tok[p] = NoToken /\ \A q \in Procs : tok[q] # t
    BY DEF Named, UsedTokens
  <1>3. \A q \in Procs : q # p => (Mine(q)' <=> Mine(q))
    BY <1>1 DEF Mine, Rec
  <1>4. ~Mine(p)' /\ ~Mine(p)
    <2>1. ~Mine(p)
      BY <1>2, OwnerHasToken
    <2>2. lock # [pid |-> p, token |-> t]
      BY NamesAssumption DEF UsedTokens
    <2> QED
      BY <1>1, <2>1, <2>2 DEF Mine, Rec
  <1>5. Named'
    BY <1>1, <1>2, NamesAssumption DEF Named
  <1>6. Refreshed'
    BY <1>3, <1>4 DEF Refreshed
  <1>7. Decided'
    BY <1>3, <1>4 DEF Decided
  <1>8. InsideMine'
    BY <1>3 DEF InsideMine, Inside
  <1>9. Owned'
    BY <1>3, <1>4, SameRecord
  <1> QED
    BY <1>5, <1>6, <1>7, <1>8, <1>9

(* Giving up: after a look that found another's record.                    *)
LEMMA LookHeldStep ==
    ASSUME IInv, NEW p \in Procs, LookHeld(p) \/ CheckLost(p)
    PROVE  Named' /\ Refreshed' /\ Decided' /\ InsideMine' /\ Owned'
  <1> USE DEF IInv, TypeOK, LookHeld, CheckLost, Idle, Forget, Retry, Goto
  <1>1. ~Mine(p)
    BY DEF Held
  <1>2. \A q \in Procs : q # p => (Mine(q)' <=> Mine(q))
    BY DEF Mine, Rec
  <1>3. ~Mine(p)'
    BY <1>1, NamesAssumption DEF Mine, Rec, Records
  <1>4. pc'[p] \in {"idle", "sleep"} /\ \A q \in Procs : q # p => pc'[q] = pc[q]
    OBVIOUS
  <1>5. Named'
    BY NamesAssumption DEF Named
  <1>6. Refreshed'
    BY <1>2, <1>3, <1>4 DEF Refreshed
  <1>7. Decided'
    BY <1>2, <1>3, <1>4 DEF Decided
  <1>8. InsideMine'
    BY <1>2, <1>4 DEF InsideMine, Inside
  <1>9. Owned'
    BY <1>1, <1>2, <1>3, SameRecord
  <1> QED
    BY <1>5, <1>6, <1>7, <1>8, <1>9

(* A look that finds the record free of a responsive owner.                *)
LEMMA LookFreeStep ==
    ASSUME IInv, NEW p \in Procs, LookFree(p)
    PROVE  Named' /\ Refreshed' /\ Decided' /\ InsideMine' /\ Owned'
  <1> USE DEF IInv, TypeOK, LookFree, Goto
  <1>1. \A q \in Procs : Mine(q)' <=> Mine(q)
    BY SameOwner
  <1>2. ASSUME NEW q \in Procs \ {p}, Mine(q) PROVE late[q]
    <2>1. lock # NoLock /\ lock.pid = q /\ ~Mine(p)
      BY <1>2, RecInRecords, OwnerHasToken, MineUnique DEF Mine, Rec
    <2>2. pc[q] \in {"check"} \cup Inside /\ Alive(q)
      BY <1>2 DEF Refreshed, Alive, Inside
    <2>3. age = Stale
      BY <2>1, <2>2, TimesAssumption DEF Held
    <2> QED
      BY <1>2, <2>2, <2>3, TimesAssumption DEF Refreshed
  <1>3. Named'
    BY DEF Named
  <1>4. Refreshed'
    BY <1>1 DEF Refreshed, Inside
  <1>5. Decided'
    BY <1>1, <1>2 DEF Decided
  <1>6. InsideMine'
    BY <1>1 DEF InsideMine, Inside
  <1>7. Owned'
    BY <1>1, SameRecord
  <1> QED
    BY <1>3, <1>4, <1>5, <1>6, <1>7

(* What a write of one's own record does to everybody's ownership.         *)
LEMMA PutMine ==
    ASSUME NEW p \in Procs, UNCHANGED tok, lock' = Rec(p)
    PROVE  Mine(p)' /\ \A q \in Procs \ {p} : ~Mine(q)'
  BY DEF Mine, Rec

(* The write is the one step that may displace a holder.                   *)
LEMMA WriteStep ==
    ASSUME IInv, NEW p \in Procs, Write(p)
    PROVE  Named' /\ Refreshed' /\ Decided' /\ InsideMine' /\ Owned'
  <1> USE DEF IInv, TypeOK, Write, Put, Goto
  <1>1. Mine(p)' /\ \A q \in Procs \ {p} : ~Mine(q)'
    BY PutMine
  <1>2. Named'
    BY DEF Named
  <1>3. Refreshed'
    BY <1>1 DEF Refreshed
  <1>4. Decided'
    BY <1>1 DEF Decided
  <1>5. ASSUME ~overrun', NEW q \in Procs, pc'[q] \in Inside PROVE Mine(q)'
    <2>1. q # p /\ pc[q] \in Inside
      BY <1>5 DEF Inside
    <2>2. p \in fresh /\ Mine(q) /\ ~late[q]
      BY <1>5, <2>1 DEF InsideMine, Overruns
    <2>3. late[q]
      BY <2>1, <2>2 DEF Decided
    <2> QED
      BY <2>2, <2>3
  <1>6. Owned'
    BY OwnRecord
  <1> QED
    BY <1>2, <1>3, <1>4, <1>5, <1>6 DEF InsideMine

LEMMA CheckMineStep ==
    ASSUME IInv, NEW p \in Procs, CheckMine(p)
    PROVE  Named' /\ Refreshed' /\ Decided' /\ InsideMine' /\ Owned'
  <1> USE DEF IInv, TypeOK, CheckMine, Goto
  <1>1. \A q \in Procs : Mine(q)' <=> Mine(q)
    BY SameOwner
  <1>2. \A q \in Procs \ {p} : ~Mine(q)
    BY MineUnique
  <1>3. Named'
    BY DEF Named
  <1>4. Refreshed'
    BY <1>1, <1>2 DEF Refreshed, Inside
  <1>5. Decided'
    BY <1>1, <1>2 DEF Decided
  <1>6. InsideMine'
    BY <1>1 DEF InsideMine
  <1>7. Owned'
    BY <1>1, SameRecord
  <1> QED
    BY <1>3, <1>4, <1>5, <1>6, <1>7

LEMMA BeatReadStep ==
    ASSUME IInv, NEW p \in Procs, BeatRead(p)
    PROVE  Named' /\ Refreshed' /\ Decided' /\ InsideMine' /\ Owned'
  <1> USE DEF IInv, TypeOK, BeatRead, Goto
  <1>1. \A q \in Procs : Mine(q)' <=> Mine(q)
    BY SameOwner
  <1>2. pc[p] = "fn" /\ pc'[p] \in {"fn", "beat"} /\ (pc'[p] = "beat" => Mine(p))
    OBVIOUS
  <1>3. Named'
    BY <1>2 DEF Named
  <1>4. Refreshed'
    BY <1>1, <1>2 DEF Refreshed, Inside
  <1>5. Decided'
    BY <1>1, <1>2 DEF Decided
  <1>6. InsideMine'
    BY <1>1, <1>2 DEF InsideMine, Inside
  <1>7. Owned'
    BY <1>1, SameRecord
  <1> QED
    BY <1>3, <1>4, <1>5, <1>6, <1>7

(* A refresh displaces nobody unless its own read was outdated.            *)
LEMMA BeatWriteStep ==
    ASSUME IInv, NEW p \in Procs, BeatWrite(p)
    PROVE  Named' /\ Refreshed' /\ Decided' /\ InsideMine' /\ Owned'
  <1> USE DEF IInv, TypeOK, BeatWrite, Put, Goto
  <1>1. Mine(p)' /\ \A q \in Procs \ {p} : ~Mine(q)'
    BY PutMine
  <1>2. Named'
    BY DEF Named
  <1>3. Refreshed'
    BY <1>1 DEF Refreshed, Inside
  <1>4. Decided'
    BY <1>1 DEF Decided
  <1>5. ASSUME ~overrun', NEW q \in Procs, pc'[q] \in Inside PROVE Mine(q)'
    <2>1. p \in fresh /\ ~overrun
      BY <1>5 DEF Overruns
    <2>2. Mine(p)
      BY <2>1 DEF Decided
    <2>3. q # p => Mine(q)
      BY <1>5, <2>1 DEF InsideMine
    <2> QED
      BY <1>1, <2>2, <2>3, MineUnique
  <1>6. Owned'
    BY OwnRecord
  <1> QED
    BY <1>2, <1>3, <1>4, <1>5, <1>6 DEF InsideMine

LEMMA FinishStep ==
    ASSUME IInv, NEW p \in Procs, Finish(p)
    PROVE  Named' /\ Refreshed' /\ Decided' /\ InsideMine' /\ Owned'
  <1> USE DEF IInv, TypeOK, Finish, Idle, Forget, Goto
  <1>1. \A q \in Procs : q # p => (Mine(q)' <=> Mine(q))
    BY DEF Mine, Rec
  <1>2. CASE Mine(p) /\ pc' = [pc EXCEPT ![p] = "unlock"] /\ UNCHANGED tok
    <2>1. Mine(p)'
      BY <1>2, SameOwner
    <2>2. Named' /\ Owned'
      BY <1>1, <1>2, <2>1, SameRecord DEF Named
    <2>3. Refreshed'
      BY <1>1, <1>2, <2>1 DEF Refreshed, Inside
    <2>4. Decided'
      BY <1>1, <1>2, <2>1 DEF Decided
    <2>5. InsideMine'
      BY <1>1, <1>2, <2>1 DEF InsideMine, Inside
    <2> QED
      BY <2>2, <2>3, <2>4, <2>5
  <1>3. CASE ~Mine(p) /\ Idle(p)
    <2>1. ~Mine(p)'
      BY <1>3, NamesAssumption DEF Mine, Rec, Records
    <2>2. Named'
      BY <1>3, NamesAssumption DEF Named
    <2>3. Owned'
      BY <1>1, <1>3, <2>1, SameRecord
    <2>4. Refreshed'
      BY <1>1, <1>3, <2>1 DEF Refreshed
    <2>5. Decided'
      BY <1>1, <1>3, <2>1 DEF Decided
    <2>6. InsideMine'
      BY <1>1, <1>3 DEF InsideMine, Inside
    <2> QED
      BY <2>2, <2>3, <2>4, <2>5, <2>6
  <1> QED
    BY <1>2, <1>3

(* Deleting the record: like a refresh, harmless on an up-to-date read.    *)
LEMMA UnlockStep ==
    ASSUME IInv, NEW p \in Procs, Unlock(p)
    PROVE  Named' /\ Refreshed' /\ Decided' /\ InsideMine' /\ Owned'
  <1> USE DEF IInv, TypeOK, Unlock, Put, Idle, Forget, Goto
  <1>1. \A q \in Procs : ~Mine(q)'
    BY NamesAssumption DEF Mine, Rec
  <1>2. Named'
    BY NamesAssumption DEF Named
  <1>3. Refreshed' /\ Decided' /\ Owned'
    BY <1>1 DEF Refreshed, Decided, Owned
  <1>4. ASSUME ~overrun', NEW q \in Procs, pc'[q] \in Inside PROVE Mine(q)'
    <2>1. p \in fresh /\ ~overrun /\ q # p
      BY <1>4 DEF Overruns, Inside
    <2>2. Mine(p) /\ Mine(q)
      BY <1>4, <2>1 DEF Decided, InsideMine
    <2> QED
      BY <2>1, <2>2, MineUnique
  <1> QED
    BY <1>2, <1>3, <1>4 DEF InsideMine

LEMMA CrashStep ==
    ASSUME IInv, NEW p \in Procs, Crash(p) \/ Restart(p)
    PROVE  Named' /\ Refreshed' /\ Decided' /\ InsideMine' /\ Owned'
  <1> USE DEF IInv, TypeOK, Crash, Restart, Forget, Goto
  <1>1. \A q \in Procs : q # p => (Mine(q)' <=> Mine(q))
    BY DEF Mine, Rec
  <1>2. ~Mine(p)'
    BY NamesAssumption DEF Mine, Rec, Records, Named
  <1>3. pc'[p] \in {"idle", "dead"} /\ tok'[p] = NoToken
    BY DEF Named
  <1>4. \A q \in Procs : q # p => pc'[q] = pc[q] /\ tok'[q] = tok[q]
    OBVIOUS
  <1>5. Named'
    BY <1>3, <1>4, NamesAssumption DEF Named
  <1>6. Refreshed'
    BY <1>1, <1>2, <1>4 DEF Refreshed
  <1>7. Decided'
    BY <1>1, <1>2, <1>3, <1>4 DEF Decided
  <1>8. InsideMine'
    BY <1>1, <1>3, <1>4 DEF InsideMine, Inside
  <1>9. Owned'
    <2>1. CASE Mine(p) /\ Crash(p)
      <3>1. orphaned' /\ \A q \in Procs : ~Mine(q)'
        BY <1>1, <1>2, <2>1, MineUnique
      <3> QED
        BY <3>1 DEF Owned
    <2>2. CASE ~Mine(p) \/ Restart(p)
      <3>1. UNCHANGED <<lock, orphaned>> /\ ~Mine(p)
        BY <2>2, NamesAssumption DEF Named, Mine, Rec, Records
      <3> QED
        BY <1>1, <1>2, <3>1, SameRecord
    <2> QED
      BY <2>1, <2>2
  <1> QED
    BY <1>5, <1>6, <1>7, <1>8, <1>9

(* A period passes: an owner whose record could outgrow its timer is late. *)
LEMMA TickStep ==
    ASSUME IInv, Tick
    PROVE  Named' /\ Refreshed' /\ Decided' /\ InsideMine' /\ Owned'
  <1> USE DEF IInv, TypeOK, Tick
  <1>1. \A q \in Procs : Mine(q)' <=> Mine(q)
    BY SameOwner
  <1>2. \A q \in Procs : pc'[q] = pc[q] \/ (pc[q] = "sleep" /\ pc'[q] = "look")
    OBVIOUS
  <1>3. Named'
    BY <1>2 DEF Named
  <1>4. ASSUME NEW q \in Procs, Mine(q)'
        PROVE  /\ pc'[q] \in {"check"} \cup Inside
               /\ ~late'[q] => IF pc'[q] = "check" THEN age' = 0 ELSE age' <= since'[q]
    <2>1. pc[q] \in {"check"} \cup Inside /\ pc'[q] = pc[q]
      BY <1>1, <1>2, <1>4 DEF Refreshed, Inside
    <2>2. ASSUME ~late'[q] PROVE pc'[q] # "check" /\ age' <= since'[q]
      <3>1. pc[q] = "fn" /\ since[q] # Beat /\ ~late[q]
        BY <2>1, <2>2 DEF Overdue, Inside
      <3>2. age <= since[q] /\ since'[q] = since[q] + 1
        BY <1>1, <1>4, <3>1, TimesAssumption DEF Refreshed, UpTo, Inside
      <3> QED
        BY <2>1, <3>1, <3>2, TimesAssumption DEF UpTo
    <2> QED
      BY <2>1, <2>2
  <1>5. Decided'
    BY <1>1, <1>2 DEF Decided
  <1>6. InsideMine'
    BY <1>1, <1>2 DEF InsideMine, Inside
  <1>7. Owned'
    BY <1>1, SameRecord
  <1> QED
    BY <1>3, <1>4, <1>5, <1>6, <1>7 DEF Refreshed

LEMMA StutterStep ==
    ASSUME IInv, UNCHANGED vars
    PROVE  Named' /\ Refreshed' /\ Decided' /\ InsideMine' /\ Owned'
  BY DEF IInv, vars, Named, Refreshed, Decided, InsideMine, Owned, Mine, Rec

LEMMA NextIInv == IInv /\ [Next]_vars => IInv'
  <1> SUFFICES ASSUME IInv, [Next]_vars PROVE Named' /\ Refreshed' /\ Decided' /\ InsideMine' /\ Owned'
    BY TypeStep DEF IInv
  <1> QED
    BY BeginStep, LookHeldStep, LookFreeStep, WriteStep, CheckMineStep, BeatReadStep,
       BeatWriteStep, FinishStep, UnlockStep, CrashStep, TickStep, StutterStep
    DEF Next

-----------------------------------------------------------------------------
THEOREM Invariance == Spec => []IInv
  BY InitIInv, NextIInv, PTL DEF Spec

\* Every variable of the lock keeps its type.
THEOREM TypeCorrect == Spec => []TypeOK
  BY Invariance, PTL DEF IInv

\* The look-write-look protocol excludes, for any number of processes, until
\* a step acts on an outdated read or takes over from a stalled holder.
THEOREM Exclusion == Spec => []ExclusionUnlessOverrun
  <1>1. IInv => ExclusionUnlessOverrun
    BY MineUnique DEF IInv, InsideMine, ExclusionUnlessOverrun
  <1> QED
    BY <1>1, Invariance, PTL

\* No record outlives the attempt that wrote it, unless its process was killed; and
\* that one is nobody's, whoever comes back with the pid of the dead.
THEOREM NoOrphan == Spec => []NoOrphanRecord
  <1>1. IInv => NoOrphanRecord
    BY DEF IInv, TypeOK, Refreshed, Owned, NoOrphanRecord, Records
  <1> QED
    BY <1>1, Invariance, PTL

\* A holder that was not stalled loses its record only to a process whose
\* decision predates the record (heartbeats beat LOCK_STALE_MS).
THEOREM HolderKept == Spec => LiveHolderKept
  <1> DEFINE Kept(p) ==
        (/\ pc[p] \in Inside /\ pc'[p] = pc[p]
         /\ Mine(p) /\ ~late[p]
         /\ lock' # lock)
        => \E q \in Procs \ {p} : pc'[q] # pc[q] /\ q \notin fresh
  <1>1. ASSUME IInv, [Next]_vars, NEW p \in Procs PROVE Kept(p)
    <2> SUFFICES ASSUME pc[p] \in Inside, pc'[p] = pc[p], Mine(p), ~late[p], lock' # lock
                 PROVE  \E q \in Procs \ {p} : pc'[q] # pc[q] /\ q \notin fresh
      OBVIOUS
    <2>1. PICK q \in Procs : Write(q) \/ BeatWrite(q) \/ Unlock(q)
      BY <1>1 DEF Next, vars, Begin, LookFree, LookHeld, CheckMine, CheckLost, BeatRead,
                  Finish, Crash, Restart, Tick
    <2>2. pc'[q] # pc[q]
      BY <1>1, <2>1 DEF IInv, TypeOK, Write, BeatWrite, Unlock, Idle, Forget, Goto
    <2>3. ASSUME q \in fresh PROVE FALSE
      <3>1. CASE Write(q)
        BY <1>1, <2>2, <2>3, <3>1 DEF IInv, Decided, Write
      <3>2. CASE BeatWrite(q) \/ Unlock(q)
        BY <1>1, <2>2, <2>3, <3>2, MineUnique DEF IInv, Decided, BeatWrite, Unlock
      <3> QED
        BY <2>1, <3>1, <3>2
    <2> QED
      BY <2>2, <2>3
  <1>2. IInv /\ [Next]_vars => [\A p \in Procs : Kept(p)]_vars
    BY <1>1
  <1> QED
    BY <1>2, Invariance, PTL DEF Spec, LiveHolderKept

-----------------------------------------------------------------------------
(* The refinement: who is inside, and whether the lock was broken.         *)
In == {p \in Procs : pc[p] \in Inside}

(* A step that moves nobody in or out is a stutter or breaks the lock.     *)
LEMMA StaysIn ==
    ASSUME TypeOK, In' = In, overrun' = overrun \/ overrun' = TRUE
    PROVE  [E!Next]_<<In, overrun>>
  BY DEF E!Next, E!Break, In

LEMMA Leaves ==
    ASSUME TypeOK, NEW p \in Procs, p \in In, In' = In \ {p},
           overrun' = overrun \/ overrun' = TRUE
    PROVE  [E!Next]_<<In, overrun>>
  BY DEF E!Next, E!Leave, In

LEMMA StepImplements == IInv /\ [Next]_vars => [E!Next]_<<In, overrun>>
  <1> SUFFICES ASSUME IInv, [Next]_vars PROVE [E!Next]_<<In, overrun>>
    OBVIOUS
  <1> USE DEF IInv
  <1>1. ASSUME NEW p \in Procs,
               Begin(p) \/ LookFree(p) \/ LookHeld(p) \/ Write(p) \/ CheckLost(p)
                 \/ BeatRead(p) \/ BeatWrite(p) \/ Restart(p)
        PROVE  In' = In
    BY <1>1 DEF TypeOK, In, Inside, Begin, LookFree, LookHeld, Write, CheckLost, BeatRead,
                BeatWrite, Restart, Idle, Retry, Goto
  <1>2. ASSUME NEW p \in Procs,
               Begin(p) \/ LookFree(p) \/ LookHeld(p) \/ Write(p) \/ CheckLost(p)
                 \/ BeatRead(p) \/ BeatWrite(p) \/ Restart(p) \/ Unlock(p)
        PROVE  overrun' = overrun \/ overrun' = TRUE
    BY <1>2 DEF TypeOK, Begin, LookFree, LookHeld, Write, CheckLost, BeatRead, BeatWrite,
                Restart, Unlock, Put
  <1>3. ASSUME NEW p \in Procs, CheckMine(p) PROVE [E!Next]_<<In, overrun>>
    <2>1. p \notin In /\ In' = In \cup {p} /\ overrun' = overrun
      BY <1>3 DEF TypeOK, CheckMine, Goto, In, Inside
    <2>2. overrun \/ In = {}
      BY <1>3, <2>1, MineUnique DEF CheckMine, InsideMine, In
    <2> QED
      BY <2>1, <2>2 DEF E!Next, E!Enter, In
  <1>4. ASSUME NEW p \in Procs, Finish(p) PROVE [E!Next]_<<In, overrun>>
    <2>1. CASE Mine(p)
      <3>1. In' = In /\ overrun' = overrun
        BY <1>4, <2>1 DEF TypeOK, Finish, Goto, In, Inside
      <3> QED
        BY <3>1
    <2>2. CASE Idle(p)
      BY <1>4, <2>2, Leaves DEF TypeOK, Finish, Idle, Goto, In, Inside
    <2> QED
      BY <1>4, <2>1, <2>2 DEF Finish
  <1>5. ASSUME NEW p \in Procs, Unlock(p) PROVE [E!Next]_<<In, overrun>>
    <2>1. p \in In /\ In' = In \ {p}
      BY <1>5 DEF TypeOK, Unlock, Idle, Goto, In, Inside
    <2> QED
      BY <1>2, <1>5, <2>1, Leaves
  <1>6. ASSUME NEW p \in Procs, Crash(p) PROVE [E!Next]_<<In, overrun>>
    <2>1. In' = In \ {p} /\ overrun' = overrun
      BY <1>6 DEF TypeOK, Crash, Goto, In, Inside
    <2>2. CASE p \in In
      BY <2>1, <2>2, Leaves
    <2>3. CASE p \notin In
      BY <2>1, <2>3
    <2> QED
      BY <2>2, <2>3
  <1>7. CASE Tick
    BY <1>7 DEF TypeOK, Tick, In, Inside
  <1>8. CASE UNCHANGED vars
    BY <1>8 DEF vars, In
  <1> QED
    BY <1>1, <1>2, <1>3, <1>4, <1>5, <1>6, <1>7, <1>8, StaysIn DEF Next

\* withDeployLock implements the promise of Exclusive: until an overrun,
\* nobody enters while somebody is inside.
THEOREM Implements == Spec => ImplementsExclusive
  <1>1. Init => E!Init
    BY DEF Init, E!Init, Inside
  <1>2. IInv /\ [Next]_vars => [E!Next]_<<{p \in Procs : pc[p] \in Inside}, overrun>>
    BY StepImplements DEF In
  <1> QED
    BY <1>1, <1>2, Invariance, PTL DEF Spec, ImplementsExclusive, E!Spec
=============================================================================
