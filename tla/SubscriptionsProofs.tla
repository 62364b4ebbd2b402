------------------------ MODULE SubscriptionsProofs ------------------------
(***************************************************************************)
(* Proofs about Subscriptions, for any subscriptions, addresses, plans and  *)
(* any number of requests, changes upstream, failures, deaths of the panel  *)
(* and stops of the kernel.                                                 *)
(***************************************************************************)
EXTENDS Subscriptions, FiniteSetTheorems, SequenceTheorems, WellFoundedInduction, TLAPS

-----------------------------------------------------------------------------
(* Sequences that are put together of parts, and those of a list with some ids. *)

\* The elements of a list, their ids in order; each id is there once.
Els(L) == {L[i] : i \in DOMAIN L}
Names(L) == [i \in DOMAIN L |-> L[i].id]
Unique(L) == \A i, k \in DOMAIN L : L[i].id = L[k].id => i = k

\* A set of numbers with 0 and the successor of each has all of them: otherwise there is a
\* least one that is missing.
LEMMA Induction ==
    ASSUME NEW S, 0 \in S, \A n \in Nat : n \in S => n + 1 \in S
    PROVE  \A n \in Nat : n \in S
  <1> SUFFICES ASSUME NEW n \in Nat, n \notin S PROVE FALSE
    OBVIOUS
  <1> DEFINE Bad == {m \in Nat : m \notin S}
             R == OpToRel(<, Nat)
  <1>1. IsWellFoundedOn(R, Nat)
    BY NatLessThanWellFounded
  <1>2. Bad \subseteq Nat /\ Bad # {}
    OBVIOUS
  <1> HIDE DEF Bad, R
  <1>3. PICK m \in Bad : \A k \in Bad : ~(<<k, m>> \in R)
    BY <1>1, <1>2, WFMin
  <1>4. \A k \in Bad : ~(k < m)
    BY <1>2, <1>3 DEF R, OpToRel
  <1>5. m \in Nat /\ m \notin S /\ m # 0
    BY DEF Bad
  <1>6. m - 1 \in Nat /\ m - 1 < m /\ (m - 1) + 1 = m
    BY <1>5
  <1>7. m - 1 \in S
    BY <1>4, <1>6 DEF Bad
  <1> QED
    BY <1>5, <1>6, <1>7

\* The function by which FlattenSeq is defined, up to the n-th part.
Flattened(s, n, f) == f = [i \in 1 .. n |-> IF i = 1 THEN s[i] ELSE f[i - 1] \o s[i]]

\* The recursion of FlattenSeq has a solution for every length: that of one part less and one step.
LEMMA FlattenedExists == ASSUME NEW s PROVE \A n \in Nat : \E f : Flattened(s, n, f)
  <1> DEFINE S == {n \in Nat : \E f : Flattened(s, n, f)}
  <1>1. 0 \in S
    <2>1. Flattened(s, 0, [i \in 1 .. 0 |-> s[i]])
      BY DEF Flattened
    <2> QED
      BY <2>1
  <1>2. ASSUME NEW n \in Nat, n \in S PROVE n + 1 \in S
    <2>1. PICK f : Flattened(s, n, f)
      BY <1>2
    <2> DEFINE g == [i \in 1 .. n + 1 |-> IF i = 1 THEN s[i] ELSE f[i - 1] \o s[i]]
    <2>2. ASSUME NEW i \in 1 .. n PROVE g[i] = f[i]
      <3>1. f[i] = IF i = 1 THEN s[i] ELSE f[i - 1] \o s[i]
        BY <2>1 DEF Flattened
      <3>2. i \in 1 .. n + 1
        OBVIOUS
      <3> QED
        BY <3>1, <3>2
    <2>3. g = [i \in 1 .. n + 1 |-> IF i = 1 THEN s[i] ELSE g[i - 1] \o s[i]]
      <3>1. ASSUME NEW i \in 1 .. n + 1, i # 1 PROVE g[i - 1] = f[i - 1]
        <4>1. i - 1 \in 1 .. n
          BY <3>1
        <4> HIDE DEF g
        <4> QED
          BY <2>2, <4>1
      <3> QED
        BY <3>1
    <2>4. Flattened(s, n + 1, g)
      BY <2>3 DEF Flattened
    <2> HIDE DEF g
    <2> QED
      BY <2>4
  <1> HIDE DEF S
  <1>3. \A n \in Nat : n \in S
    BY <1>1, <1>2, Induction
  <1> QED
    BY <1>3 DEF S

\* FlattenSeq is that solution at the length of the sequence.
LEMMA FlattenSeqIs ==
    ASSUME NEW s, Len(s) \in Nat \ {0}
    PROVE  \E f : Flattened(s, Len(s), f) /\ FlattenSeq(s) = f[Len(s)]
  <1> DEFINE F == CHOOSE f : Flattened(s, Len(s), f)
  <1>1. Flattened(s, Len(s), F)
    BY FlattenedExists
  <1>2. FlattenSeq(s) = F[Len(s)]
    BY DEF FlattenSeq, Flattened
  <1> QED
    BY <1>1, <1>2

\* One part more is one part appended.
LEMMA FlattenMore ==
    ASSUME NEW n \in Nat \ {0}, NEW p, NEW q, Len(p) = n + 1, Len(q) = n,
           \A i \in 1 .. n : p[i] = q[i]
    PROVE  FlattenSeq(p) = FlattenSeq(q) \o p[n + 1]
  <1>1. PICK f : Flattened(p, n + 1, f) /\ FlattenSeq(p) = f[n + 1]
    BY FlattenSeqIs
  <1>2. PICK g : Flattened(q, n, g) /\ FlattenSeq(q) = g[n]
    BY FlattenSeqIs
  <1>3. \A i \in 1 .. n + 1 : f[i] = IF i = 1 THEN p[i] ELSE f[i - 1] \o p[i]
    BY <1>1 DEF Flattened
  <1>4. \A i \in 1 .. n : g[i] = IF i = 1 THEN q[i] ELSE g[i - 1] \o q[i]
    BY <1>2 DEF Flattened
  <1> DEFINE S == {k \in Nat : k + 1 \in 1 .. n => f[k + 1] = g[k + 1]}
  <1>5. 0 \in S
    BY <1>3, <1>4
  <1>6. ASSUME NEW k \in Nat, k \in S PROVE k + 1 \in S
    <2> SUFFICES ASSUME (k + 1) + 1 \in 1 .. n PROVE f[(k + 1) + 1] = g[(k + 1) + 1]
      OBVIOUS
    <2>1. k + 1 \in 1 .. n /\ (k + 1) + 1 \in 1 .. n + 1 /\ (k + 1) + 1 # 1 /\ ((k + 1) + 1) - 1 = k + 1
      OBVIOUS
    <2>2. f[k + 1] = g[k + 1]
      BY <1>6, <2>1
    <2>3. f[(k + 1) + 1] = f[k + 1] \o p[(k + 1) + 1]
      BY <1>3, <2>1
    <2>4. g[(k + 1) + 1] = g[k + 1] \o q[(k + 1) + 1]
      BY <1>4, <2>1
    <2> QED
      BY <2>2, <2>3, <2>4
  <1> HIDE DEF S
  <1>7. n - 1 \in S
    BY <1>5, <1>6, Induction
  <1>8. f[n] = g[n]
    BY <1>7 DEF S
  <1>9. f[n + 1] = f[n] \o p[n + 1]
    <2>1. n + 1 \in 1 .. n + 1 /\ n + 1 # 1 /\ (n + 1) - 1 = n
      OBVIOUS
    <2> QED
      BY <1>3, <2>1
  <1> QED
    BY <1>1, <1>2, <1>8, <1>9

\* Flattening Append(s, x) appends x to what s flattens to.
LEMMA FlattenAppend ==
    ASSUME NEW T, NEW p \in Seq(Seq(T)), NEW x \in Seq(T)
    PROVE  FlattenSeq(Append(p, x)) = FlattenSeq(p) \o x
  <1>1. CASE Len(p) = 0
    <2>1. p = <<>> /\ Append(p, x) = <<x>>
      BY <1>1
    <2>2. FlattenSeq(p) = <<>>
      BY <2>1 DEF FlattenSeq
    <2> DEFINE u == <<x>>
    <2>5. Len(u) = 1 /\ Len(u) \in Nat \ {0} /\ u[1] = x
      OBVIOUS
    <2> HIDE DEF u
    <2>3. PICK f : Flattened(u, 1, f) /\ FlattenSeq(u) = f[1]
      BY <2>5, FlattenSeqIs
    <2>4. f[1] = x
      BY <2>3, <2>5 DEF Flattened
    <2> USE DEF u
    <2> QED
      BY <2>1, <2>2, <2>3, <2>4
  <1>2. CASE Len(p) # 0
    <2>1. Len(p) \in Nat \ {0} /\ Len(Append(p, x)) = Len(p) + 1 /\ Append(p, x)[Len(p) + 1] = x
      BY <1>2
    <2>2. \A i \in 1 .. Len(p) : Append(p, x)[i] = p[i]
      OBVIOUS
    <2> QED
      BY <2>1, <2>2, FlattenMore
  <1> QED
    BY <1>1, <1>2

\* Sequences are the empty one and what is made of it by Append.
LEMMA SeqInduction ==
    ASSUME NEW T, NEW S, <<>> \in S, \A s \in Seq(T), x \in T : s \in S => Append(s, x) \in S
    PROVE  \A s \in Seq(T) : s \in S
  <1> DEFINE N == {n \in Nat : \A s \in Seq(T) : Len(s) = n => s \in S}
  <1>1. 0 \in N
    <2>1. ASSUME NEW s \in Seq(T), Len(s) = 0 PROVE s \in S
      <3>1. s = <<>>
        BY <2>1
      <3> QED
        BY <3>1
    <2> QED
      BY <2>1
  <1>2. ASSUME NEW n \in Nat, n \in N PROVE n + 1 \in N
    <2> SUFFICES ASSUME NEW s \in Seq(T), Len(s) = n + 1 PROVE s \in S
      OBVIOUS
    <2> DEFINE t == SubSeq(s, 1, n)
    <2>1. t \in Seq(T) /\ Len(t) = n /\ s[n + 1] \in T
      OBVIOUS
    <2>2. s = Append(t, s[n + 1])
      <3>1. Append(t, s[n + 1]) \in Seq(T) /\ Len(Append(t, s[n + 1])) = n + 1
        BY <2>1
      <3>2. \A i \in 1 .. n + 1 : Append(t, s[n + 1])[i] = s[i]
        BY <2>1
      <3> HIDE DEF t
      <3> QED
        BY <3>1, <3>2, SeqEqual
    <2>3. t \in S
      BY <1>2, <2>1
    <2> HIDE DEF t
    <2> QED
      BY <2>1, <2>2, <2>3
  <1> HIDE DEF N
  <1>3. \A n \in Nat : n \in N
    BY <1>1, <1>2, Induction
  <1> QED
    BY <1>3 DEF N

\* Flattening sequences over T gives a sequence over T.
LEMMA FlattenType == ASSUME NEW T PROVE \A p \in Seq(Seq(T)) : FlattenSeq(p) \in Seq(T)
  <1> DEFINE S == {p \in Seq(Seq(T)) : FlattenSeq(p) \in Seq(T)}
  <1>1. <<>> \in S
    BY DEF FlattenSeq
  <1>2. ASSUME NEW p \in Seq(Seq(T)), NEW x \in Seq(T), p \in S PROVE Append(p, x) \in S
    <2>1. FlattenSeq(Append(p, x)) = FlattenSeq(p) \o x
      BY FlattenAppend
    <2>2. Append(p, x) \in Seq(Seq(T)) /\ FlattenSeq(p) \o x \in Seq(T)
      BY <1>2
    <2> QED
      BY <2>1, <2>2
  <1> HIDE DEF S
  <1>3. \A p \in Seq(Seq(T)) : p \in S
    BY <1>1, <1>2, SeqInduction
  <1> QED
    BY <1>3 DEF S

\* The empty list filters to itself.
LEMMA ThoseEmpty == ASSUME NEW A PROVE Those(<<>>, A) = <<>>
  <1>1. [i \in DOMAIN <<>> |-> IF <<>>[i].id \in A THEN <<<<>>[i]>> ELSE <<>>] = <<>>
    OBVIOUS
  <1> QED
    BY <1>1 DEF Those, FlattenSeq

\* An element at the end stays if and only if its id is asked for.
LEMMA ThoseAppend ==
    ASSUME NEW T, NEW L \in Seq(T), NEW x \in T, NEW A
    PROVE  /\ Those(L, A) \in Seq(T)
           /\ Those(Append(L, x), A) = IF x.id \in A THEN Append(Those(L, A), x) ELSE Those(L, A)
  <1> DEFINE Part(y) == IF y.id \in A THEN <<y>> ELSE <<>>
             p == [i \in DOMAIN L |-> Part(L[i])]
             q == [i \in DOMAIN Append(L, x) |-> Part(Append(L, x)[i])]
  <1>1. \A y \in T : Part(y) \in Seq(T)
    OBVIOUS
  <1>2. p \in Seq(Seq(T)) /\ Len(p) = Len(L) /\ Part(x) \in Seq(T)
    <2>1. DOMAIN L = 1 .. Len(L) /\ Len(L) \in Nat /\ \A i \in 1 .. Len(L) : L[i] \in T
      OBVIOUS
    <2>2. \A i \in 1 .. Len(L) : Part(L[i]) \in Seq(T)
      BY <1>1, <2>1
    <2>3. p = [i \in 1 .. Len(L) |-> Part(L[i])]
      BY <2>1
    <2> HIDE DEF Part
    <2> QED
      BY <1>1, <2>1, <2>2, <2>3
  <1>3. q \in Seq(Seq(T)) /\ Len(q) = Len(L) + 1
    BY <1>1
  <1>4. q = Append(p, Part(x))
    <2>1. Append(p, Part(x)) \in Seq(Seq(T)) /\ Len(Append(p, Part(x))) = Len(L) + 1
      BY <1>2
    <2>2. \A i \in 1 .. Len(L) + 1 : q[i] = Append(p, Part(x))[i]
      BY <1>2
    <2> HIDE DEF p, q, Part
    <2> QED
      BY <1>3, <2>1, <2>2, SeqEqual
  <1>5. Those(L, A) = FlattenSeq(p) /\ Those(Append(L, x), A) = FlattenSeq(q)
    BY DEF Those
  <1>6. FlattenSeq(p) \in Seq(T) /\ FlattenSeq(q) = FlattenSeq(p) \o Part(x)
    <2> HIDE DEF p, q, Part
    <2> QED
      BY <1>2, <1>4, FlattenType, FlattenAppend
  <1>7. FlattenSeq(p) \o <<x>> = Append(FlattenSeq(p), x) /\ FlattenSeq(p) \o <<>> = FlattenSeq(p)
    <2> HIDE DEF p
    <2> QED
      BY <1>6
  <1> QED
    BY <1>5, <1>6, <1>7

\* The elements, the length and the ids of a list with one more element.
LEMMA AppendLaws ==
    ASSUME NEW T, NEW L \in Seq(T), NEW x \in T
    PROVE  /\ Append(L, x) \in Seq(T)
           /\ Els(Append(L, x)) = Els(L) \cup {x}
           /\ IdsOf(Append(L, x)) = IdsOf(L) \cup {x.id}
           /\ Unique(Append(L, x)) <=> Unique(L) /\ x.id \notin IdsOf(L)
           /\ Names(Append(L, x)) = Append(Names(L), x.id)
  <1> DEFINE M == Append(L, x)
  <1>1. /\ M \in Seq(T) /\ DOMAIN M = 1 .. Len(L) + 1 /\ DOMAIN L = 1 .. Len(L) /\ Len(L) \in Nat
        /\ M[Len(L) + 1] = x /\ \A i \in DOMAIN L : i \in DOMAIN M /\ M[i] = L[i]
        /\ \A i \in DOMAIN M : i \in DOMAIN L \/ i = Len(L) + 1
        /\ Len(L) + 1 \in DOMAIN M /\ Len(L) + 1 \notin DOMAIN L
    OBVIOUS
  <1>2. Names(M) = Append(Names(L), x.id)
    <2>1. Names(L) = [i \in 1 .. Len(L) |-> L[i].id] /\ Names(M) = [i \in 1 .. Len(L) + 1 |-> M[i].id]
      BY <1>1 DEF Names
    <2>2. \A i \in 1 .. Len(L) + 1 : M[i].id = IF i <= Len(L) THEN L[i].id ELSE x.id
      BY <1>1
    <2>3. Names(L) \in Seq({L[i].id : i \in 1 .. Len(L)}) /\ Len(Names(L)) = Len(L)
      BY <2>1, <1>1
    <2> DEFINE U == {L[i].id : i \in 1 .. Len(L)} \cup {x.id}
    <2>4. Names(L) \in Seq(U) /\ Append(Names(L), x.id) \in Seq(U)
      BY <2>1, <1>1
    <2>5. Names(M) \in Seq(U) /\ Len(Names(M)) = Len(L) + 1
      BY <2>1, <2>2, <1>1
    <2>6. Len(Append(Names(L), x.id)) = Len(L) + 1
      BY <2>3
    <2>7. \A i \in 1 .. Len(L) + 1 : Names(M)[i] = Append(Names(L), x.id)[i]
      BY <2>1, <2>2, <2>3
    <2> HIDE DEF M, U
    <2> QED
      BY <2>4, <2>5, <2>6, <2>7, SeqEqual
  <1> HIDE DEF M
  <1>3. Els(M) = Els(L) \cup {x}
    BY <1>1 DEF Els
  <1>4. IdsOf(M) = IdsOf(L) \cup {x.id}
    BY <1>1 DEF IdsOf
  <1>5. Unique(M) => Unique(L) /\ x.id \notin IdsOf(L)
    BY <1>1 DEF Unique, IdsOf
  <1>6. Unique(L) /\ x.id \notin IdsOf(L) => Unique(M)
    BY <1>1 DEF Unique, IdsOf
  <1> QED
    BY <1>1, <1>2, <1>3, <1>4, <1>5, <1>6 DEF M

\* What a filter keeps: the elements with one of the ids.
LEMMA ThoseMembers ==
    ASSUME NEW T, NEW A
    PROVE  \A L \in Seq(T) : /\ Those(L, A) \in Seq(T)
                             /\ Els(Those(L, A)) = {b \in Els(L) : b.id \in A}
                             /\ IdsOf(Those(L, A)) = IdsOf(L) \cap A
                             /\ Unique(L) => Unique(Those(L, A))
  <1> DEFINE S == {L \in Seq(T) : /\ Those(L, A) \in Seq(T)
                                  /\ Els(Those(L, A)) = {b \in Els(L) : b.id \in A}
                                  /\ IdsOf(Those(L, A)) = IdsOf(L) \cap A
                                  /\ Unique(L) => Unique(Those(L, A))}
  <1>1. <<>> \in S
    <2>1. Els(<<>>) = {} /\ IdsOf(<<>>) = {} /\ Those(<<>>, A) = <<>>
      BY ThoseEmpty DEF Els, IdsOf
    <2>2. /\ Els(Those(<<>>, A)) = {b \in Els(<<>>) : b.id \in A}
          /\ IdsOf(Those(<<>>, A)) = IdsOf(<<>>) \cap A
          /\ Unique(<<>>) => Unique(Those(<<>>, A))
      BY <2>1
    <2>3. <<>> \in Seq(T) /\ Those(<<>>, A) \in Seq(T)
      BY <2>1, EmptySeq
    <2> QED
      BY <2>2, <2>3
  <1>2. ASSUME NEW L \in Seq(T), NEW x \in T, L \in S PROVE Append(L, x) \in S
    <2> DEFINE M == Those(L, A)
    <2>1. M \in Seq(T) /\ Those(Append(L, x), A) = IF x.id \in A THEN Append(M, x) ELSE M
      BY ThoseAppend
    <2>2. /\ Els(M) = {b \in Els(L) : b.id \in A} /\ IdsOf(M) = IdsOf(L) \cap A
          /\ Unique(L) => Unique(M)
      BY <1>2
    <2> HIDE DEF M
    <2>3. /\ Append(L, x) \in Seq(T) /\ Els(Append(L, x)) = Els(L) \cup {x}
          /\ IdsOf(Append(L, x)) = IdsOf(L) \cup {x.id}
          /\ Unique(Append(L, x)) <=> Unique(L) /\ x.id \notin IdsOf(L)
      BY AppendLaws
    <2>4. /\ Append(M, x) \in Seq(T) /\ Els(Append(M, x)) = Els(M) \cup {x}
          /\ IdsOf(Append(M, x)) = IdsOf(M) \cup {x.id}
          /\ Unique(Append(M, x)) <=> Unique(M) /\ x.id \notin IdsOf(M)
      BY <2>1, AppendLaws
    <2>5. CASE x.id \in A
      <3>1. Those(Append(L, x), A) = Append(M, x)
        BY <2>1, <2>5
      <3>2. /\ Els(Append(M, x)) = {b \in Els(Append(L, x)) : b.id \in A}
            /\ IdsOf(Append(M, x)) = IdsOf(Append(L, x)) \cap A
        BY <2>2, <2>3, <2>4, <2>5
      <3>3. Unique(Append(L, x)) => Unique(Append(M, x))
        BY <2>2, <2>3, <2>4
      <3> QED
        BY <2>3, <2>4, <3>1, <3>2, <3>3
    <2>6. CASE x.id \notin A
      <3>1. Those(Append(L, x), A) = M
        BY <2>1, <2>6
      <3>2. /\ Els(M) = {b \in Els(Append(L, x)) : b.id \in A}
            /\ IdsOf(M) = IdsOf(Append(L, x)) \cap A
        BY <2>2, <2>3, <2>6
      <3> QED
        BY <2>1, <2>2, <2>3, <3>1, <3>2
    <2> QED
      BY <2>5, <2>6
  <1> HIDE DEF S
  <1>3. \A L \in Seq(T) : L \in S
    BY <1>1, <1>2, SeqInduction
  <1> QED
    BY <1>3 DEF S

\* Two sets of ids that agree on the list filter it alike.
LEMMA ThoseSame ==
    ASSUME NEW T, NEW A, NEW B
    PROVE  \A L \in Seq(T) : IdsOf(L) \cap A = IdsOf(L) \cap B => Those(L, A) = Those(L, B)
  <1> DEFINE S == {L \in Seq(T) : IdsOf(L) \cap A = IdsOf(L) \cap B => Those(L, A) = Those(L, B)}
  <1>1. <<>> \in S
    BY ThoseEmpty
  <1>2. ASSUME NEW L \in Seq(T), NEW x \in T, L \in S PROVE Append(L, x) \in S
    <2>1. Those(Append(L, x), A) = IF x.id \in A THEN Append(Those(L, A), x) ELSE Those(L, A)
      BY ThoseAppend
    <2>2. Those(Append(L, x), B) = IF x.id \in B THEN Append(Those(L, B), x) ELSE Those(L, B)
      BY ThoseAppend
    <2>3. Append(L, x) \in Seq(T) /\ IdsOf(Append(L, x)) = IdsOf(L) \cup {x.id}
      BY AppendLaws
    <2>4. ASSUME IdsOf(Append(L, x)) \cap A = IdsOf(Append(L, x)) \cap B
          PROVE  Those(Append(L, x), A) = Those(Append(L, x), B)
      <3>1. IdsOf(L) \cap A = IdsOf(L) \cap B /\ (x.id \in A <=> x.id \in B)
        BY <2>3, <2>4
      <3>2. Those(L, A) = Those(L, B)
        BY <1>2, <3>1
      <3> QED
        BY <2>1, <2>2, <3>1, <3>2
    <2> QED
      BY <2>3, <2>4
  <1> HIDE DEF S
  <1>3. \A L \in Seq(T) : L \in S
    BY <1>1, <1>2, SeqInduction
  <1> QED
    BY <1>3 DEF S

\* A filter by every id of the list keeps the list.
LEMMA ThoseAll ==
    ASSUME NEW T, NEW A
    PROVE  \A L \in Seq(T) : IdsOf(L) \subseteq A => Those(L, A) = L
  <1> DEFINE S == {L \in Seq(T) : IdsOf(L) \subseteq A => Those(L, A) = L}
  <1>1. <<>> \in S
    BY ThoseEmpty
  <1>2. ASSUME NEW L \in Seq(T), NEW x \in T, L \in S PROVE Append(L, x) \in S
    <2>1. Those(Append(L, x), A) = IF x.id \in A THEN Append(Those(L, A), x) ELSE Those(L, A)
      BY ThoseAppend
    <2>2. Append(L, x) \in Seq(T) /\ IdsOf(Append(L, x)) = IdsOf(L) \cup {x.id}
      BY AppendLaws
    <2> QED
      BY <1>2, <2>1, <2>2
  <1> HIDE DEF S
  <1>3. \A L \in Seq(T) : L \in S
    BY <1>1, <1>2, SeqInduction
  <1> QED
    BY <1>3 DEF S

\* A filter by no id of the list keeps nothing.
LEMMA ThoseNone ==
    ASSUME NEW T, NEW L \in Seq(T), NEW A, IdsOf(L) \cap A = {} PROVE Those(L, A) = <<>>
  <1>1. Those(L, A) \in Seq(T) /\ IdsOf(Those(L, A)) = {}
    BY ThoseMembers
  <1>2. DOMAIN Those(L, A) = {}
    BY <1>1 DEF IdsOf
  <1> QED
    BY <1>1, <1>2

\* Two filters are one, by the ids in both sets.
LEMMA ThoseOfThose ==
    ASSUME NEW T, NEW A, NEW B
    PROVE  \A L \in Seq(T) : Those(Those(L, A), B) = Those(L, A \cap B)
  <1> DEFINE S == {L \in Seq(T) : Those(Those(L, A), B) = Those(L, A \cap B)}
  <1>1. <<>> \in S
    BY ThoseEmpty
  <1>2. ASSUME NEW L \in Seq(T), NEW x \in T, L \in S PROVE Append(L, x) \in S
    <2> DEFINE M == Those(L, A)
    <2> DEFINE N == Those(L, A \cap B)
    <2>1. M \in Seq(T) /\ Those(Append(L, x), A) = IF x.id \in A THEN Append(M, x) ELSE M
      BY ThoseAppend
    <2>5. Those(Append(L, x), A \cap B) = IF x.id \in A \cap B THEN Append(N, x) ELSE N
      <3> DEFINE C == A \cap B
      <3>1. Those(Append(L, x), C) = IF x.id \in C THEN Append(Those(L, C), x) ELSE Those(L, C)
        <4> HIDE DEF C
        <4> QED
          BY ThoseAppend
      <3> QED
        BY <3>1
    <2>2. Those(M, B) = N
      BY <1>2
    <2> HIDE DEF N
    <2> HIDE DEF M
    <2>3. Those(Append(M, x), B) = IF x.id \in B THEN Append(Those(M, B), x) ELSE Those(M, B)
      BY <2>1, ThoseAppend
    <2>4. Append(L, x) \in Seq(T)
      OBVIOUS
    <2>6. Those(Those(Append(L, x), A), B) = Those(Append(L, x), A \cap B)
      BY <2>1, <2>2, <2>3, <2>5
    <2> QED
      BY <2>4, <2>6
  <1> HIDE DEF S
  <1>3. \A L \in Seq(T) : L \in S
    BY <1>1, <1>2, SeqInduction
  <1> QED
    BY <1>3 DEF S

\* A concatenation is filtered part by part.
LEMMA ThoseConcat ==
    ASSUME NEW T, NEW L \in Seq(T), NEW A
    PROVE  \A M \in Seq(T) : Those(L \o M, A) = Those(L, A) \o Those(M, A)
  <1> DEFINE S == {M \in Seq(T) : Those(L \o M, A) = Those(L, A) \o Those(M, A)}
  <1>0. Those(L, A) \in Seq(T)
    BY ThoseMembers
  <1>1. <<>> \in S
    <2>1. L \o <<>> = L /\ Those(L, A) \o <<>> = Those(L, A)
      BY <1>0
    <2>2. Those(L \o <<>>, A) = Those(L, A) \o Those(<<>>, A)
      BY <2>1, ThoseEmpty
    <2> QED
      BY <2>2
  <1>2. ASSUME NEW M \in Seq(T), NEW x \in T, M \in S PROVE Append(M, x) \in S
    <2>1. L \o Append(M, x) = Append(L \o M, x) /\ L \o M \in Seq(T) /\ Append(M, x) \in Seq(T)
      OBVIOUS
    <2>2. Those(Append(L \o M, x), A)
                = IF x.id \in A THEN Append(Those(L \o M, A), x) ELSE Those(L \o M, A)
      <3> DEFINE K == L \o M
      <3>1. K \in Seq(T)
        BY <2>1
      <3> HIDE DEF K
      <3>2. Those(Append(K, x), A) = IF x.id \in A THEN Append(Those(K, A), x) ELSE Those(K, A)
        BY <3>1, ThoseAppend
      <3> QED
        BY <3>2 DEF K
    <2>5. Those(Append(M, x), A) = IF x.id \in A THEN Append(Those(M, A), x) ELSE Those(M, A)
      BY ThoseAppend
    <2>3. Those(M, A) \in Seq(T) /\ Those(L \o M, A) = Those(L, A) \o Those(M, A)
      BY <1>2, ThoseMembers
    <2>4. Those(L, A) \o Append(Those(M, A), x) = Append(Those(L, A) \o Those(M, A), x)
      BY <1>0, <2>3
    <2>6. Those(L \o Append(M, x), A) = Those(L, A) \o Those(Append(M, x), A)
      BY <2>1, <2>2, <2>3, <2>4, <2>5
    <2> QED
      BY <2>1, <2>6
  <1> HIDE DEF S
  <1>3. \A M \in Seq(T) : M \in S
    BY <1>1, <1>2, SeqInduction
  <1> QED
    BY <1>3 DEF S

\* An interval from 1 determines its end.
LEMMA SameInterval == ASSUME NEW m \in Nat, NEW n \in Nat, 1 .. m = 1 .. n PROVE m = n
  <1>1. \A i \in Int : i \in 1 .. m <=> i \in 1 .. n
    BY Zenon
  <1>2. (m \in 1 .. n \/ m = 0) /\ (n \in 1 .. m \/ n = 0) /\ (m = 0 <=> n = 0)
    <2>1. m \in 1 .. m <=> m \in 1 .. n
      BY <1>1
    <2>2. n \in 1 .. m <=> n \in 1 .. n
      BY <1>1
    <2> QED
      BY <2>1, <2>2
  <1> QED
    BY <1>2

\* A filter keeps ids distinct.
LEMMA ThoseNames ==
    ASSUME NEW T, NEW U, NEW A
    PROVE  \A L \in Seq(T) : \A M \in Seq(U) :
              Names(L) = Names(M) => Names(Those(L, A)) = Names(Those(M, A))
  <1> DEFINE P(L) == \A M \in Seq(U) : Names(L) = Names(M) => Names(Those(L, A)) = Names(Those(M, A))
             S == {L \in Seq(T) : P(L)}
  <1>1. <<>> \in S
    <2>1. ASSUME NEW M \in Seq(U), Names(<<>>) = Names(M) PROVE M = <<>>
      <3>1. DOMAIN Names(<<>>) = {} /\ DOMAIN Names(M) = 1 .. Len(M) /\ Len(M) \in Nat
        BY DEF Names
      <3> QED
        BY <2>1, <3>1
    <2> QED
      BY <2>1
  <1>2. ASSUME NEW L \in Seq(T), NEW x \in T, L \in S PROVE Append(L, x) \in S
    <2> SUFFICES ASSUME NEW M \in Seq(U), Names(Append(L, x)) = Names(M)
                 PROVE  Names(Those(Append(L, x), A)) = Names(Those(M, A))
      OBVIOUS
    <2>1. Names(Append(L, x)) = Append(Names(L), x.id)
      BY AppendLaws
    <2>2. DOMAIN Append(L, x) = 1 .. Len(L) + 1 /\ Len(L) \in Nat /\ DOMAIN M = 1 .. Len(M) /\ Len(M) \in Nat
      OBVIOUS
    <2>3. /\ Len(M) = Len(L) + 1
          /\ \A i \in 1 .. Len(L) + 1 : Append(L, x)[i].id = M[i].id
      <3>1. DOMAIN Names(Append(L, x)) = 1 .. Len(L) + 1 /\ DOMAIN Names(M) = 1 .. Len(M)
        BY <2>2 DEF Names
      <3>2. 1 .. Len(L) + 1 = 1 .. Len(M)
        BY <3>1
      <3>3. Len(M) = Len(L) + 1
        <4> DEFINE m == Len(L) + 1
                   n == Len(M)
        <4>1. m \in Nat /\ n \in Nat
          BY <2>2
        <4>3. 1 .. m = 1 .. n
          BY <3>2, Zenon
        <4> HIDE DEF m, n
        <4>2. m = n
          BY <4>1, <4>3, SameInterval
        <4> QED
          BY <4>2 DEF m, n
      <3>5. \A i \in 1 .. Len(L) + 1 : Names(Append(L, x))[i] = Append(L, x)[i].id
        BY <2>2 DEF Names
      <3>6. \A i \in 1 .. Len(L) + 1 : Names(M)[i] = M[i].id
        BY <2>2, <3>2 DEF Names
      <3> QED
        BY <2>2, <3>3, <3>5, <3>6
    <2> DEFINE N == SubSeq(M, 1, Len(L))
               y == M[Len(L) + 1]
    <2>4. N \in Seq(U) /\ y \in U /\ Len(N) = Len(L)
      BY <2>2, <2>3
    <2>5. M = Append(N, y)
      <3>1. Append(N, y) \in Seq(U) /\ Len(Append(N, y)) = Len(M)
        BY <2>3, <2>4
      <3>2. \A i \in 1 .. Len(M) : Append(N, y)[i] = M[i]
        BY <2>2, <2>3, <2>4
      <3> HIDE DEF N, y
      <3> QED
        BY <3>1, <3>2, SeqEqual
    <2>8. Names(L) = Names(N) /\ x.id = y.id
      <3>1. \A i \in 1 .. Len(L) : Append(L, x)[i] = L[i] /\ N[i] = M[i]
        BY <2>2, <2>3
      <3>2. \A i \in 1 .. Len(L) : L[i].id = N[i].id
        BY <2>2, <2>3, <3>1
      <3>3. DOMAIN L = 1 .. Len(L) /\ DOMAIN N = 1 .. Len(L)
        BY <2>4
      <3>4. x.id = y.id
        BY <2>2, <2>3
      <3> HIDE DEF N, y
      <3> QED
        BY <3>2, <3>3, <3>4 DEF Names
    <2> HIDE DEF N, y
    <2>9. Names(Those(L, A)) = Names(Those(N, A))
      BY <1>2, <2>4, <2>8
    <2>10. /\ Those(L, A) \in Seq(T)
           /\ Those(Append(L, x), A) = IF x.id \in A THEN Append(Those(L, A), x) ELSE Those(L, A)
      BY ThoseAppend
    <2>11. /\ Those(N, A) \in Seq(U)
           /\ Those(Append(N, y), A) = IF y.id \in A THEN Append(Those(N, A), y) ELSE Those(N, A)
      BY <2>4, ThoseAppend
    <2>12. Names(Append(Those(L, A), x)) = Append(Names(Those(L, A)), x.id)
      BY <2>10, AppendLaws
    <2>13. Names(Append(Those(N, A), y)) = Append(Names(Those(N, A)), y.id)
      BY <2>4, <2>11, AppendLaws
    <2> QED
      BY <2>5, <2>8, <2>9, <2>10, <2>11, <2>12, <2>13
  <1> HIDE DEF S
  <1>3. \A L \in Seq(T) : L \in S
    BY <1>1, <1>2, SeqInduction
  <1> QED
    BY <1>3 DEF S

\* With distinct ids a filter by one id gives the one element that has it.
LEMMA ThoseOne ==
    ASSUME NEW T, NEW L \in Seq(T), Unique(L), NEW k \in DOMAIN L
    PROVE  Those(L, {L[k].id}) = <<L[k]>>
  <1> DEFINE M == Those(L, {L[k].id})
  <1>1. /\ M \in Seq(T) /\ Unique(M) /\ Els(M) = {b \in Els(L) : b.id \in {L[k].id}}
    BY ThoseMembers
  <1>2. \A b \in Els(M) : b = L[k]
    BY <1>1 DEF Els, Unique
  <1>3. L[k] \in Els(M)
    BY <1>1 DEF Els
  <1> HIDE DEF M
  <1>4. \A i \in DOMAIN M : M[i] = L[k]
    BY <1>2 DEF Els
  <1>5. DOMAIN M # {} /\ DOMAIN M = 1 .. Len(M) /\ Len(M) \in Nat
    BY <1>1, <1>3 DEF Els
  <1>6. \A i, j \in DOMAIN M : i = j
    BY <1>1, <1>4 DEF Unique
  <1>7. Len(M) = 1
    <2>1. 1 \in DOMAIN M /\ Len(M) \in DOMAIN M
      BY <1>5
    <2> QED
      BY <1>6, <2>1
  <1>8. M[1] = L[k]
    BY <1>4, <1>5, <1>7
  <1>9. M = <<L[k]>>
    BY <1>1, <1>7, <1>8
  <1> QED
    BY <1>9 DEF M

\* Parts of one element each.
LEMMA FlattenOnes ==
    ASSUME NEW T
    PROVE  \A x \in Seq(T) : FlattenSeq([i \in DOMAIN x |-> <<x[i]>>]) = x
  <1> DEFINE S == {x \in Seq(T) : FlattenSeq([i \in DOMAIN x |-> <<x[i]>>]) = x}
  <1>1. <<>> \in S
    <2>1. [i \in DOMAIN <<>> |-> <<<<>>[i]>>] = <<>>
      OBVIOUS
    <2> QED
      BY <2>1 DEF FlattenSeq
  <1>2. ASSUME NEW x \in Seq(T), NEW y \in T, x \in S PROVE Append(x, y) \in S
    <2> DEFINE p == [i \in DOMAIN x |-> <<x[i]>>]
               q == [i \in DOMAIN Append(x, y) |-> <<Append(x, y)[i]>>]
    <2>0. /\ DOMAIN x = 1 .. Len(x) /\ Len(x) \in Nat /\ \A i \in 1 .. Len(x) : x[i] \in T
          /\ DOMAIN Append(x, y) = 1 .. Len(x) + 1 /\ Append(x, y)[Len(x) + 1] = y
          /\ \A i \in 1 .. Len(x) : Append(x, y)[i] = x[i]
      OBVIOUS
    <2>1. /\ p \in Seq(Seq(T)) /\ Len(p) = Len(x) /\ <<y>> \in Seq(T)
          /\ \A i \in 1 .. Len(x) : p[i] = <<x[i]>>
      <3>1. p = [i \in 1 .. Len(x) |-> <<x[i]>>]
        BY <2>0
      <3>2. \A i \in 1 .. Len(x) : <<x[i]>> \in Seq(T)
        BY <2>0
      <3> QED
        BY <2>0, <3>1, <3>2
    <2>2. /\ q \in Seq(Seq(T)) /\ Len(q) = Len(x) + 1
          /\ \A i \in 1 .. Len(x) + 1 : q[i] = <<Append(x, y)[i]>>
      <3>1. q = [i \in 1 .. Len(x) + 1 |-> <<Append(x, y)[i]>>]
        BY <2>0
      <3>2. \A i \in 1 .. Len(x) + 1 : <<Append(x, y)[i]>> \in Seq(T)
        BY <2>0
      <3> QED
        BY <2>0, <3>1, <3>2
    <2>3. q = Append(p, <<y>>)
      <3>1. Append(p, <<y>>) \in Seq(Seq(T)) /\ Len(Append(p, <<y>>)) = Len(x) + 1
        BY <2>1
      <3>2. \A i \in 1 .. Len(x) + 1 : q[i] = Append(p, <<y>>)[i]
        <4> HIDE DEF p, q
        <4>1. \A i \in 1 .. Len(x) : Append(p, <<y>>)[i] = p[i]
          BY <2>0, <2>1
        <4>2. Append(p, <<y>>)[Len(x) + 1] = <<y>>
          BY <2>0, <2>1
        <4>3. \A i \in 1 .. Len(x) + 1 : i \in 1 .. Len(x) \/ i = Len(x) + 1
          BY <2>0
        <4> QED
          BY <2>0, <2>1, <2>2, <4>1, <4>2, <4>3
      <3> HIDE DEF p, q
      <3> QED
        BY <2>2, <3>1, <3>2, SeqEqual
    <2>4. FlattenSeq(p) = x
      BY <1>2
    <2>5. FlattenSeq(q) = x \o <<y>>
      <3> HIDE DEF p, q
      <3> QED
        BY <2>1, <2>3, <2>4, FlattenAppend
    <2>6. x \o <<y>> = Append(x, y) /\ Append(x, y) \in Seq(T)
      OBVIOUS
    <2> QED
      BY <2>5, <2>6
  <1> HIDE DEF S
  <1>3. \A x \in Seq(T) : x \in S
    BY <1>1, <1>2, SeqInduction
  <1> QED
    BY <1>3 DEF S

-----------------------------------------------------------------------------
(* What the scheduler fetched reaches the kernel.                          *)

TickShape ==
    /\ tick = [pc |-> tick.pc, todo |-> tick.todo, st |-> tick.st, job |-> tick.job,
               before |-> tick.before, news |-> tick.news]
    /\ tick.pc \in {"idle", "fetch", "save", "status", "deploy"} /\ tick.news \in BOOLEAN
    /\ tick.pc = "idle" => ~tick.news
    /\ tick.pc \in {"status", "deploy"} => tick.news

DeployShape ==
    /\ deploy = [pc |-> deploy.pc, who |-> deploy.who, waiting |-> deploy.waiting,
                 nodes |-> deploy.nodes, news |-> deploy.news]
    /\ deploy.pc \in {"none", "read", "down"} /\ deploy.waiting \subseteq {"user", "scheduler"}
    /\ deploy.pc = "none" => deploy.who = Nothing
    /\ deploy.pc = "down" => ~kernel.on

KernelShape ==
    /\ kernel = [on |-> kernel.on, nodes |-> kernel.nodes, news |-> kernel.news]
    /\ kernel.on \in BOOLEAN /\ excused \in BOOLEAN

\* The scheduler waits for its deploy, in the queue or under way, and no deploy is its own
\* but the one it waits for.
Awaited ==
    /\ tick.pc = "deploy" => "scheduler" \in deploy.waiting \/ deploy.who = "scheduler"
    /\ "scheduler" \in deploy.waiting \/ deploy.who = "scheduler" => tick.pc = "deploy"
    /\ ~("scheduler" \in deploy.waiting /\ deploy.who = "scheduler")

\* A deploy knows no less than the kernel, and all of it if the scheduler waits for it.
NewsInOrder ==
    /\ news \in Nat /\ kernel.news \in Nat /\ deploy.news \in Nat /\ kernel.news <= news
    /\ deploy.pc # "none" => kernel.news <= deploy.news /\ deploy.news <= news
    /\ deploy.who = "scheduler" => deploy.news = news

\* News is in the kernel, or in a tick that is not over, or a kernel that is off gets it
\* as soon as it is started.
NewsKept ==
    \/ excused \/ kernel.news = news \/ tick.news
    \/ ~kernel.on /\ (deploy.pc # "none" => deploy.news = news)

NewsInv == TickShape /\ DeployShape /\ KernelShape /\ Awaited /\ NewsInOrder /\ NewsKept

newsVars == <<tick, deploy, kernel, news, excused>>

\* Neither user nor scheduler is the mark of an absent record.
LEMMA Nobody == Nothing # "scheduler" /\ Nothing # "user"
  BY SubscriptionsAssumption

\* Between ticks nothing of a tick is left.
LEMMA NoTickShape ==
    ASSUME NEW t, t = NoTick
    PROVE  /\ t = [pc |-> t.pc, todo |-> t.todo, st |-> t.st, job |-> t.job, before |-> t.before,
                   news |-> t.news]
           /\ t.pc = "idle" /\ t.news = FALSE
  BY DEF NoTick

\* Nothing has been fetched yet.
LEMMA NewsInit == Init => NewsInv
  <1> SUFFICES ASSUME Init PROVE NewsInv
    OBVIOUS
  <1> USE Nobody DEF Init, NoTick, NoDeploy
  <1>1. TickShape
    BY DEF TickShape
  <1>2. DeployShape /\ KernelShape
    BY DEF DeployShape, KernelShape
  <1>3. Awaited /\ NewsInOrder /\ NewsKept
    BY DEF Awaited, NewsInOrder, NewsKept
  <1> QED
    BY <1>1, <1>2, <1>3 DEF NewsInv

\* A death ends the tick and forgets who waits; a restart of the kernel goes on.
LEMMA NewsDies ==
    ASSUME NewsInv, Dies, UNCHANGED kernel, news' \in Nat, news <= news' PROVE NewsInv'
  <1> USE Nobody DEF NewsInv, Dies, TickShape, DeployShape, KernelShape, Awaited, NewsInOrder,
                    NewsKept, NoTick, NoDeploy
  <1>1. TickShape' /\ KernelShape'
    OBVIOUS
  <1>2. DeployShape' /\ Awaited'
    OBVIOUS
  <1>3. NewsInOrder'
    OBVIOUS
  <1>4. excused' \/ kernel'.news = news'
    OBVIOUS
  <1> QED
    BY <1>1, <1>2, <1>3, <1>4

\* A step that leaves tick, deploy and kernel alone leaves the news alone.
LEMMA NewsSame == ASSUME NewsInv, UNCHANGED newsVars PROVE NewsInv'
  BY DEF newsVars, NewsInv, TickShape, DeployShape, KernelShape, Awaited, NewsInOrder, NewsKept

\* A request other than for a deploy changes what the kernel knows only when the panel
\* dies in it.
LEMMA NewsRequests ==
    ASSUME NewsInv,
           \/ BeginCreate \/ BeginRefresh \/ BeginEdit \/ EditInPlace \/ Reorder \/ Delete
           \/ Finish \/ GiveUp \/ PanelDies
    PROVE  NewsInv'
  <1>1. UNCHANGED newsVars \/ (Dies /\ UNCHANGED <<kernel, news>>)
    BY DEF newsVars, BeginCreate, BeginRefresh, BeginEdit, Begin, EditInPlace, Reorder, Delete,
       Finish, GiveUp, PanelDies, PoolThenList, ListThenPool, Waits, JobEnds, kernelSide
  <1>2. CASE UNCHANGED newsVars
    BY <1>2, NewsSame
  <1>3. CASE Dies /\ UNCHANGED <<kernel, news>>
    <2>1. news' \in Nat /\ news <= news'
      BY <1>3 DEF NewsInv, NewsInOrder
    <2> QED
      BY <1>3, <2>1, NewsDies
  <1> QED
    BY <1>1, <1>2, <1>3

\* A tick that goes on keeps its news; one that has some goes on to ask for the kernel.
LEMMA NewsGoesOn ==
    ASSUME NewsInv, NEW todo, NEW st, NEW changed \in BOOLEAN, tick.pc \in {"idle", "save"},
           GoesOn(todo, st, changed), changed = tick.news,
           UNCHANGED <<deploy, kernel, news, excused>>
    PROVE  NewsInv'
  <1>1. /\ tick' = [pc |-> tick'.pc, todo |-> tick'.todo, st |-> tick'.st, job |-> tick'.job,
                    before |-> tick'.before, news |-> tick'.news]
        /\ tick'.pc \in {"idle", "fetch", "save", "status"} /\ tick'.news = changed
        /\ tick'.pc = "idle" => ~changed
        /\ tick'.pc = "status" => changed
    <2> DEFINE due == {i \in DOMAIN todo : IsDue(todo[i], st)}
    <2>1. CASE due = {} /\ changed = TRUE
      BY <2>1 DEF GoesOn, NoTick
    <2>3. CASE due = {} /\ changed = FALSE
      <3>1. tick' = NoTick
        BY <2>3 DEF GoesOn
      <3> QED
        BY <2>3, <3>1, NoTickShape
    <2>2. CASE due # {}
      BY <2>2 DEF GoesOn, NoTick
    <2> QED
      BY <2>1, <2>2, <2>3
  <1>2. TickShape'
    BY <1>1 DEF TickShape
  <1>3. DeployShape' /\ KernelShape' /\ NewsInOrder'
    BY DEF NewsInv, DeployShape, KernelShape, NewsInOrder
  <1>4. Awaited'
    BY <1>1 DEF NewsInv, Awaited
  <1>5. NewsKept'
    BY <1>1 DEF NewsInv, NewsKept
  <1> QED
    BY <1>2, <1>3, <1>4, <1>5 DEF NewsInv

\* The steps of a tick: what it fetches is news, and at the end it asks for a deploy.
LEMMA NewsTicks == ASSUME NewsInv, Ticks PROVE NewsInv'
  <1>1. CASE TickBegins
    <2>1. /\ GoesOn(subs, [id \in DOMAIN done \cap IdsOf(subs) |-> done[id]], FALSE)
          /\ tick.pc = "idle" /\ UNCHANGED <<deploy, kernel, news, excused>>
      BY <1>1 DEF TickBegins, kernelSide
    <2>2. tick.news = FALSE
      BY <2>1 DEF NewsInv, TickShape
    <2> QED
      BY <2>1, <2>2, NewsGoesOn
  <1>2. CASE TickNext
    <2>1. /\ GoesOn(tick.todo, tick.st, tick.news)
          /\ tick.pc = "save" /\ UNCHANGED <<deploy, kernel, news, excused>>
      BY <1>2 DEF TickNext, kernelSide
    <2>2. tick.news \in BOOLEAN
      BY DEF NewsInv, TickShape
    <2> QED
      BY <2>1, <2>2, NewsGoesOn
  <1>3. CASE TickRefreshes
    <2>1. /\ tick.pc = "fetch" /\ UNCHANGED kernel
          /\ \/ Dies /\ news' \in {news, news + 1}
             \/ /\ tick' = [tick EXCEPT !.pc = "save", !.news = Changed(tick.before), !.st = tick'.st]
                /\ news' = IF pool' # tick.before THEN news + 1 ELSE news
                /\ UNCHANGED <<deploy, excused>>
      BY <1>3 DEF TickRefreshes, PoolThenList
    <2>2. CASE Dies /\ news' \in {news, news + 1}
      <3>1. news' \in Nat /\ news <= news'
        BY <2>2 DEF NewsInv, NewsInOrder
      <3> QED
        BY <2>1, <2>2, <3>1, NewsDies
    <2>3. CASE /\ tick' = [tick EXCEPT !.pc = "save", !.news = Changed(tick.before), !.st = tick'.st]
               /\ news' = IF pool' # tick.before THEN news + 1 ELSE news
               /\ UNCHANGED <<deploy, excused>>
      <3>1. TickShape' /\ tick'.pc = "save" /\ tick'.news = Changed(tick.before)
        BY <2>3 DEF NewsInv, TickShape, Changed
      <3>2. DeployShape' /\ KernelShape'
        BY <2>1, <2>3 DEF NewsInv, DeployShape, KernelShape
      <3>3. "scheduler" \notin deploy.waiting /\ deploy.who # "scheduler"
        BY <2>1 DEF NewsInv, Awaited
      <3>4. Awaited' /\ NewsInOrder'
        BY <2>1, <2>3, <3>1, <3>3 DEF NewsInv, Awaited, NewsInOrder
      <3>5. NewsKept'
        BY <2>1, <2>3, <3>1 DEF NewsInv, NewsKept, Changed
      <3> QED
        BY <3>1, <3>2, <3>4, <3>5 DEF NewsInv
    <2> QED
      BY <2>1, <2>2, <2>3
  <1>4. CASE TickFails \/ TickSaves
    <2>1. /\ tick' = [tick EXCEPT !.pc = "save"] \/ UNCHANGED tick
          /\ tick.pc \in {"fetch", "save"} /\ UNCHANGED <<deploy, kernel, news, excused>>
      BY <1>4 DEF TickFails, TickSaves, kernelSide
    <2> QED
      BY <2>1 DEF NewsInv, TickShape, DeployShape, KernelShape, Awaited, NewsInOrder, NewsKept
  <1>5. CASE TickAsks
    <2> USE <1>5 DEF NewsInv, TickAsks, TickShape, DeployShape, KernelShape, Awaited, NewsInOrder
    <2>1. CASE kernel.on
      <3>1. /\ tick' = [tick EXCEPT !.pc = "deploy"]
            /\ deploy' = [deploy EXCEPT !.waiting = @ \cup {"scheduler"}]
            /\ UNCHANGED <<kernel, news, excused>>
        BY <2>1
      <3>2. TickShape' /\ DeployShape' /\ KernelShape' /\ Awaited' /\ NewsInOrder'
        BY <3>1
      <3>3. NewsKept'
        BY <3>1 DEF NewsKept
      <3> QED
        BY <3>2, <3>3
    <2>2. CASE ~kernel.on
      <3>1. /\ tick' = NoTick /\ excused' = (excused \/ deploy.pc # "none")
            /\ UNCHANGED <<deploy, kernel, news>>
        BY <2>2
      <3>2. TickShape' /\ DeployShape' /\ KernelShape' /\ Awaited' /\ NewsInOrder'
        BY <3>1 DEF NoTick
      <3>3. NewsKept'
        BY <2>2, <3>1 DEF NewsKept
      <3> QED
        BY <3>2, <3>3
    <2> QED
      BY <2>1, <2>2
  <1> QED
    BY <1>1, <1>2, <1>3, <1>4, <1>5 DEF Ticks

\* A deploy takes all that is in the pool when it reads it; a failing one and a stop answer for it.
LEMMA NewsDeploys == ASSUME NewsInv, Deploys \/ AskDeploy \/ Stop PROVE NewsInv'
  <1> USE Nobody DEF NewsInv, TickShape, DeployShape, KernelShape, Awaited, NewsInOrder, NewsKept,
                    NoDeploy, NoTick
  <1>1. CASE DeployReads
    <2>1. PICK who \in deploy.waiting :
              deploy' = [pc |-> "read", who |-> who, waiting |-> deploy.waiting \ {who},
                         nodes |-> ActiveNodes, news |-> news]
      BY <1>1 DEF DeployReads
    <2>2. deploy.pc = "none" /\ UNCHANGED <<tick, kernel, news, excused>>
      BY <1>1 DEF DeployReads
    <2> QED
      BY <2>1, <2>2
  <1>2. CASE DeployRestarts
    BY <1>2 DEF DeployRestarts
  <1>3. CASE DeployEnds
    <2>1. /\ deploy' = [NoDeploy EXCEPT !.waiting = deploy.waiting] /\ deploy.pc = "down"
          /\ kernel' = [on |-> TRUE, nodes |-> deploy.nodes, news |-> deploy.news]
          /\ excused' = (excused /\ deploy.news # news) /\ UNCHANGED news
          /\ IF deploy.who = "scheduler" THEN tick' = NoTick ELSE UNCHANGED tick
      BY <1>3 DEF DeployEnds, Answered
    <2>2. TickShape' /\ KernelShape'
      <3>1. tick' = NoTick => TickShape'
        BY NoTickShape DEF TickShape
      <3>2. CASE deploy.who = "scheduler"
        BY <2>1, <3>1, <3>2
      <3>3. CASE deploy.who # "scheduler"
        BY <2>1, <3>3
      <3> QED
        BY <3>2, <3>3
    <2>3. DeployShape'
      BY <2>1
    <2>4. Awaited' /\ NewsInOrder'
      BY <2>1
    <2>5. NewsKept'
      BY <2>1
    <2> QED
      BY <2>2, <2>3, <2>4, <2>5
  <1>4. CASE DeployFails
    <2>1. /\ deploy' = [NoDeploy EXCEPT !.waiting = deploy.waiting] /\ UNCHANGED <<kernel, news>>
          /\ excused' = (excused \/ deploy.who = "scheduler")
          /\ IF deploy.who = "scheduler" THEN tick' = NoTick ELSE UNCHANGED tick
      BY <1>4 DEF DeployFails, Answered
    <2>2. TickShape' /\ KernelShape'
      <3>1. tick' = NoTick => TickShape'
        BY NoTickShape DEF TickShape
      <3>2. CASE deploy.who = "scheduler"
        BY <2>1, <3>1, <3>2
      <3>3. CASE deploy.who # "scheduler"
        BY <2>1, <3>3
      <3> QED
        BY <3>2, <3>3
    <2>3. DeployShape'
      BY <2>1
    <2>4. Awaited' /\ NewsInOrder'
      BY <2>1
    <2>5. NewsKept'
      BY <2>1
    <2> QED
      BY <2>2, <2>3, <2>4, <2>5
  <1>5. CASE AskDeploy
    BY <1>5 DEF AskDeploy
  <1>6. CASE Stop
    BY <1>6 DEF Stop
  <1> QED
    BY <1>1, <1>2, <1>3, <1>4, <1>5, <1>6 DEF Deploys

\* Every step keeps the invariant.
LEMMA NewsNext == ASSUME NewsInv, [Next]_vars PROVE NewsInv'
  <1>1. CASE UNCHANGED vars
    BY <1>1, NewsSame DEF vars, kernelSide, newsVars
  <1>2. CASE PanelStarts \/ UpstreamChanges \/ HalfDayPasses
    BY <1>2, NewsSame DEF PanelStarts, UpstreamChanges, HalfDayPasses, kernelSide, newsVars
  <1> QED
    BY <1>1, <1>2, NewsRequests, NewsTicks, NewsDeploys DEF Next, UserActs, World

\* When a tick of the scheduler is over the kernel has what it fetched, for any overlap of
\* requests, deploys, deaths and stops (runScheduledRefresh).
THEOREM NewsArrives == Spec => []NewsReachesKernel
  <1>1. NewsInv => NewsReachesKernel
    BY DEF NewsInv, TickShape, KernelShape, NewsKept, NewsReachesKernel
  <1> QED
    BY <1>1, NewsInit, NewsNext, PTL DEF Spec

-----------------------------------------------------------------------------
(* The list of subscriptions and the pool of nodes.                        *)

\* What the two records say of each other and of what was saved.
ListOK(list, nodes, kept, apart) ==
    /\ list \in Seq(Settings) /\ Unique(list) /\ nodes \in Seq(Blocks) /\ Unique(nodes)
    /\ kept \in [DOMAIN kept -> Settings] /\ DOMAIN kept \subseteq Ids
    /\ IdsOf(list) \subseteq DOMAIN kept /\ \A r \in Els(list) : r = kept[r.id]
    /\ \A b \in Els(nodes) : b.id \in apart \/ \E r \in Els(list) : r.id = b.id /\ r.src = b.src
    /\ IdsOf(list) \subseteq IdsOf(nodes)
    /\ Order \in apart \/ Names(Those(nodes, IdsOf(list))) = Names(list)

\* A deleted subscription stays away, and so do its nodes.
Buried ==
    \A id \in DOMAIN saved \ IdsOf(subs) :
        id \notin IdsOf(subs') /\ (id \notin IdsOf(pool) => id \notin IdsOf(pool'))

\* A list with distinct ids, as the properties write it.
LEMMA NameLaws ==
    ASSUME NEW T, NEW U, NEW L \in Seq(T), NEW M \in Seq(U), Names(L) = Names(M)
    PROVE  /\ DOMAIN L = DOMAIN M /\ \A i \in DOMAIN L : L[i].id = M[i].id
           /\ IdsOf(L) = IdsOf(M) /\ (Unique(L) <=> Unique(M))
  <1>1. DOMAIN L = DOMAIN M
    BY DEF Names
  <1>2. \A i \in DOMAIN L : L[i].id = M[i].id
    <2>1. \A i \in DOMAIN L : Names(L)[i] = L[i].id
      BY DEF Names
    <2>2. \A i \in DOMAIN M : Names(M)[i] = M[i].id
      BY DEF Names
    <2> QED
      BY <1>1, <2>1, <2>2
  <1> QED
    BY <1>1, <1>2 DEF IdsOf, Unique

\* A list whose records are replaced by others of the same ids.
LEMMA SameNames ==
    ASSUME NEW T, NEW U, NEW L \in Seq(T), NEW M \in Seq(U), DOMAIN L = DOMAIN M,
           \A i \in DOMAIN L : L[i].id = M[i].id
    PROVE  Names(L) = Names(M)
  BY DEF Names

\* The ids of a list are those of its elements.
LEMMA ElsIds == ASSUME NEW L PROVE IdsOf(L) = {b.id : b \in Els(L)}
  BY DEF IdsOf, Els

\* Looking up an id of the list finds the element that has it.
LEMMA GetLaws ==
    ASSUME NEW T, NEW L \in Seq(T), NEW id \in IdsOf(L)
    PROVE  /\ Get(L, id) \in Els(L) /\ Get(L, id) \in T /\ Get(L, id).id = id
           /\ Unique(L) => \A b \in Els(L) : b.id = id => b = Get(L, id)
  <1> DEFINE k == CHOOSE i \in DOMAIN L : L[i].id = id
  <1>1. k \in DOMAIN L /\ L[k].id = id
    BY DEF IdsOf
  <1>2. Get(L, id) = L[k]
    BY DEF Get
  <1> HIDE DEF k
  <1>3. L[k] \in T
    BY <1>1
  <1> QED
    BY <1>1, <1>2, <1>3 DEF Els, Unique

\* Replacing one record changes that element and no id.
LEMMA PutLaws ==
    ASSUME NEW L \in Seq(Settings), Unique(L), NEW r \in Settings, r.id \in IdsOf(L)
    PROVE  /\ Put(L, r) \in Seq(Settings) /\ Names(Put(L, r)) = Names(L)
           /\ Unique(Put(L, r)) /\ IdsOf(Put(L, r)) = IdsOf(L)
           /\ Els(Put(L, r)) = {x \in Els(L) : x.id # r.id} \cup {r}
           /\ r = Get(L, r.id) => Put(L, r) = L
  <1> DEFINE M == Put(L, r)
  <1>1. /\ DOMAIN L = 1 .. Len(L) /\ Len(L) \in Nat /\ \A i \in 1 .. Len(L) : L[i] \in Settings
        /\ M = [i \in 1 .. Len(L) |-> IF L[i].id = r.id THEN r ELSE L[i]]
    BY DEF Put
  <1>2. M \in Seq(Settings) /\ DOMAIN M = DOMAIN L
    BY <1>1
  <1>3. \A i \in DOMAIN L : M[i] = IF L[i].id = r.id THEN r ELSE L[i]
    BY <1>1
  <1> HIDE DEF M
  <1>4. Names(M) = Names(L)
    <2>1. \A i \in DOMAIN L : M[i].id = L[i].id
      BY <1>3
    <2> QED
      BY <1>2, <2>1, SameNames
  <1>5. Unique(M) /\ IdsOf(M) = IdsOf(L)
    BY <1>2, <1>4, NameLaws
  <1>6. Els(M) = {x \in Els(L) : x.id # r.id} \cup {r}
    BY <1>2, <1>3 DEF Els, IdsOf
  <1>7. ASSUME r = Get(L, r.id) PROVE M = L
    <2>1. \A i \in DOMAIN L : L[i].id = r.id => L[i] = r
      BY <1>7, GetLaws DEF Els
    <2>2. \A i \in DOMAIN L : M[i] = L[i]
      BY <1>3, <2>1
    <2>3. Len(M) = Len(L)
      BY <1>1, <1>2 DEF M
    <2> QED
      BY <1>1, <1>2, <2>2, <2>3, SeqEqual
  <1> QED
    BY <1>2, <1>4, <1>5, <1>6, <1>7 DEF M

\* rebuildNodePool gives every subscription of the list its block, in its order.
LEMMA RebuiltLaws ==
    ASSUME NEW list \in Seq(Settings), NEW nodes \in Seq(Blocks), Unique(list), Unique(nodes),
           NEW block \in Blocks, IdsOf(list) \ {block.id} \subseteq IdsOf(nodes)
    PROVE  LET R == Rebuilt(nodes, list, block)
           IN  /\ R \in Seq(Blocks) /\ Names(R) = Names(list)
               /\ Unique(R) /\ IdsOf(R) = IdsOf(list)
               /\ \A b \in Els(R) : b = block \/ (b.id # block.id /\ b \in Els(nodes))
  <1> DEFINE X(i) == IF list[i].id = block.id THEN block ELSE Get(nodes, list[i].id)
             x == [i \in 1 .. Len(list) |-> X(i)]
             R == Rebuilt(nodes, list, block)
  <1>1. DOMAIN list = 1 .. Len(list) /\ Len(list) \in Nat
    OBVIOUS
  <1>2. ASSUME NEW i \in 1 .. Len(list)
        PROVE  /\ X(i) \in Blocks /\ X(i).id = list[i].id
               /\ X(i) = block \/ (X(i).id # block.id /\ X(i) \in Els(nodes))
               /\ (IF list[i].id = block.id THEN <<block>> ELSE Those(nodes, {list[i].id})) = <<X(i)>>
    <2>1. CASE list[i].id = block.id
      BY <2>1
    <2>2. CASE list[i].id # block.id
      <3>1. list[i].id \in IdsOf(nodes)
        BY <1>1, <2>2 DEF IdsOf
      <3>2. PICK k \in DOMAIN nodes : nodes[k].id = list[i].id
        BY <3>1 DEF IdsOf
      <3>3. nodes[k] \in Els(nodes)
        BY DEF Els
      <3>4. /\ Get(nodes, list[i].id) = nodes[k] /\ Get(nodes, list[i].id) \in Blocks
            /\ Get(nodes, list[i].id) \in Els(nodes)
        BY <3>1, <3>2, <3>3, GetLaws
      <3>5. Those(nodes, {nodes[k].id}) = <<nodes[k]>>
        BY ThoseOne
      <3> QED
        BY <2>2, <3>2, <3>4, <3>5
    <2> QED
      BY <2>1, <2>2
  <1>3. x \in Seq(Blocks) /\ DOMAIN x = DOMAIN list
    <2>1. \A i \in 1 .. Len(list) : X(i) \in Blocks
      BY <1>2
    <2> HIDE DEF X
    <2> QED
      BY <1>1, <2>1
  <1>4. R = x
    <2>1. [i \in DOMAIN list |-> IF list[i].id = block.id THEN <<block>> ELSE Those(nodes, {list[i].id})]
            = [i \in DOMAIN x |-> <<x[i]>>]
      <3>1. \A i \in 1 .. Len(list) : x[i] = X(i)
        OBVIOUS
      <3> HIDE DEF x, X
      <3> QED
        BY <1>1, <1>2, <1>3, <3>1
    <2>2. FlattenSeq([i \in DOMAIN x |-> <<x[i]>>]) = x
      <3> HIDE DEF x
      <3> QED
        BY <1>3, FlattenOnes
    <2> HIDE DEF x
    <2> QED
      BY <2>1, <2>2 DEF Rebuilt
  <1>5. Names(x) = Names(list)
    <2>1. \A i \in DOMAIN list : x[i].id = list[i].id
      BY <1>1, <1>2
    <2> HIDE DEF x
    <2> QED
      BY <1>3, <2>1, SameNames
  <1>6. \A b \in Els(x) : b = block \/ (b.id # block.id /\ b \in Els(nodes))
    <2>1. \A i \in DOMAIN x : x[i] = block \/ (x[i].id # block.id /\ x[i] \in Els(nodes))
      BY <1>1, <1>2
    <2> HIDE DEF x
    <2> QED
      BY <2>1 DEF Els
  <1> HIDE DEF x
  <1>7. Unique(x) /\ IdsOf(x) = IdsOf(list)
    BY <1>3, <1>5, NameLaws
  <1> QED
    BY <1>3, <1>4, <1>5, <1>6, <1>7

\* The elements and ids of a concatenation.
LEMMA ConcatLaws ==
    ASSUME NEW T, NEW L \in Seq(T), NEW M \in Seq(T), Unique(L), Unique(M), IdsOf(L) \cap IdsOf(M) = {}
    PROVE  L \o M \in Seq(T) /\ Els(L \o M) = Els(L) \cup Els(M) /\ Unique(L \o M)
  <1> DEFINE C == L \o M
             m == Len(L)
             n == Len(M)
  <1>1. C \in Seq(T) /\ DOMAIN C = 1 .. m + n /\ m \in Nat /\ n \in Nat
    OBVIOUS
  <1>2. DOMAIN L = 1 .. m /\ DOMAIN M = 1 .. n
    OBVIOUS
  <1>3. \A i \in 1 .. m : C[i] = L[i]
    OBVIOUS
  <1>4. \A i \in 1 .. n : C[m + i] = M[i]
    OBVIOUS
  <1> HIDE DEF C, m, n
  <1>5. \A i \in 1 .. m + n : i \in 1 .. m \/ (i - m \in 1 .. n /\ m + (i - m) = i)
    BY <1>1
  <1>6. \A i \in 1 .. m : i \in 1 .. m + n
    BY <1>1
  <1>7. \A i \in 1 .. n : m + i \in 1 .. m + n
    BY <1>1
  <1>8. \A i \in DOMAIN C : (i \in DOMAIN L /\ C[i] = L[i]) \/ (i - m \in DOMAIN M /\ C[i] = M[i - m])
    <2> SUFFICES ASSUME NEW i \in DOMAIN C
                 PROVE  (i \in DOMAIN L /\ C[i] = L[i]) \/ (i - m \in DOMAIN M /\ C[i] = M[i - m])
      OBVIOUS
    <2>1. CASE i \in 1 .. m
      BY <1>2, <1>3, <2>1
    <2>2. CASE i \notin 1 .. m
      <3>1. i - m \in 1 .. n /\ m + (i - m) = i
        BY <1>1, <1>5, <2>2
      <3>2. C[m + (i - m)] = M[i - m]
        BY <1>4, <3>1
      <3> QED
        BY <1>2, <3>1, <3>2
    <2> QED
      BY <2>1, <2>2
  <1>9. Els(C) = Els(L) \cup Els(M)
    <2>1. Els(C) \subseteq Els(L) \cup Els(M)
      BY <1>8 DEF Els
    <2>2. Els(L) \subseteq Els(C)
      BY <1>1, <1>2, <1>3, <1>6 DEF Els
    <2>3. Els(M) \subseteq Els(C)
      <3> SUFFICES ASSUME NEW i \in DOMAIN M PROVE M[i] \in Els(C)
        BY DEF Els
      <3>1. m + i \in DOMAIN C /\ C[m + i] = M[i]
        BY <1>1, <1>2, <1>4, <1>7
      <3> QED
        BY <3>1 DEF Els
    <2> QED
      BY <2>1, <2>2, <2>3
  <1>10. Unique(C)
    <2> SUFFICES ASSUME NEW i \in DOMAIN C, NEW k \in DOMAIN C, C[i].id = C[k].id PROVE i = k
      BY DEF Unique
    <2>1. CASE i \in DOMAIN L /\ C[i] = L[i] /\ k \in DOMAIN L /\ C[k] = L[k]
      BY <2>1 DEF Unique
    <2>2. CASE i - m \in DOMAIN M /\ C[i] = M[i - m] /\ k - m \in DOMAIN M /\ C[k] = M[k - m]
      <3>1. i - m = k - m
        BY <2>2 DEF Unique
      <3>2. i \in Int /\ k \in Int /\ m \in Int
        BY <1>1
      <3> QED
        BY <3>1, <3>2
    <2>3. CASE \/ i \in DOMAIN L /\ C[i] = L[i] /\ k - m \in DOMAIN M /\ C[k] = M[k - m]
               \/ k \in DOMAIN L /\ C[k] = L[k] /\ i - m \in DOMAIN M /\ C[i] = M[i - m]
      BY <2>3 DEF IdsOf
    <2> QED
      BY <1>8, <2>1, <2>2, <2>3
  <1> QED
    BY <1>1, <1>9, <1>10 DEF C

\* Another order of a list has the same records.
LEMMA Reordering ==
    ASSUME NEW T, NEW L \in Seq(T), Unique(L), NEW M \in SetToSeqs(Els(L))
    PROVE  M \in Seq(T) /\ Els(M) = Els(L) /\ IdsOf(M) = IdsOf(L) /\ Unique(M)
  <1> DEFINE S == Els(L)
             n == Cardinality(S)
             f == [i \in 1 .. Len(L) |-> L[i]]
  <1>1. IsFiniteSet(S)
    <2>1. f \in Surjection(1 .. Len(L), S)
      <3>1. DOMAIN L = 1 .. Len(L)
        OBVIOUS
      <3>2. f \in [1 .. Len(L) -> S] /\ \A t \in S : \E i \in 1 .. Len(L) : f[i] = t
        BY <3>1 DEF Els
      <3> QED
        BY <3>2 DEF Surjection
    <2>2. IsFiniteSet(1 .. Len(L))
      BY FS_Interval
    <2> HIDE DEF S, f
    <2> QED
      BY <2>1, <2>2, FS_Surjection
  <1>2. n \in Nat
    BY <1>1, FS_CardinalityType
  <1>3. M \in [1 .. n -> S] /\ \A i, j \in 1 .. n : i # j => M[i] # M[j]
    BY DEF SetToSeqs
  <1>4. S \subseteq T
    BY DEF Els
  <1>5. \A b, c \in S : b.id = c.id => b = c
    BY DEF Els, Unique
  <1> HIDE DEF S, n
  <1>6. M \in Injection(1 .. n, S)
    BY <1>3 DEF Injection, IsInjective
  <1>7. M \in Surjection(1 .. n, S)
    <2>1. Cardinality(1 .. n) = n
      BY <1>2, FS_Interval
    <2>2. Cardinality(1 .. n) = Cardinality(S)
      BY <2>1 DEF n
    <2> QED
      BY <1>1, <1>6, <2>2, FS_Injection
  <1>8. DOMAIN M = 1 .. n /\ M \in Seq(T)
    BY <1>2, <1>3, <1>4
  <1>9. Els(M) = S
    BY <1>3, <1>7, <1>8 DEF Els, Surjection
  <1>10. Unique(M)
    BY <1>3, <1>5, <1>8 DEF Unique
  <1>11. Els(M) = Els(L)
    BY <1>9 DEF S
  <1>12. IdsOf(M) = IdsOf(L)
    BY <1>11, ElsIds
  <1> QED
    BY <1>8, <1>10, <1>11, <1>12

\* orderNodesBySubscriptions keeps all nodes, those of the list in its order.
LEMMA OrderedLaws ==
    ASSUME NEW list \in Seq(Settings), NEW nodes \in Seq(Blocks), Unique(list), Unique(nodes),
           IdsOf(list) \subseteq IdsOf(nodes)
    PROVE  LET R == Ordered(nodes, list)
           IN  /\ R \in Seq(Blocks) /\ Els(R) = Els(nodes) /\ IdsOf(R) = IdsOf(nodes) /\ Unique(R)
               /\ Names(Those(R, IdsOf(list))) = Names(list)
  <1> DEFINE X(i) == Get(nodes, list[i].id)
             x == [i \in 1 .. Len(list) |-> X(i)]
             y == Those(nodes, IdsOf(nodes) \ IdsOf(list))
             R == Ordered(nodes, list)
  <1>1. DOMAIN list = 1 .. Len(list) /\ Len(list) \in Nat
    OBVIOUS
  <1>2. ASSUME NEW i \in 1 .. Len(list)
        PROVE  /\ X(i) \in Blocks /\ X(i).id = list[i].id /\ X(i) \in Els(nodes)
               /\ Those(nodes, {list[i].id}) = <<X(i)>>
    <2>1. list[i].id \in IdsOf(nodes)
      BY <1>1 DEF IdsOf
    <2>2. PICK k \in DOMAIN nodes : nodes[k].id = list[i].id
      BY <2>1 DEF IdsOf
    <2>3. nodes[k] \in Els(nodes)
      BY DEF Els
    <2>4. /\ Get(nodes, list[i].id) = nodes[k] /\ Get(nodes, list[i].id) \in Blocks
          /\ Get(nodes, list[i].id) \in Els(nodes)
      BY <2>1, <2>2, <2>3, GetLaws
    <2>5. Those(nodes, {nodes[k].id}) = <<nodes[k]>>
      BY ThoseOne
    <2> QED
      BY <2>2, <2>4, <2>5
  <1>3. x \in Seq(Blocks) /\ DOMAIN x = DOMAIN list
    <2>1. \A i \in 1 .. Len(list) : X(i) \in Blocks
      BY <1>2
    <2> HIDE DEF X
    <2> QED
      BY <1>1, <2>1
  <1>4. \A i \in 1 .. Len(list) : x[i] = X(i)
    OBVIOUS
  <1>5. R = x \o y
    <2>1. [i \in DOMAIN list |-> Those(nodes, {list[i].id})] = [i \in DOMAIN x |-> <<x[i]>>]
      <3> HIDE DEF x, X
      <3> QED
        BY <1>1, <1>2, <1>3, <1>4
    <2>2. FlattenSeq([i \in DOMAIN x |-> <<x[i]>>]) = x
      <3> HIDE DEF x
      <3> QED
        BY <1>3, FlattenOnes
    <2> HIDE DEF x
    <2> QED
      BY <2>1, <2>2 DEF Ordered
  <1>6. Names(x) = Names(list)
    <2>1. \A i \in DOMAIN list : x[i].id = list[i].id
      BY <1>1, <1>2
    <2> HIDE DEF x
    <2> QED
      BY <1>3, <2>1, SameNames
  <1>7. Els(x) \subseteq Els(nodes)
    <2>1. \A i \in DOMAIN x : x[i] \in Els(nodes)
      BY <1>1, <1>2
    <2> HIDE DEF x
    <2> QED
      BY <2>1 DEF Els
  <1>8. /\ y \in Seq(Blocks) /\ Unique(y) /\ IdsOf(y) = IdsOf(nodes) \ IdsOf(list)
        /\ Els(y) = {b \in Els(nodes) : b.id \in IdsOf(nodes) \ IdsOf(list)}
    <2> DEFINE A == IdsOf(nodes) \ IdsOf(list)
    <2>1. /\ Those(nodes, A) \in Seq(Blocks) /\ IdsOf(Those(nodes, A)) = IdsOf(nodes) \cap A
          /\ Els(Those(nodes, A)) = {b \in Els(nodes) : b.id \in A}
          /\ Unique(nodes) => Unique(Those(nodes, A))
      <3> HIDE DEF A
      <3> QED
        BY ThoseMembers
    <2> QED
      BY <2>1
  <1> HIDE DEF x, y
  <1>9. Unique(x) /\ IdsOf(x) = IdsOf(list)
    BY <1>3, <1>6, NameLaws
  <1>10. x \o y \in Seq(Blocks) /\ Els(x \o y) = Els(x) \cup Els(y) /\ Unique(x \o y)
    BY <1>3, <1>8, <1>9, ConcatLaws
  <1>11. Els(nodes) \subseteq Els(x) \cup Els(y)
    <2> SUFFICES ASSUME NEW b \in Els(nodes), b.id \in IdsOf(list) PROVE b \in Els(x)
      BY <1>8, ElsIds
    <2>1. PICK i \in DOMAIN x : x[i].id = b.id
      BY <1>9 DEF IdsOf
    <2>2. x[i] \in Els(nodes) /\ x[i] \in Els(x)
      BY <1>7 DEF Els
    <2>3. x[i] = b
      BY <2>1, <2>2 DEF Els, Unique
    <2> QED
      BY <2>2, <2>3
  <1>12. Els(x \o y) = Els(nodes)
    BY <1>7, <1>8, <1>10, <1>11
  <1>13. IdsOf(x \o y) = IdsOf(nodes)
    BY <1>12, ElsIds
  <1>14. Those(x \o y, IdsOf(list)) = x
    <2> DEFINE A == IdsOf(list)
    <2>1. Those(x, A) = x
      BY <1>3, <1>9, ThoseAll
    <2>2. IdsOf(y) \cap A = {}
      BY <1>8
    <2> HIDE DEF A
    <2>3. Those(y, A) = <<>>
      BY <1>8, <2>2, ThoseNone
    <2>4. Those(x \o y, A) = Those(x, A) \o Those(y, A)
      BY <1>3, <1>8, ThoseConcat
    <2>5. x \o <<>> = x
      BY <1>3
    <2>6. Those(x \o y, A) = x
      BY <2>1, <2>3, <2>4, <2>5
    <2> QED
      BY <2>6 DEF A
  <1> QED
    BY <1>5, <1>6, <1>10, <1>12, <1>13, <1>14

\* What a fetch was begun with.
JobOK(j) ==
    /\ j.op \in {"create", "edit", "refresh"} /\ j.new \in Settings /\ j.ver \in Nat
    /\ j.op = "create" => j.new.id \notin DOMAIN saved
    /\ j.op = "refresh" => j.old = j.new

ListInv ==
    /\ ListOK(subs, pool, saved, torn) /\ upstream \in [Srcs -> Nat]
    /\ job # Nothing => JobOK(job)
    /\ tick.pc = "fetch" => JobOK(tick.job) /\ tick.job.op = "refresh"

\* A fetched block is a block of nodes of the subscription it was fetched for.
LEMMA BlockType == ASSUME NEW r \in Settings, NEW ver \in Nat
                   PROVE  Block(r, ver) \in Blocks /\ Block(r, ver).id = r.id /\ Block(r, ver).src = r.src
  BY DEF Block, Blocks, Settings

\* The list that a job writes, and what the user saved with it.
LEMMA WrittenLaws ==
    ASSUME ListOK(subs, pool, saved, torn), NEW j, JobOK(j), ~Void(j)
    PROVE  LET list == Written(j)
               kept == IF j.op = "refresh" THEN saved ELSE With(saved, j.new.id, j.new)
           IN  /\ list \in Seq(Settings) /\ Unique(list) /\ IdsOf(list) = IdsOf(subs) \cup {j.new.id}
               /\ Names(Those(list, IdsOf(subs))) = Names(subs)
               /\ \E r \in Els(list) : r.id = j.new.id /\ r.src = j.new.src
               /\ \A r \in Els(subs) : r.id # j.new.id => r \in Els(list)
               /\ \A r \in Els(list) : r = kept[r.id]
               /\ kept \in [DOMAIN kept -> Settings] /\ DOMAIN kept = DOMAIN saved \cup {j.new.id}
               /\ j.new.id \in DOMAIN saved => j.new.id \in IdsOf(subs)
  <1> DEFINE list == Written(j)
             kept == IF j.op = "refresh" THEN saved ELSE With(saved, j.new.id, j.new)
  <1>0. /\ subs \in Seq(Settings) /\ Unique(subs) /\ saved \in [DOMAIN saved -> Settings]
        /\ IdsOf(subs) \subseteq DOMAIN saved /\ \A r \in Els(subs) : r = saved[r.id]
        /\ j.new \in Settings
    BY DEF ListOK, JobOK
  <1>1. Those(subs, IdsOf(subs)) = subs
    BY <1>0, ThoseAll
  <1>2. \A r \in Els(subs) : r.id \in IdsOf(subs)
    BY DEF Els, IdsOf
  <1>3. /\ With(saved, j.new.id, j.new) \in [DOMAIN saved \cup {j.new.id} -> Settings]
        /\ With(saved, j.new.id, j.new)[j.new.id] = j.new
        /\ \A i \in DOMAIN saved : i # j.new.id => With(saved, j.new.id, j.new)[i] = saved[i]
    BY <1>0 DEF With
  <1>4. CASE j.op = "create"
    <2>1. list = Append(subs, j.new) /\ j.new.id \notin DOMAIN saved /\ kept = With(saved, j.new.id, j.new)
      BY <1>4 DEF Written, JobOK
    <2> HIDE DEF list, kept
    <2>2. /\ list \in Seq(Settings) /\ Unique(list) /\ IdsOf(list) = IdsOf(subs) \cup {j.new.id}
          /\ Els(list) = Els(subs) \cup {j.new}
      BY <1>0, <2>1, AppendLaws
    <2>3. Names(Those(list, IdsOf(subs))) = Names(subs)
      <3> DEFINE A == IdsOf(subs)
      <3>1. j.new.id \notin A
        BY <1>0, <2>1
      <3>2. Those(Append(subs, j.new), A) = IF j.new.id \in A THEN Append(Those(subs, A), j.new) ELSE Those(subs, A)
        <4> DEFINE x == j.new
        <4>1. x \in Settings /\ subs \in Seq(Settings)
          BY <1>0
        <4> HIDE DEF A, x
        <4>2. Those(Append(subs, x), A) = IF x.id \in A THEN Append(Those(subs, A), x) ELSE Those(subs, A)
          BY <4>1, ThoseAppend
        <4> QED
          BY <4>2 DEF x
      <3> QED
        BY <1>1, <2>1, <3>1, <3>2
    <2>4. \A r \in Els(list) : r = kept[r.id]
      BY <1>0, <1>2, <1>3, <2>1, <2>2
    <2>5. kept \in [DOMAIN kept -> Settings] /\ DOMAIN kept = DOMAIN saved \cup {j.new.id}
      BY <1>3, <2>1
    <2> QED
      BY <2>1, <2>2, <2>3, <2>4, <2>5 DEF list, kept
  <1>5. CASE j.op = "edit"
    <2>1. list = Put(subs, j.new) /\ j.new.id \in IdsOf(subs) /\ kept = With(saved, j.new.id, j.new)
      BY <1>5 DEF Written, Void
    <2> HIDE DEF list, kept
    <2>2. /\ list \in Seq(Settings) /\ Unique(list) /\ IdsOf(list) = IdsOf(subs) /\ Names(list) = Names(subs)
          /\ Els(list) = {r \in Els(subs) : r.id # j.new.id} \cup {j.new}
      BY <1>0, <2>1, PutLaws
    <2>3. Names(Those(list, IdsOf(subs))) = Names(subs)
      <3>1. Those(list, IdsOf(list)) = list
        BY <2>2, ThoseAll
      <3> QED
        BY <2>2, <3>1
    <2>4. \A r \in Els(list) : r = kept[r.id]
      BY <1>0, <1>2, <1>3, <2>1, <2>2
    <2>5. kept \in [DOMAIN kept -> Settings] /\ DOMAIN kept = DOMAIN saved \cup {j.new.id}
      BY <1>3, <2>1
    <2> QED
      BY <2>1, <2>2, <2>3, <2>4, <2>5 DEF list, kept
  <1>6. CASE j.op = "refresh"
    <2> DEFINE now == Get(subs, j.new.id)
    <2>1. j.new.id \in IdsOf(subs) /\ now.src = j.new.src
      BY <1>6 DEF Void, JobOK
    <2>2. now \in Els(subs) /\ now \in Settings /\ now.id = j.new.id
      BY <1>0, <2>1, GetLaws
    <2>3. list = Put(subs, now) /\ kept = saved
      BY <1>6, <2>1 DEF Written, Refreshed
    <2> HIDE DEF list, kept
    <2>4. list = subs
      <3> DEFINE r == now
      <3>1. r \in Settings /\ r.id \in IdsOf(subs) /\ r = Get(subs, r.id) /\ list = Put(subs, r)
        BY <2>1, <2>2, <2>3
      <3> HIDE DEF r
      <3> QED
        BY <1>0, <3>1, PutLaws
    <2>5. /\ list \in Seq(Settings) /\ Unique(list) /\ IdsOf(list) = IdsOf(subs) \cup {j.new.id}
          /\ Names(Those(list, IdsOf(subs))) = Names(subs)
      BY <1>0, <1>1, <2>1, <2>4
    <2>6. \E r \in Els(list) : r.id = j.new.id /\ r.src = j.new.src
      BY <2>1, <2>2, <2>4
    <2>7. \A r \in Els(list) : r = kept[r.id]
      BY <1>0, <2>3, <2>4
    <2>8. kept \in [DOMAIN kept -> Settings] /\ DOMAIN kept = DOMAIN saved \cup {j.new.id}
      BY <1>0, <2>1, <2>3
    <2> QED
      BY <2>1, <2>4, <2>5, <2>6, <2>7, <2>8 DEF list, kept
  <1> QED
    BY <1>4, <1>5, <1>6 DEF JobOK

\* The pool is rebuilt and then the list written, or a death comes between the two.
LEMMA ListWritten ==
    ASSUME ListOK(subs, pool, saved, torn), NEW j, JobOK(j), ~Void(j), NEW ver \in Nat
    PROVE  LET list == Written(j)
               nodes == Rebuilt(pool, list, Block(j.new, ver))
               kept == IF j.op = "refresh" THEN saved ELSE With(saved, j.new.id, j.new)
           IN  /\ ListOK(list, nodes, kept, torn \ {j.new.id, Order})
               /\ ListOK(subs, nodes, saved, torn \cup {j.new.id})
               /\ IdsOf(list) = IdsOf(subs) \cup {j.new.id} /\ IdsOf(nodes) = IdsOf(list)
               /\ j.new.id \in DOMAIN saved => j.new.id \in IdsOf(subs)
  <1> DEFINE list == Written(j)
             id == j.new.id
             block == Block(j.new, ver)
             nodes == Rebuilt(pool, list, block)
             kept == IF j.op = "refresh" THEN saved ELSE With(saved, id, j.new)
  <1>1. /\ list \in Seq(Settings) /\ Unique(list) /\ IdsOf(list) = IdsOf(subs) \cup {id}
        /\ Names(Those(list, IdsOf(subs))) = Names(subs)
        /\ \E r \in Els(list) : r.id = id /\ r.src = j.new.src
        /\ \A r \in Els(subs) : r.id # id => r \in Els(list)
        /\ \A r \in Els(list) : r = kept[r.id]
        /\ kept \in [DOMAIN kept -> Settings] /\ DOMAIN kept = DOMAIN saved \cup {id}
        /\ id \in DOMAIN saved => id \in IdsOf(subs)
    BY WrittenLaws
  <1>2. block \in Blocks /\ block.id = id /\ block.src = j.new.src /\ id \in Ids
    BY BlockType DEF JobOK, Settings
  <1>3. /\ subs \in Seq(Settings) /\ Unique(subs) /\ pool \in Seq(Blocks) /\ Unique(pool)
        /\ saved \in [DOMAIN saved -> Settings] /\ DOMAIN saved \subseteq Ids
        /\ IdsOf(subs) \subseteq DOMAIN saved /\ \A r \in Els(subs) : r = saved[r.id]
        /\ \A b \in Els(pool) : b.id \in torn \/ \E r \in Els(subs) : r.id = b.id /\ r.src = b.src
        /\ IdsOf(subs) \subseteq IdsOf(pool)
    BY DEF ListOK
  <1> HIDE DEF list, block, kept, id
  <1>4. /\ nodes \in Seq(Blocks) /\ Names(nodes) = Names(list) /\ Unique(nodes) /\ IdsOf(nodes) = IdsOf(list)
        /\ \A b \in Els(nodes) : b = block \/ (b.id # block.id /\ b \in Els(pool))
    <2>1. IdsOf(list) \ {block.id} \subseteq IdsOf(pool)
      BY <1>1, <1>2, <1>3
    <2> QED
      BY <1>1, <1>2, <1>3, <2>1, RebuiltLaws
  <1> HIDE DEF nodes
  <1>5. Order \notin Ids /\ \A b \in Els(nodes) : b.id \in Ids
    <2>1. Order \notin Ids
      BY SubscriptionsAssumption
    <2>2. \A i \in DOMAIN nodes : nodes[i] \in Blocks
      BY <1>4
    <2> QED
      BY <2>1, <2>2 DEF Els, Blocks
  <1>6. ListOK(list, nodes, kept, torn \ {id, Order})
    <2>1. \A b \in Els(nodes) :
              b.id \in torn \ {id, Order} \/ \E r \in Els(list) : r.id = b.id /\ r.src = b.src
      BY <1>1, <1>2, <1>3, <1>4, <1>5
    <2>2. Names(Those(nodes, IdsOf(list))) = Names(list)
      <3>1. Those(nodes, IdsOf(nodes)) = nodes
        BY <1>4, ThoseAll
      <3> QED
        BY <1>4, <3>1
    <2> QED
      BY <1>1, <1>2, <1>3, <1>4, <2>1, <2>2 DEF ListOK
  <1>7. ListOK(subs, nodes, saved, torn \cup {id})
    <2>1. \A b \in Els(nodes) :
              b.id \in torn \cup {id} \/ \E r \in Els(subs) : r.id = b.id /\ r.src = b.src
      BY <1>2, <1>3, <1>4
    <2>2. Names(Those(nodes, IdsOf(subs))) = Names(subs)
      <3> DEFINE A == IdsOf(subs)
      <3>1. Names(Those(nodes, A)) = Names(Those(list, A))
        <4> HIDE DEF A
        <4> QED
          BY <1>1, <1>4, ThoseNames
      <3> QED
        BY <1>1, <3>1
    <2> QED
      BY <1>1, <1>3, <1>4, <2>1, <2>2 DEF ListOK
  <1> QED
    BY <1>1, <1>4, <1>6, <1>7 DEF list, nodes, kept, block, id

\* An answer is a version of the address.
LEMMA AnswersType == ASSUME upstream \in [Srcs -> Nat], NEW j, JobOK(j) PROVE Answers(j) \subseteq Nat
  BY DEF Answers, JobOK, Settings

listVars == <<subs, pool, saved, torn>>

\* A step that writes neither record and begins no fetch.
LEMMA ListSame ==
    ASSUME ListInv, UNCHANGED listVars, upstream' \in [Srcs -> Nat], job' \in {job, Nothing},
           tick'.pc = "fetch" => tick.pc = "fetch" /\ tick'.job = tick.job
    PROVE  ListInv' /\ Buried
  <1>1. \A j : JobOK(j) => JobOK(j)'
    BY DEF listVars, JobOK
  <1>2. ListOK(subs', pool', saved', torn')
    BY DEF listVars, ListInv
  <1>3. job' # Nothing => JobOK(job)'
    <2> SUFFICES ASSUME job' # Nothing PROVE JobOK(job)'
      OBVIOUS
    <2>1. job' = job /\ JobOK(job)
      BY DEF ListInv
    <2> QED
      BY <2>1 DEF listVars, JobOK
  <1>4. tick'.pc = "fetch" => JobOK(tick.job)' /\ tick'.job.op = "refresh"
    BY DEF ListInv, listVars, JobOK
  <1>5. Buried
    BY DEF listVars, Buried
  <1> QED
    BY <1>2, <1>3, <1>4, <1>5 DEF ListInv

\* A request that starts a fetch writes nothing.
LEMMA ListBegin ==
    ASSUME ListInv, NEW op, NEW old, NEW new, NEW cost, Begin(op, old, new, cost),
           op \in {"create", "edit", "refresh"}, new \in Settings,
           op = "create" => new.id \notin DOMAIN saved, op = "refresh" => old = new
    PROVE  ListInv' /\ Buried
  <1>1. /\ UNCHANGED <<subs, pool, saved, torn, upstream, tick>>
        /\ job' = [op |-> op, old |-> old, new |-> new, ver |-> upstream[new.src]]
    BY DEF Begin, store
  <1>2. upstream[new.src] \in Nat
    BY DEF ListInv, Settings
  <1>3. JobOK(job)'
    BY <1>1, <1>2 DEF JobOK
  <1>4. tick'.pc = "fetch" => JobOK(tick.job)' /\ tick'.job.op = "refresh"
    BY <1>1 DEF ListInv, JobOK
  <1>5. ListOK(subs', pool', saved', torn') /\ upstream' \in [Srcs -> Nat]
    BY <1>1 DEF ListInv
  <1> QED
    BY <1>1, <1>3, <1>4, <1>5 DEF ListInv, Buried

\* The three requests that fetch.
LEMMA ListBegins == ASSUME ListInv, BeginCreate \/ BeginRefresh \/ BeginEdit PROVE ListInv' /\ Buried
  <1>1. subs \in Seq(Settings) /\ \A i \in DOMAIN subs : subs[i] \in Settings
    BY DEF ListInv, ListOK
  <1>2. CASE BeginCreate
    <2>1. PICK id \in Ids \ (DOMAIN saved \cup torn), src \in Srcs, plan \in Plans \cup {NoPlan} :
              Begin("create", Nothing, [id |-> id, src |-> src, plan |-> plan, on |-> TRUE], "creates")
      BY <1>2 DEF BeginCreate
    <2> DEFINE r == [id |-> id, src |-> src, plan |-> plan, on |-> TRUE]
    <2>2. r \in Settings /\ r.id \notin DOMAIN saved
      BY DEF Settings
    <2> HIDE DEF r
    <2>3. Begin("create", Nothing, r, "creates")
      BY <2>1 DEF r
    <2> QED
      BY <2>2, <2>3, ListBegin
  <1>3. CASE BeginRefresh
    BY <1>1, <1>3, ListBegin DEF BeginRefresh
  <1>4. CASE BeginEdit
    <2>1. PICK i \in DOMAIN subs, src \in Srcs, plan \in Plans \cup {NoPlan} :
              Begin("edit", subs[i], [subs[i] EXCEPT !.src = src, !.plan = plan], "requests")
      BY <1>4 DEF BeginEdit
    <2> DEFINE r == [subs[i] EXCEPT !.src = src, !.plan = plan]
    <2>2. r \in Settings
      BY <1>1 DEF Settings
    <2> HIDE DEF r
    <2>3. Begin("edit", subs[i], r, "requests")
      BY <2>1 DEF r
    <2> QED
      BY <2>2, <2>3, ListBegin
  <1> QED
    BY <1>2, <1>3, <1>4

\* The same address and another switch or plan.
LEMMA ListEditInPlace == ASSUME ListInv, EditInPlace PROVE ListInv' /\ Buried
  <1>1. PICK i \in DOMAIN subs, on \in BOOLEAN, plan \in Plans \cup {NoPlan} :
            LET r == [subs[i] EXCEPT !.on = on, !.plan = plan]
            IN  subs' = Put(subs, r) /\ saved' = [saved EXCEPT ![r.id] = r]
    BY DEF EditInPlace
  <1> DEFINE r == [subs[i] EXCEPT !.on = on, !.plan = plan]
  <1>2. UNCHANGED <<upstream, pool, torn, job, tick>>
    BY DEF EditInPlace, Waits
  <1>3. /\ subs \in Seq(Settings) /\ Unique(subs) /\ pool \in Seq(Blocks) /\ Unique(pool)
        /\ saved \in [DOMAIN saved -> Settings] /\ DOMAIN saved \subseteq Ids
        /\ IdsOf(subs) \subseteq DOMAIN saved /\ \A x \in Els(subs) : x = saved[x.id]
        /\ \A b \in Els(pool) : b.id \in torn \/ \E x \in Els(subs) : x.id = b.id /\ x.src = b.src
        /\ IdsOf(subs) \subseteq IdsOf(pool)
        /\ Order \in torn \/ Names(Those(pool, IdsOf(subs))) = Names(subs)
    BY DEF ListInv, ListOK
  <1>4. subs[i] \in Settings /\ subs[i] \in Els(subs) /\ subs[i].id \in IdsOf(subs)
    BY <1>3 DEF Els, IdsOf
  <1>5. r \in Settings /\ r.id = subs[i].id /\ r.src = subs[i].src
    BY <1>4 DEF Settings
  <1>6. subs' = Put(subs, r) /\ saved' = [saved EXCEPT ![r.id] = r]
    BY <1>1
  <1> HIDE DEF r
  <1>7. r.id \in IdsOf(subs)
    BY <1>4, <1>5
  <1>8. /\ subs' \in Seq(Settings) /\ Names(subs') = Names(subs) /\ Unique(subs') /\ IdsOf(subs') = IdsOf(subs)
        /\ Els(subs') = {x \in Els(subs) : x.id # r.id} \cup {r}
    BY <1>3, <1>5, <1>6, <1>7, PutLaws
  <1>9. /\ saved' \in [DOMAIN saved' -> Settings] /\ DOMAIN saved' = DOMAIN saved
        /\ saved'[r.id] = r /\ \A x \in DOMAIN saved : x # r.id => saved'[x] = saved[x]
    BY <1>3, <1>5, <1>6, <1>7
  <1>10. \A x \in Els(subs') : x = saved'[x.id]
    <2>1. \A x \in Els(subs) : x.id \in IdsOf(subs)
      BY DEF Els, IdsOf
    <2> QED
      BY <1>3, <1>8, <1>9, <2>1
  <1>11. \A b \in Els(pool) : b.id \in torn \/ \E x \in Els(subs') : x.id = b.id /\ x.src = b.src
    <2> SUFFICES ASSUME NEW b \in Els(pool), b.id \notin torn
                 PROVE  \E x \in Els(subs') : x.id = b.id /\ x.src = b.src
      OBVIOUS
    <2>1. PICK x \in Els(subs) : x.id = b.id /\ x.src = b.src
      BY <1>3
    <2>2. CASE x.id # r.id
      BY <1>8, <2>1, <2>2
    <2>3. CASE x.id = r.id
      <3>1. x = subs[i]
        BY <1>3, <1>4, <1>5, <2>3 DEF Els, Unique
      <3> QED
        BY <1>5, <1>8, <2>1, <3>1
    <2> QED
      BY <2>2, <2>3
  <1>12. ListOK(subs', pool', saved', torn')
    BY <1>2, <1>3, <1>8, <1>9, <1>10, <1>11 DEF ListOK
  <1>13. /\ upstream' \in [Srcs -> Nat] /\ (job' # Nothing => JobOK(job)')
         /\ (tick'.pc = "fetch" => JobOK(tick.job)' /\ tick'.job.op = "refresh")
    BY <1>2, <1>9 DEF ListInv, JobOK
  <1>14. Buried
    BY <1>2, <1>8 DEF Buried
  <1> QED
    BY <1>12, <1>13, <1>14 DEF ListInv

\* What a step that ends in a death, or leaves the tick and the job alone, has to show.
LEMMA ListStep ==
    ASSUME ListInv, UNCHANGED <<upstream, saved>>, ListOK(subs', pool', saved', torn'),
           Dies \/ UNCHANGED <<job, tick>>
    PROVE  ListInv'
  <1>1. upstream' \in [Srcs -> Nat]
    BY DEF ListInv
  <1>2. job' # Nothing => JobOK(job)'
    <2>1. CASE Dies
      BY <2>1 DEF Dies
    <2>2. CASE UNCHANGED <<job, tick>>
      BY <2>2 DEF ListInv, JobOK
    <2> QED
      BY <2>1, <2>2
  <1>3. tick'.pc = "fetch" => JobOK(tick.job)' /\ tick'.job.op = "refresh"
    <2>1. CASE Dies
      BY <2>1 DEF Dies, NoTick
    <2>2. CASE UNCHANGED <<job, tick>>
      BY <2>2 DEF ListInv, JobOK
    <2> QED
      BY <2>1, <2>2
  <1> QED
    BY <1>1, <1>2, <1>3 DEF ListInv

\* The user orders the list anew; the nodes follow.
LEMMA ListReorder == ASSUME ListInv, Reorder PROVE ListInv' /\ Buried
  <1>1. PICK list \in SetToSeqs({subs[i] : i \in DOMAIN subs}) :
            ListThenPool(list, Ordered(pool, list), Order, {"requests"}, Waits)
    BY DEF Reorder
  <1>2. /\ UNCHANGED <<upstream, saved>> /\ subs' = list
        /\ \/ pool' = Ordered(pool, list) /\ torn' = torn /\ Waits
           \/ pool' = pool /\ torn' = torn \cup {Order} /\ Dies
    BY <1>1 DEF Reorder, ListThenPool
  <1>3. /\ subs \in Seq(Settings) /\ Unique(subs) /\ pool \in Seq(Blocks) /\ Unique(pool)
        /\ saved \in [DOMAIN saved -> Settings] /\ DOMAIN saved \subseteq Ids
        /\ IdsOf(subs) \subseteq DOMAIN saved /\ \A x \in Els(subs) : x = saved[x.id]
        /\ \A b \in Els(pool) : b.id \in torn \/ \E x \in Els(subs) : x.id = b.id /\ x.src = b.src
        /\ IdsOf(subs) \subseteq IdsOf(pool)
    BY DEF ListInv, ListOK
  <1>4. list \in SetToSeqs(Els(subs))
    BY DEF Els
  <1>5. list \in Seq(Settings) /\ Els(list) = Els(subs) /\ IdsOf(list) = IdsOf(subs) /\ Unique(list)
    BY <1>3, <1>4, Reordering
  <1>6. /\ Ordered(pool, list) \in Seq(Blocks) /\ Els(Ordered(pool, list)) = Els(pool)
        /\ IdsOf(Ordered(pool, list)) = IdsOf(pool) /\ Unique(Ordered(pool, list))
        /\ Names(Those(Ordered(pool, list), IdsOf(list))) = Names(list)
    BY <1>3, <1>5, OrderedLaws
  <1>7. ListOK(subs', pool', saved', torn')
    <2>1. CASE pool' = Ordered(pool, list) /\ torn' = torn
      BY <1>2, <1>3, <1>5, <1>6, <2>1 DEF ListOK
    <2>2. CASE pool' = pool /\ torn' = torn \cup {Order}
      BY <1>2, <1>3, <1>5, <2>2 DEF ListOK
    <2> QED
      BY <1>2, <2>1, <2>2
  <1>8. ListInv'
    BY <1>2, <1>7, ListStep DEF Waits
  <1>9. Buried
    BY <1>2, <1>5, <1>6 DEF Buried
  <1> QED
    BY <1>8, <1>9

\* A deletion takes the record and then its nodes.
LEMMA ListDelete == ASSUME ListInv, Delete PROVE ListInv' /\ Buried
  <1>1. PICK id \in IdsOf(subs) :
            ListThenPool(Without(subs, id), Without(pool, id), id, {"requests"}, Waits)
    BY DEF Delete
  <1> DEFINE D == IdsOf(subs) \ {id}
             P == IdsOf(pool) \ {id}
             list == Those(subs, D)
             nodes == Those(pool, P)
  <1>2. /\ UNCHANGED <<upstream, saved>> /\ subs' = list
        /\ \/ pool' = nodes /\ torn' = torn /\ Waits
           \/ pool' = pool /\ torn' = torn \cup {id} /\ Dies
    BY <1>1 DEF Delete, ListThenPool, Without
  <1>3. /\ subs \in Seq(Settings) /\ Unique(subs) /\ pool \in Seq(Blocks) /\ Unique(pool)
        /\ saved \in [DOMAIN saved -> Settings] /\ DOMAIN saved \subseteq Ids
        /\ IdsOf(subs) \subseteq DOMAIN saved /\ \A x \in Els(subs) : x = saved[x.id]
        /\ \A b \in Els(pool) : b.id \in torn \/ \E x \in Els(subs) : x.id = b.id /\ x.src = b.src
        /\ IdsOf(subs) \subseteq IdsOf(pool)
        /\ Order \in torn \/ Names(Those(pool, IdsOf(subs))) = Names(subs)
    BY DEF ListInv, ListOK
  <1>4. /\ list \in Seq(Settings) /\ Els(list) = {x \in Els(subs) : x.id \in D}
        /\ IdsOf(list) = IdsOf(subs) \cap D /\ (Unique(subs) => Unique(list))
    <2> HIDE DEF D
    <2> QED
      BY <1>3, ThoseMembers
  <1>5. /\ nodes \in Seq(Blocks) /\ Els(nodes) = {b \in Els(pool) : b.id \in P}
        /\ IdsOf(nodes) = IdsOf(pool) \cap P /\ (Unique(pool) => Unique(nodes))
    <2> HIDE DEF P
    <2> QED
      BY <1>3, ThoseMembers
  <1>6. Order \in torn \/ (Names(Those(pool, D)) = Names(list) /\ Those(nodes, D) = Those(pool, D))
    <2> DEFINE A == IdsOf(subs)
    <2>1. A \cap D = D /\ IdsOf(pool) \cap (P \cap D) = IdsOf(pool) \cap D
      BY <1>3
    <2> HIDE DEF A, D, P
    <2>2. Those(Those(pool, A), D) = Those(pool, D)
      <3>1. Those(Those(pool, A), D) = Those(pool, A \cap D)
        BY <1>3, ThoseOfThose
      <3> QED
        BY <2>1, <3>1
    <2>3. Those(nodes, D) = Those(pool, D)
      <3> DEFINE C == P \cap D
      <3>1. Those(nodes, D) = Those(pool, C)
        BY <1>3, ThoseOfThose
      <3>2. IdsOf(pool) \cap C = IdsOf(pool) \cap D
        BY <2>1
      <3> HIDE DEF C
      <3>3. Those(pool, C) = Those(pool, D)
        BY <1>3, <3>2, ThoseSame
      <3> QED
        BY <3>1, <3>3
    <2>4. Those(pool, A) \in Seq(Blocks)
      BY <1>3, ThoseMembers
    <2>5. Names(Those(pool, A)) = Names(subs) => Names(Those(Those(pool, A), D)) = Names(Those(subs, D))
      <3> DEFINE Q == Those(pool, A)
      <3>1. Q \in Seq(Blocks)
        BY <2>4
      <3> HIDE DEF Q
      <3>2. Names(Q) = Names(subs) => Names(Those(Q, D)) = Names(Those(subs, D))
        BY <1>3, <3>1, ThoseNames
      <3> QED
        BY <3>2 DEF Q
    <2> QED
      BY <1>3, <2>2, <2>3, <2>5 DEF A
  <1>7. \A x \in Els(subs) : x.id \in IdsOf(subs)
    BY DEF Els, IdsOf
  <1>8. \A b \in Els(pool) : b.id \in IdsOf(pool)
    BY DEF Els, IdsOf
  <1>9. IdsOf(list) = D /\ IdsOf(nodes) = P /\ D \subseteq P /\ D \subseteq IdsOf(pool)
    BY <1>3, <1>4, <1>5
  <1>10. \A b \in Els(nodes) : b.id \in torn \/ \E x \in Els(list) : x.id = b.id /\ x.src = b.src
    BY <1>3, <1>4, <1>5, <1>7
  <1>11. \A b \in Els(pool) : b.id \in torn \cup {id} \/ \E x \in Els(list) : x.id = b.id /\ x.src = b.src
    BY <1>3, <1>4, <1>7
  <1>12. /\ \A x \in Els(list) : x = saved[x.id]
         /\ D \subseteq DOMAIN saved
    BY <1>3, <1>4
  <1> HIDE DEF list, nodes
  <1>13. ListOK(subs', pool', saved', torn')
    <2>1. CASE pool' = nodes /\ torn' = torn
      BY <1>2, <1>3, <1>4, <1>5, <1>6, <1>9, <1>10, <1>12, <2>1 DEF ListOK
    <2>2. CASE pool' = pool /\ torn' = torn \cup {id}
      BY <1>2, <1>3, <1>4, <1>6, <1>9, <1>11, <1>12, <2>2 DEF ListOK
    <2> QED
      BY <1>2, <2>1, <2>2
  <1>14. ListInv'
    BY <1>2, <1>13, ListStep DEF Waits
  <1>15. Buried
    BY <1>2, <1>9 DEF Buried
  <1> QED
    BY <1>14, <1>15

\* A result is written, whoever fetched it: the request, which ends with it, or the scheduler.
LEMMA ListResult ==
    ASSUME ListInv, NEW j, JobOK(j), ~Void(j), NEW ver \in Nat, NEW cost, NEW goesOn \in BOOLEAN,
           PoolThenList(Rebuilt(pool, Written(j), Block(j.new, ver)), Written(j), j.new.id, cost, goesOn),
           saved' = IF j.op = "refresh" \/ subs' # Written(j) THEN saved ELSE With(saved, j.new.id, j.new)
    PROVE  /\ ListOK(subs', pool', saved', torn') /\ Buried
           /\ DOMAIN saved' \subseteq DOMAIN saved \cup {j.new.id}
           /\ goesOn \/ Dies
  <1> DEFINE list == Written(j)
             id == j.new.id
             nodes == Rebuilt(pool, list, Block(j.new, ver))
             kept == IF j.op = "refresh" THEN saved ELSE With(saved, id, j.new)
  <1>1. /\ ListOK(list, nodes, kept, torn \ {id, Order})
        /\ ListOK(subs, nodes, saved, torn \cup {id})
        /\ IdsOf(list) = IdsOf(subs) \cup {id} /\ IdsOf(nodes) = IdsOf(list)
        /\ id \in DOMAIN saved => id \in IdsOf(subs)
    BY ListWritten DEF ListInv
  <1>2. /\ pool' = nodes
        /\ \/ subs' = list /\ torn' = torn \ {id, Order} /\ goesOn
           \/ subs' = subs /\ torn' = torn \cup {id} /\ Dies
    BY DEF PoolThenList
  <1>3. saved' = IF subs' # list THEN saved ELSE kept
    OBVIOUS
  <1>4. DOMAIN kept \subseteq DOMAIN saved \cup {id}
    BY DEF With
  <1> HIDE DEF list, nodes, kept, id
  <1>5. ListOK(subs', pool', saved', torn')
    <2>1. CASE subs' = list /\ torn' = torn \ {id, Order}
      BY <1>1, <1>2, <1>3, <2>1
    <2>2. CASE subs' = subs /\ torn' = torn \cup {id} /\ subs # list
      BY <1>1, <1>2, <1>3, <2>2
    <2>3. CASE subs' = subs /\ torn' = torn \cup {id} /\ subs = list
      <3>1. ListOK(subs, nodes, kept, torn \cup {id})
        BY <1>1, <2>3 DEF ListOK
      <3> QED
        BY <1>2, <1>3, <2>3, <3>1
    <2> QED
      BY <1>2, <2>1, <2>2, <2>3
  <1>6. Buried
    BY <1>1, <1>2 DEF Buried
  <1>7. DOMAIN saved' \subseteq DOMAIN saved \cup {id} /\ (goesOn \/ Dies)
    BY <1>2, <1>3, <1>4
  <1> QED
    BY <1>5, <1>6, <1>7 DEF id

\* A request ends with the answer of the address.
LEMMA ListFinish == ASSUME ListInv, Finish PROVE ListInv' /\ Buried
  <1>1. JobOK(job) /\ ~Void(job)
    BY DEF Finish, ListInv
  <1>2. PICK ver \in Answers(job) :
            PoolThenList(Rebuilt(pool, Written(job), Block(job.new, ver)), Written(job), job.new.id, {},
                         JobEnds)
    BY DEF Finish
  <1>3. ver \in Nat
    BY <1>1, AnswersType DEF ListInv
  <1>4. /\ saved' = IF job.op = "refresh" \/ subs' # Written(job) THEN saved
                    ELSE With(saved, job.new.id, job.new)
        /\ UNCHANGED upstream
    BY DEF Finish
  <1> DEFINE goesOn == JobEnds
  <1>5. goesOn \in BOOLEAN
    BY DEF JobEnds
  <1>6. PoolThenList(Rebuilt(pool, Written(job), Block(job.new, ver)), Written(job), job.new.id, {}, goesOn)
    BY <1>2
  <1> HIDE DEF goesOn
  <1>7. /\ ListOK(subs', pool', saved', torn') /\ Buried /\ (goesOn \/ Dies)
        /\ DOMAIN saved' \subseteq DOMAIN saved \cup {job.new.id}
    BY <1>1, <1>3, <1>4, <1>5, <1>6, ListResult
  <1>8. job' = Nothing /\ (tick'.pc = "fetch" => tick' = tick)
    BY <1>7 DEF goesOn, JobEnds, Dies, NoTick
  <1>9. tick'.pc = "fetch" => JobOK(tick.job)' /\ tick'.job.op = "refresh"
    BY <1>8 DEF ListInv, JobOK
  <1> QED
    BY <1>4, <1>7, <1>8, <1>9 DEF ListInv

\* The scheduler writes what it fetched.
LEMMA ListTickRefreshes == ASSUME ListInv, NewsInv, TickRefreshes PROVE ListInv' /\ Buried
  <1> DEFINE j == tick.job
  <1>1. tick.pc = "fetch" /\ JobOK(j) /\ j.op = "refresh" /\ ~Void(j) /\ UNCHANGED <<upstream, saved>>
    BY DEF TickRefreshes, ListInv
  <1>2. PICK ver \in Answers(j), goesOn \in BOOLEAN :
            /\ PoolThenList(Rebuilt(pool, Written(j), Block(j.new, ver)), Written(j), j.new.id, {}, goesOn)
            /\ goesOn => tick'.pc = "save" /\ UNCHANGED job
    <2> DEFINE goesOn == /\ tick' = [tick EXCEPT !.pc = "save", !.news = Changed(tick.before),
                                       !.st = With(@, j.new.id, [today |-> TRUE, age |-> 0])]
                         /\ UNCHANGED <<panel, job, deploy, fetches, excused>>
    <2>1. PICK ver \in Answers(j) :
              PoolThenList(Rebuilt(pool, Written(j), Block(j.new, ver)), Written(j), j.new.id, {}, goesOn)
      BY DEF TickRefreshes
    <2>2. goesOn \in BOOLEAN
      OBVIOUS
    <2>3. goesOn => tick'.pc = "save" /\ UNCHANGED job
      BY DEF NewsInv, TickShape
    <2> HIDE DEF goesOn
    <2> QED
      BY <2>1, <2>2, <2>3
  <1> HIDE DEF j
  <1>3. ver \in Nat
    BY <1>1, AnswersType DEF ListInv
  <1>4. saved' = IF j.op = "refresh" \/ subs' # Written(j) THEN saved ELSE With(saved, j.new.id, j.new)
    BY <1>1
  <1>5. ListOK(subs', pool', saved', torn') /\ Buried /\ (goesOn \/ Dies)
    BY <1>1, <1>2, <1>3, <1>4, ListResult
  <1>6. CASE Dies
    BY <1>1, <1>5, <1>6, ListStep
  <1>7. CASE goesOn
    <2>1. upstream' \in [Srcs -> Nat] /\ (job' # Nothing => JobOK(job)')
      BY <1>1, <1>2, <1>7 DEF ListInv, JobOK
    <2> QED
      BY <1>2, <1>5, <1>7, <2>1 DEF ListInv
  <1> QED
    BY <1>5, <1>6, <1>7

\* The tick goes on to its next subscription.
LEMMA ListGoesOn ==
    ASSUME ListInv, NEW todo, NEW st, NEW changed, GoesOn(todo, st, changed),
           UNCHANGED <<listVars, upstream, job>>
    PROVE  ListInv' /\ Buried
  <1> DEFINE due == {i \in DOMAIN todo : IsDue(todo[i], st)}
             n == CHOOSE i \in due : \A k \in due : i <= k
             id == todo[n].id
             now == Get(subs, id)
  <1>1. \/ tick'.pc # "fetch"
        \/ /\ id \in IdsOf(subs)
           /\ tick'.job = [op |-> "refresh", old |-> now, new |-> now, ver |-> upstream[now.src]]
    <2>1. CASE due = {}
      <3>1. CASE changed
        BY <2>1, <3>1 DEF GoesOn, NoTick
      <3>2. CASE ~changed
        <4>1. tick' = NoTick
          BY <2>1, <3>2 DEF GoesOn
        <4> QED
          BY <4>1, NoTickShape
      <3> QED
        BY <3>1, <3>2
    <2>2. CASE due # {} /\ id \notin IdsOf(subs)
      BY <2>2 DEF GoesOn, NoTick
    <2>3. CASE due # {} /\ id \in IdsOf(subs)
      BY <2>3 DEF GoesOn, NoTick
    <2> QED
      BY <2>1, <2>2, <2>3
  <1> HIDE DEF due, n, id
  <1>2. tick'.pc = "fetch" => JobOK(tick.job)' /\ tick'.job.op = "refresh"
    <2> SUFFICES ASSUME tick'.pc = "fetch" PROVE JobOK(tick.job)' /\ tick'.job.op = "refresh"
      OBVIOUS
    <2>1. id \in IdsOf(subs) /\ subs \in Seq(Settings)
      BY <1>1 DEF ListInv, ListOK
    <2>2. now \in Settings
      BY <2>1, GetLaws
    <2>3. upstream[now.src] \in Nat
      BY <2>2 DEF ListInv, Settings
    <2> QED
      BY <1>1, <2>2, <2>3 DEF JobOK
  <1>3. /\ ListOK(subs', pool', saved', torn') /\ upstream' \in [Srcs -> Nat]
        /\ (job' # Nothing => JobOK(job)') /\ Buried
    BY DEF listVars, ListInv, JobOK, Buried
  <1> QED
    BY <1>2, <1>3 DEF ListInv

\* Every step keeps the invariant and takes back no deletion.
LEMMA ListNext == ASSUME ListInv, NewsInv, [Next]_vars PROVE ListInv' /\ Buried
  <1>1. upstream \in [Srcs -> Nat]
    BY DEF ListInv
  <1>2. CASE UNCHANGED vars
    BY <1>1, <1>2, ListSame DEF vars, store, listVars
  <1>3. CASE AskDeploy \/ GiveUp \/ PanelStarts \/ Stop \/ HalfDayPasses \/ DeployReads \/ DeployRestarts
    BY <1>1, <1>3, ListSame DEF AskDeploy, GiveUp, JobEnds, PanelStarts, Stop, HalfDayPasses, DeployReads,
       DeployRestarts, store, listVars
  <1>4. CASE DeployEnds \/ DeployFails \/ PanelDies
    <2>1. /\ UNCHANGED <<listVars, upstream>> /\ job' \in {job, Nothing}
          /\ tick' = NoTick \/ UNCHANGED tick
      BY <1>4 DEF DeployEnds, DeployFails, Answered, PanelDies, Dies, store, listVars
    <2> QED
      BY <1>1, <2>1, ListSame DEF listVars, NoTick
  <1>5. CASE TickFails \/ TickSaves \/ TickAsks
    <2>1. /\ UNCHANGED <<listVars, upstream, job>>
          /\ \/ tick' = [tick EXCEPT !.pc = "save"] \/ tick' = [tick EXCEPT !.pc = "deploy"]
             \/ tick' = NoTick \/ UNCHANGED tick
      BY <1>5 DEF TickFails, TickSaves, TickAsks, store, listVars
    <2>2. tick'.pc = "fetch" => tick.pc = "fetch" /\ tick'.job = tick.job
      BY <2>1 DEF NoTick, NewsInv, TickShape
    <2> QED
      BY <1>1, <2>1, <2>2, ListSame DEF listVars
  <1>6. CASE UpstreamChanges
    <2>1. upstream' \in [Srcs -> Nat] /\ UNCHANGED <<listVars, job, tick>>
      BY <1>1, <1>6 DEF UpstreamChanges, store, listVars
    <2> QED
      BY <2>1, ListSame DEF listVars
  <1>7. CASE TickBegins
    <2>1. /\ GoesOn(subs, [id \in DOMAIN done \cap IdsOf(subs) |-> done[id]], FALSE)
          /\ UNCHANGED <<listVars, upstream, job>>
      BY <1>7 DEF TickBegins, store, listVars
    <2> QED
      BY <2>1, ListGoesOn
  <1>8. CASE TickNext
    <2> DEFINE changed == tick.news
    <2>1. GoesOn(tick.todo, tick.st, changed) /\ UNCHANGED <<listVars, upstream, job>>
      BY <1>8 DEF TickNext, store, listVars
    <2> QED
      BY <2>1, ListGoesOn
  <1> QED
    BY <1>2, <1>3, <1>4, <1>5, <1>6, <1>7, <1>8, ListBegins, ListEditInPlace, ListReorder, ListDelete,
       ListFinish, ListTickRefreshes DEF Next, UserActs, Ticks, Deploys, World

\* The panel starts with a list and a pool that agree.
LEMMA ListInit == Init => ListInv
  <1> SUFFICES ASSUME Init PROVE ListInv
    OBVIOUS
  <1>1. FirstList \in Seq(Settings) /\ Unique(FirstList)
    BY SubscriptionsAssumption DEF Unique
  <1>2. \A i \in DOMAIN FirstList : FirstList[i] \in Settings
    BY <1>1
  <1>3. /\ subs = FirstList /\ pool = [i \in DOMAIN FirstList |-> Block(FirstList[i], 0)]
        /\ saved = [i \in IdsOf(FirstList) |-> Get(FirstList, i)] /\ torn = {}
    BY DEF Init
  <1>4. \A i \in DOMAIN FirstList :
            /\ Block(FirstList[i], 0) \in Blocks /\ Block(FirstList[i], 0).id = FirstList[i].id
            /\ Block(FirstList[i], 0).src = FirstList[i].src
    BY <1>2, BlockType
  <1>5. pool \in Seq(Blocks) /\ DOMAIN pool = DOMAIN FirstList
    <2>1. DOMAIN FirstList = 1 .. Len(FirstList) /\ Len(FirstList) \in Nat
      BY <1>1
    <2> QED
      BY <1>3, <1>4, <2>1
  <1>6. \A i \in DOMAIN FirstList : pool[i].id = FirstList[i].id /\ pool[i].src = FirstList[i].src
    BY <1>3, <1>4
  <1>7. Names(pool) = Names(FirstList)
    BY <1>1, <1>5, <1>6, SameNames
  <1>8. Unique(pool) /\ IdsOf(pool) = IdsOf(FirstList)
    BY <1>1, <1>5, <1>7, NameLaws
  <1>9. /\ saved \in [DOMAIN saved -> Settings] /\ DOMAIN saved = IdsOf(FirstList)
        /\ \A r \in Els(FirstList) : r = saved[r.id]
    <2>1. \A id \in IdsOf(FirstList) : Get(FirstList, id) \in Settings
      BY <1>1, GetLaws
    <2>2. \A r \in Els(FirstList) : r.id \in IdsOf(FirstList)
      BY DEF Els, IdsOf
    <2>3. \A r \in Els(FirstList) : r = Get(FirstList, r.id)
      BY <1>1, <2>2, GetLaws
    <2> QED
      BY <1>3, <2>1, <2>2, <2>3
  <1>10. IdsOf(FirstList) \subseteq Ids
    BY <1>2 DEF IdsOf, Settings
  <1>11. \A b \in Els(pool) : \E r \in Els(FirstList) : r.id = b.id /\ r.src = b.src
    BY <1>5, <1>6 DEF Els
  <1>12. Names(Those(pool, IdsOf(FirstList))) = Names(FirstList)
    <2>1. Those(pool, IdsOf(pool)) = pool
      BY <1>5, ThoseAll
    <2> QED
      BY <1>7, <1>8, <2>1
  <1>13. ListOK(subs, pool, saved, torn)
    BY <1>1, <1>3, <1>5, <1>8, <1>9, <1>10, <1>11, <1>12 DEF ListOK
  <1>14. upstream \in [Srcs -> Nat] /\ job = Nothing /\ tick.pc = "idle"
    BY DEF Init, NoTick
  <1> QED
    BY <1>13, <1>14 DEF ListInv

\* Both invariants hold in every behaviour.
LEMMA ListAlways == Spec => [](ListInv /\ NewsInv)
  BY ListInit, NewsInit, ListNext, NewsNext, PTL DEF Spec

\* What the user saved is in the list, however many fetches and deaths come in between
\* (the read of the current record after a fetch).
THEOREM SavingLasts == Spec => []SavedStays
  <1>1. ListInv => SavedStays
    BY DEF ListInv, ListOK, Els, SavedStays
  <1> QED
    BY <1>1, ListAlways, PTL

\* No request and no refresh brings back a subscription that was deleted, or its nodes (the
\* null a handler gets from the update of a record that is gone).
THEOREM DeletionLasts == Spec => DeletedStaysDeleted
  <1>1. ListInv /\ NewsInv /\ [Next]_vars =>
          [\A id \in DOMAIN saved \ IdsOf(subs) :
              /\ id \notin IdsOf(subs')
              /\ id \notin IdsOf(pool) => id \notin IdsOf(pool')]_vars
    BY ListNext DEF Buried
  <1> QED
    BY <1>1, ListAlways, PTL DEF Spec, DeletedStaysDeleted

\* The pool has a block of every subscription, with its address, in the order of the list,
\* but for what a death between the two writes took apart.
THEOREM PoolFollows == Spec => []PoolFollowsList
  <1>1. ASSUME ListInv PROVE PoolFollowsList
    <2>1. \A i \in DOMAIN pool : pool[i].id \in torn \/
            \E k \in DOMAIN subs : subs[k].id = pool[i].id /\ subs[k].src = pool[i].src
      <3> SUFFICES ASSUME NEW i \in DOMAIN pool, pool[i].id \notin torn
                   PROVE  \E k \in DOMAIN subs : subs[k].id = pool[i].id /\ subs[k].src = pool[i].src
        OBVIOUS
      <3>1. pool[i] \in Els(pool)
        BY DEF Els
      <3>2. \E r \in Els(subs) : r.id = pool[i].id /\ r.src = pool[i].src
        BY <1>1, <3>1 DEF ListInv, ListOK
      <3> QED
        BY <3>2 DEF Els
    <2>2. IdsOf(subs) \subseteq IdsOf(pool)
      BY <1>1 DEF ListInv, ListOK
    <2>3. Order \in torn \/
            LET known == Those(pool, IdsOf(subs))
            IN  [i \in DOMAIN known |-> known[i].id] = [i \in DOMAIN subs |-> subs[i].id]
      BY <1>1 DEF ListInv, ListOK, Names
    <2> QED
      BY <2>1, <2>2, <2>3 DEF PoolFollowsList
  <1> QED
    BY <1>1, ListAlways, PTL

-----------------------------------------------------------------------------
(* What the scheduler fetches on a day, and the types.                     *)

Mark == [today : BOOLEAN, age : {Never} \cup 0 .. Longest]
StateOK(st) == DOMAIN st \subseteq Ids /\ st \in [DOMAIN st -> Mark]

TypeInv ==
    /\ StateOK(done) /\ StateOK(tick.st) /\ tick.todo \in Seq(Settings)
    /\ panel \in [on : BOOLEAN, ticked : BOOLEAN]
    /\ deploy.nodes \in Seq(Blocks) /\ kernel.nodes \in Seq(Blocks)
    /\ half \in {0, 1} /\ left \in [Counted -> Nat]

\* Fetched today, but a death came before that was recorded.
Lost(st) == {id \in fetches.today \cap IdsOf(subs) : ~Known(st, id).today}

FetchShape ==
    /\ fetches = [today |-> fetches.today, again |-> fetches.again, deaths |-> fetches.deaths]
    /\ fetches.again \in Nat /\ fetches.deaths \in Nat
    /\ IsFiniteSet(fetches.today) /\ fetches.today \subseteq DOMAIN saved

\* A death for each one that was fetched again or will be; while a tick is between a fetch and
\* its record, all but the one it fetches.
PaidBut(some) ==
    /\ Lost(tick.st) \subseteq Lost(done) \ some
    /\ fetches.again + Cardinality(Lost(done) \ some) <= fetches.deaths

FetchPaid ==
    /\ tick.pc = "idle" => fetches.again + Cardinality(Lost(done)) <= fetches.deaths
    /\ tick.pc \in {"status", "deploy"} => PaidBut({})
    /\ tick.pc \in {"fetch", "save"} => \E id \in Ids : PaidBut({id})

FetchInv == TypeInv /\ FetchShape /\ FetchPaid

\* A set of numbers that is not empty has a least one.
LEMMA Least == ASSUME NEW S \in SUBSET Nat, S # {} PROVE \E n \in S : \A k \in S : n <= k
  <1> DEFINE R == OpToRel(<, Nat)
  <1>1. IsWellFoundedOn(R, Nat)
    BY NatLessThanWellFounded
  <1> HIDE DEF R
  <1>2. PICK n \in S : \A k \in S : ~(<<k, n>> \in R)
    BY <1>1, WFMin
  <1>3. \A k \in S : ~(k < n)
    BY <1>2 DEF R, OpToRel
  <1> QED
    BY <1>3

\* Among finitely many numbers one is the greatest.
LEMMA Greatest ==
    ASSUME NEW A, IsFiniteSet(A), A # {}, A \subseteq Nat
    PROVE  \E m \in A : \A k \in A : m >= k
  <1>1. PICK n \in Nat : ExistsSurjection(1 .. n, A)
    BY FS_NatSurjection
  <1>2. PICK f \in [1 .. n -> A] : \A a \in A : \E i \in 1 .. n : f[i] = a
    BY <1>1 DEF ExistsSurjection, Surjection
  <1>3. n # 0
    <2>1. 1 .. n # {}
      BY <1>2
    <2> QED
      BY <2>1
  <1> DEFINE S == {m \in Nat : m + 1 <= n => \E i \in 1 .. m + 1 : \A k \in 1 .. m + 1 : f[i] >= f[k]}
  <1>4. \A i \in 1 .. n : f[i] \in Nat
    BY <1>2
  <1>5. 0 \in S
    <2>1. 1 <= n => f[1] >= f[1]
      BY <1>4
    <2> QED
      BY <2>1
  <1>6. ASSUME NEW m \in Nat, m \in S PROVE m + 1 \in S
    <2> SUFFICES ASSUME (m + 1) + 1 <= n
                 PROVE  \E i \in 1 .. (m + 1) + 1 : \A k \in 1 .. (m + 1) + 1 : f[i] >= f[k]
      OBVIOUS
    <2>1. PICK i \in 1 .. m + 1 : \A k \in 1 .. m + 1 : f[i] >= f[k]
      BY <1>6
    <2>2. i \in 1 .. n /\ (m + 1) + 1 \in 1 .. n
      OBVIOUS
    <2>3. f[i] \in Nat /\ f[(m + 1) + 1] \in Nat
      BY <1>4, <2>2
    <2>4. \A k \in 1 .. (m + 1) + 1 : k \in 1 .. m + 1 \/ k = (m + 1) + 1
      OBVIOUS
    <2>7. \A k \in 1 .. m + 1 : f[k] \in Nat
      BY <1>4
    <2>8. i \in 1 .. (m + 1) + 1 /\ (m + 1) + 1 \in 1 .. (m + 1) + 1
      OBVIOUS
    <2> DEFINE last == (m + 1) + 1
    <2> HIDE DEF last
    <2>5. CASE f[i] >= f[last]
      BY <2>1, <2>3, <2>4, <2>5, <2>7, <2>8 DEF last
    <2>6. CASE f[i] < f[last]
      <3>1. \A k \in 1 .. m + 1 : f[last] >= f[k]
        BY <2>1, <2>3, <2>6, <2>7 DEF last
      <3>2. f[last] >= f[last]
        BY <2>3 DEF last
      <3> QED
        BY <2>4, <2>8, <3>1, <3>2 DEF last
    <2> QED
      BY <2>3, <2>5, <2>6 DEF last
  <1> HIDE DEF S
  <1>7. n - 1 \in S
    BY <1>3, <1>5, <1>6, Induction
  <1>8. PICK i \in 1 .. n : \A k \in 1 .. n : f[i] >= f[k]
    BY <1>3, <1>7 DEF S
  <1> QED
    BY <1>2, <1>8

\* The longest plan is a number of days.
LEMMA LongestType == Longest \in Nat
  <1> DEFINE A == {Term(p) : p \in Plans}
             f == [p \in Plans |-> Term(p)]
  <1>1. IsFiniteSet(Plans) /\ Plans # {} /\ \A p \in Plans : p.days \in Nat \ {0}
    BY SubscriptionsAssumption
  <1>2. \A p \in Plans : Term(p) \in Nat
    BY <1>1 DEF Term
  <1>3. A \subseteq Nat /\ A # {}
    BY <1>1, <1>2
  <1>4. f \in Surjection(Plans, A)
    BY DEF Surjection
  <1>5. Longest = CHOOSE n \in A : \A p \in Plans : n >= Term(p)
    BY DEF Longest
  <1>6. \A m \in A : (\A k \in A : m >= k) => \A p \in Plans : m >= Term(p)
    OBVIOUS
  <1> HIDE DEF A, f
  <1>7. IsFiniteSet(A)
    BY <1>1, <1>4, FS_Surjection
  <1>8. \E m \in A : \A p \in Plans : m >= Term(p)
    BY <1>3, <1>6, <1>7, Greatest
  <1> QED
    BY <1>3, <1>5, <1>8

\* What is left of the bounds is a number of each.
LEMMA SpendType ==
    ASSUME left \in [Counted -> Nat], NEW what, what \subseteq Counted, \A c \in what : May(c), Spend(what)
    PROVE  left' \in [Counted -> Nat]
  <1>1. \A c \in Counted : (IF c \in what THEN left[c] - 1 ELSE left[c]) \in Nat
    BY DEF May
  <1> QED
    BY <1>1 DEF Spend

\* What the state file says of a subscription, a missing entry included.
LEMMA KnownLaws ==
    ASSUME NEW st, StateOK(st), NEW id
    PROVE  /\ Known(st, id) \in Mark /\ [Known(st, id) EXCEPT !.today = TRUE] \in Mark
           /\ [Known(st, id) EXCEPT !.today = TRUE].today = TRUE
           /\ [today |-> TRUE, age |-> 0] \in Mark
  <1>1. [today |-> FALSE, age |-> Never] \in Mark /\ [today |-> TRUE, age |-> 0] \in Mark
    BY LongestType DEF Mark
  <1>2. Known(st, id) \in Mark
    BY <1>1 DEF Known, StateOK
  <1> QED
    BY <1>1, <1>2 DEF Mark

\* What has been looked at today stays so.
LEMMA MarkedLaws ==
    ASSUME NEW st, StateOK(st), NEW list \in Seq(Settings)
    PROVE  /\ StateOK(Marked(st, list))
           /\ \A id : Known(st, id).today => Known(Marked(st, list), id).today
           /\ \A i \in DOMAIN list : Planned(list[i], st) => Known(Marked(st, list), list[i].id).today
  <1> DEFINE ids == {list[i].id : i \in {i \in DOMAIN list : Planned(list[i], st)}}
             new == [id \in DOMAIN st \cup ids |->
                        IF id \in ids THEN [Known(st, id) EXCEPT !.today = TRUE] ELSE st[id]]
  <1>1. Marked(st, list) = new
    BY DEF Marked
  <1>2. ids \subseteq Ids
    <2>1. \A i \in DOMAIN list : list[i] \in Settings
      OBVIOUS
    <2> QED
      BY <2>1 DEF Settings
  <1>3. \A i \in DOMAIN list : Planned(list[i], st) => list[i].id \in ids
    OBVIOUS
  <1> HIDE DEF ids
  <1>4. \A id \in DOMAIN st : st[id] \in Mark
    BY DEF StateOK
  <1>5. StateOK(new)
    <2>1. \A id \in DOMAIN st \cup ids :
              (IF id \in ids THEN [Known(st, id) EXCEPT !.today = TRUE] ELSE st[id]) \in Mark
      BY <1>4, KnownLaws
    <2> QED
      BY <1>2, <2>1 DEF StateOK
  <1>6. \A id \in ids : Known(new, id).today
    BY KnownLaws DEF Known
  <1>7. \A id : id \notin ids => Known(new, id) = Known(st, id)
    BY DEF Known
  <1> HIDE DEF new
  <1> QED
    BY <1>1, <1>3, <1>5, <1>6, <1>7

\* Setting the entry of one subscription leaves the others.
LEMMA WithLaws ==
    ASSUME NEW st, StateOK(st), NEW id \in Ids
    PROVE  LET new == With(st, id, [today |-> TRUE, age |-> 0])
           IN  StateOK(new) /\ \A i : Known(st, i).today => Known(new, i).today
  <1> DEFINE v == [today |-> TRUE, age |-> 0]
             new == With(st, id, v)
  <1>1. v \in Mark /\ v.today = TRUE
    BY KnownLaws
  <1> HIDE DEF v
  <1>2. StateOK(new)
    BY <1>1 DEF With, StateOK
  <1>3. \A i : Known(st, i).today => Known(new, i).today
    BY <1>1 DEF With, Known
  <1> QED
    BY <1>2, <1>3 DEF v

\* The ways on: to the kernel, to the end, past one that is gone, or to a fetch of one that was
\* not looked at today.
LEMMA GoesOnLaws ==
    ASSUME NEW todo \in Seq(Settings), NEW st, StateOK(st), NEW changed, GoesOn(todo, st, changed)
    PROVE  \E l \in Seq(Settings) :
              LET marked == Marked(st, l)
              IN  \/ /\ tick'.pc = "status" /\ tick'.st = marked /\ tick'.todo = <<>>
                     /\ UNCHANGED <<done, fetches>>
                  \/ tick' = NoTick /\ done' = marked /\ UNCHANGED fetches
                  \/ \E id \in Ids \ IdsOf(subs) :
                        /\ tick'.pc = "save" /\ tick'.st = marked /\ tick'.todo \in Seq(Settings)
                        /\ UNCHANGED <<done, fetches>>
                  \/ \E id \in IdsOf(subs) :
                        /\ tick'.pc = "fetch" /\ tick'.st = marked /\ tick'.todo \in Seq(Settings)
                        /\ UNCHANGED done /\ ~Known(st, id).today /\ Known(marked, id).today
                        /\ fetches' = [fetches EXCEPT !.today = @ \cup {id},
                                          !.again = IF id \in fetches.today THEN @ + 1 ELSE @]
  <1> DEFINE due == {i \in DOMAIN todo : IsDue(todo[i], st)}
             n == CHOOSE i \in due : \A k \in due : i <= k
             id == todo[n].id
             some == SubSeq(todo, 1, n)
             rest == SubSeq(todo, n + 1, Len(todo))
  <1>1. CASE due = {}
    <2>1. \/ /\ tick'.pc = "status" /\ tick'.st = Marked(st, todo) /\ tick'.todo = <<>>
             /\ UNCHANGED <<done, fetches>>
          \/ tick' = NoTick /\ done' = Marked(st, todo) /\ UNCHANGED fetches
      BY <1>1 DEF GoesOn, NoTick
    <2> QED
      BY <2>1
  <1>2. CASE due # {}
    <2>1. n \in due
      <3>1. due \subseteq Nat
        OBVIOUS
      <3> HIDE DEF due
      <3>2. \E i \in due : \A k \in due : i <= k
        BY <1>2, <3>1, Least
      <3> QED
        BY <3>2
    <2>2. n \in 1 .. Len(todo) /\ IsDue(todo[n], st)
      BY <2>1
    <2>3. /\ tick'.st = Marked(st, some) /\ tick'.todo = rest /\ UNCHANGED done
          /\ \/ id \notin IdsOf(subs) /\ tick'.pc = "save" /\ UNCHANGED fetches
             \/ /\ id \in IdsOf(subs) /\ tick'.pc = "fetch"
                /\ fetches' = [fetches EXCEPT !.today = @ \cup {id},
                                  !.again = IF id \in fetches.today THEN @ + 1 ELSE @]
      BY <1>2 DEF GoesOn, NoTick
    <2>7. id \in Ids
      <3>1. todo[n] \in Settings
        BY <2>2
      <3> QED
        BY <3>1 DEF Settings
    <2> HIDE DEF due, n
    <2>4. some \in Seq(Settings) /\ rest \in Seq(Settings) /\ n \in DOMAIN some /\ some[n] = todo[n]
      BY <2>2
    <2>5. Planned(todo[n], st) /\ ~Known(st, id).today
      BY <2>2 DEF IsDue, Planned
    <2> HIDE DEF some, rest
    <2>6. Known(Marked(st, some), id).today
      BY <2>4, <2>5, MarkedLaws
    <2> QED
      BY <2>3, <2>4, <2>5, <2>6, <2>7
  <1> QED
    BY <1>1, <1>2

\* A set with an element taken out has one less.
LEMMA Fewer ==
    ASSUME NEW A, IsFiniteSet(A), NEW B \in SUBSET A, NEW n \in Nat, NEW d \in Nat, n + Cardinality(A) <= d
    PROVE  IsFiniteSet(B) /\ Cardinality(B) \in Nat /\ n + Cardinality(B) <= d
  <1>1. IsFiniteSet(B) /\ Cardinality(B) <= Cardinality(A)
    BY FS_Subset
  <1>2. Cardinality(A) \in Nat /\ Cardinality(B) \in Nat
    BY <1>1, FS_CardinalityType
  <1> QED
    BY <1>1, <1>2

\* A set with an element added has at most one more.
LEMMA OneMore ==
    ASSUME NEW A, IsFiniteSet(A), NEW x, NEW n \in Nat, NEW d \in Nat, n + Cardinality(A \ {x}) <= d
    PROVE  n + Cardinality(A) <= d + 1
  <1>1. Cardinality(A) \in Nat
    BY FS_CardinalityType
  <1>2. Cardinality(A \ {x}) = IF x \in A THEN Cardinality(A) - 1 ELSE Cardinality(A)
    BY FS_RemoveElement
  <1> QED
    BY <1>1, <1>2

\* No subscription comes back, and what was saved once stays known.
Kept == IdsOf(subs') \cap DOMAIN saved \subseteq IdsOf(subs) /\ DOMAIN saved \subseteq DOMAIN saved'

\* Only finitely many subscriptions can be fetched again.
LEMMA LostFinite == ASSUME FetchShape, NEW st PROVE IsFiniteSet(Lost(st)) /\ Cardinality(Lost(st)) \in Nat
  <1>1. Lost(st) \in SUBSET fetches.today
    BY DEF Lost
  <1>2. IsFiniteSet(Lost(st))
    BY <1>1, FS_Subset DEF FetchShape
  <1> QED
    BY <1>2, FS_CardinalityType

\* The shape is a matter of the state file, the tick and the fetches.
LEMMA FetchShapeKept == ASSUME FetchShape, Kept, UNCHANGED fetches PROVE FetchShape'
  BY DEF FetchShape, Kept

\* A step of the tick that records nothing, or of someone else.
LEMMA FetchSame ==
    ASSUME FetchShape, FetchPaid, Kept, UNCHANGED <<done, fetches>>,
           \/ tick'.pc = tick.pc
           \/ tick.pc = "status" /\ tick'.pc = "deploy"
           \/ tick.pc = "fetch" /\ tick'.pc = "save",
           \A id : Known(tick.st, id).today => Known(tick'.st, id).today
    PROVE  FetchShape' /\ FetchPaid'
  <1>1. FetchShape'
    BY FetchShapeKept
  <1>2. Lost(done)' \subseteq Lost(done)
    BY DEF Lost, Kept, FetchShape
  <1>3. ASSUME NEW some, PaidBut(some) PROVE PaidBut(some)'
    <2>1. \A id \in Lost(tick.st)' : id \in Lost(done)' /\ id \notin some
      <3> SUFFICES ASSUME NEW id \in Lost(tick.st)' PROVE id \in Lost(done)' /\ id \notin some
        OBVIOUS
      <3>1. id \in fetches.today /\ id \in IdsOf(subs') /\ id \in IdsOf(subs) /\ ~Known(tick'.st, id).today
        BY DEF Lost, Kept, FetchShape
      <3>2. id \in Lost(tick.st)
        BY <3>1 DEF Lost
      <3>3. id \in Lost(done) /\ id \notin some
        BY <1>3, <3>2 DEF PaidBut
      <3> QED
        BY <3>1, <3>3 DEF Lost
    <2>2. Lost(done)' \ some \in SUBSET (Lost(done) \ some)
      BY <1>2
    <2>3. IsFiniteSet(Lost(done) \ some)
      BY LostFinite, FS_Difference
    <2>4. fetches.again + Cardinality(Lost(done)' \ some) <= fetches.deaths
      <3> DEFINE A == Lost(done) \ some
                 B == Lost(done)' \ some
      <3>1. IsFiniteSet(A) /\ B \in SUBSET A /\ fetches.again + Cardinality(A) <= fetches.deaths
        BY <1>3, <2>2, <2>3 DEF PaidBut
      <3>2. fetches.again \in Nat /\ fetches.deaths \in Nat
        BY DEF FetchShape
      <3> HIDE DEF A, B
      <3>3. fetches.again + Cardinality(B) <= fetches.deaths
        BY <3>1, <3>2, Fewer
      <3> QED
        BY <3>3 DEF B
    <2> QED
      BY <2>1, <2>4 DEF PaidBut
  <1>4. ASSUME fetches.again + Cardinality(Lost(done)) <= fetches.deaths
        PROVE  (fetches.again + Cardinality(Lost(done)) <= fetches.deaths)'
    <2> DEFINE A == Lost(done)
               B == Lost(done)'
    <2>1. IsFiniteSet(A) /\ B \in SUBSET A /\ fetches.again + Cardinality(A) <= fetches.deaths
      BY <1>2, <1>4, LostFinite
    <2>2. fetches.again \in Nat /\ fetches.deaths \in Nat
      BY DEF FetchShape
    <2> HIDE DEF A, B
    <2>3. fetches.again + Cardinality(B) <= fetches.deaths
      BY <2>1, <2>2, Fewer
    <2> QED
      BY <2>3 DEF B
  <1>5. FetchPaid'
    BY <1>3, <1>4 DEF FetchPaid
  <1> QED
    BY <1>1, <1>5

\* A death pays for what it leaves unrecorded.
LEMMA FetchDies ==
    ASSUME FetchShape, FetchPaid, Kept, UNCHANGED done, Dies, tick.pc \in {"idle", "fetch", "save", "status", "deploy"}
    PROVE  FetchShape' /\ FetchPaid'
  <1>1. fetches' = [fetches EXCEPT !.deaths = @ + 1] /\ tick'.pc = "idle"
    BY DEF Dies, NoTick
  <1>2. FetchShape' /\ fetches'.again = fetches.again /\ fetches'.deaths = fetches.deaths + 1
    BY <1>1 DEF FetchShape, Kept
  <1>3. Lost(done)' \subseteq Lost(done)
    BY <1>1 DEF Lost, Kept, FetchShape
  <1> DEFINE A == Lost(done)
             B == Lost(done)'
  <1>4. IsFiniteSet(A) /\ Cardinality(A) \in Nat /\ B \in SUBSET A
    BY <1>3, LostFinite
  <1>5. fetches.again \in Nat /\ fetches.deaths \in Nat
    BY DEF FetchShape
  <1>6. fetches.again + Cardinality(A) <= fetches.deaths + 1
    <2>1. CASE tick.pc = "idle"
      BY <1>4, <1>5, <2>1 DEF FetchPaid
    <2>2. CASE tick.pc \in {"status", "deploy"}
      <3>1. A \ {} = A
        OBVIOUS
      <3> QED
        BY <1>4, <1>5, <2>2, <3>1 DEF FetchPaid, PaidBut
    <2>3. CASE tick.pc \in {"fetch", "save"}
      <3>1. PICK id \in Ids : PaidBut({id})
        BY <2>3 DEF FetchPaid
      <3>2. fetches.again + Cardinality(A \ {id}) <= fetches.deaths
        BY <3>1 DEF PaidBut
      <3> HIDE DEF A
      <3> QED
        BY <1>4, <1>5, <3>2, OneMore
    <2> QED
      BY <2>1, <2>2, <2>3
  <1> HIDE DEF A, B
  <1>7. fetches.again + Cardinality(B) <= fetches.deaths + 1
    BY <1>4, <1>5, <1>6, Fewer
  <1>8. (fetches.again + Cardinality(Lost(done)) <= fetches.deaths)'
    BY <1>2, <1>7 DEF B
  <1> QED
    BY <1>1, <1>2, <1>8 DEF FetchPaid

\* The state of the tick is recorded.
LEMMA FetchRecorded ==
    ASSUME FetchShape, FetchPaid, Kept, done' = tick.st, UNCHANGED fetches,
           \/ tick.pc \in {"status", "deploy"} /\ tick'.pc = "idle"
           \/ tick.pc = "save" /\ UNCHANGED tick
    PROVE  FetchShape' /\ FetchPaid'
  <1>1. FetchShape'
    BY FetchShapeKept
  <1>2. Lost(done)' \subseteq Lost(tick.st)
    BY DEF Lost, Kept, FetchShape
  <1>3. fetches.again \in Nat /\ fetches.deaths \in Nat
    BY DEF FetchShape
  <1> DEFINE A == Lost(done)
             B == Lost(done)'
  <1>4. CASE tick.pc \in {"status", "deploy"} /\ tick'.pc = "idle"
    <2>1. Lost(tick.st) \subseteq A /\ fetches.again + Cardinality(A) <= fetches.deaths
      <3>1. A \ {} = A
        OBVIOUS
      <3> QED
        BY <1>4, <3>1 DEF FetchPaid, PaidBut
    <2>2. IsFiniteSet(A) /\ B \in SUBSET A
      BY <1>2, <2>1, LostFinite
    <2> HIDE DEF A, B
    <2>3. fetches.again + Cardinality(B) <= fetches.deaths
      BY <1>3, <2>1, <2>2, Fewer
    <2>4. (fetches.again + Cardinality(Lost(done)) <= fetches.deaths)'
      BY <2>3 DEF B
    <2> QED
      BY <1>1, <1>4, <2>4 DEF FetchPaid
  <1>5. CASE tick.pc = "save" /\ UNCHANGED tick
    <2>1. PICK id \in Ids : PaidBut({id})
      BY <1>5 DEF FetchPaid
    <2>2. Lost(tick.st) \subseteq A \ {id} /\ fetches.again + Cardinality(A \ {id}) <= fetches.deaths
      BY <2>1 DEF PaidBut
    <2>3. IsFiniteSet(A)
      BY LostFinite
    <2>4. B \subseteq A \ {id} /\ Lost(tick.st)' = B
      BY <1>2, <1>5, <2>2
    <2> HIDE DEF A, B
    <2> DEFINE C == A \ {id}
               D == B \ {id}
    <2>5. IsFiniteSet(C) /\ D \in SUBSET C /\ B \subseteq D
      BY <2>3, <2>4, FS_Difference
    <2>6. fetches.again + Cardinality(C) <= fetches.deaths
      BY <2>2
    <2> HIDE DEF C
    <2>7. fetches.again + Cardinality(D) <= fetches.deaths
      <3> HIDE DEF D
      <3> QED
        BY <1>3, <2>5, <2>6, Fewer
    <2>8. PaidBut({id})'
      BY <2>4, <2>5, <2>7 DEF PaidBut, B
    <2> QED
      BY <1>1, <1>5, <2>8 DEF FetchPaid
  <1> QED
    BY <1>4, <1>5

\* A fetch of one that was fetched today is paid for by the death that lost its record.
LEMMA FetchGoesOn ==
    ASSUME FetchShape, FetchPaid, Kept, NEW todo \in Seq(Settings), NEW st, StateOK(st), NEW changed,
           GoesOn(todo, st, changed), Lost(st) \subseteq Lost(done),
           fetches.again + Cardinality(Lost(done)) <= fetches.deaths,
           IdsOf(subs) \subseteq DOMAIN saved, IdsOf(subs) \subseteq Ids, UNCHANGED <<subs, saved>>
    PROVE  FetchShape' /\ FetchPaid'
  <1> DEFINE A == Lost(done)
             B == Lost(done)'
  <1>0. fetches.again \in Nat /\ fetches.deaths \in Nat /\ IsFiniteSet(fetches.today)
    BY DEF FetchShape
  <1>1. IsFiniteSet(A) /\ Cardinality(A) \in Nat /\ A \ {} = A
    BY LostFinite
  <1>2. PICK l \in Seq(Settings) :
            LET marked == Marked(st, l)
            IN  \/ /\ tick'.pc = "status" /\ tick'.st = marked /\ tick'.todo = <<>>
                   /\ UNCHANGED <<done, fetches>>
                \/ tick' = NoTick /\ done' = marked /\ UNCHANGED fetches
                \/ \E id \in Ids \ IdsOf(subs) :
                      /\ tick'.pc = "save" /\ tick'.st = marked /\ tick'.todo \in Seq(Settings)
                      /\ UNCHANGED <<done, fetches>>
                \/ \E id \in IdsOf(subs) :
                      /\ tick'.pc = "fetch" /\ tick'.st = marked /\ tick'.todo \in Seq(Settings)
                      /\ UNCHANGED done /\ ~Known(st, id).today /\ Known(marked, id).today
                      /\ fetches' = [fetches EXCEPT !.today = @ \cup {id},
                                        !.again = IF id \in fetches.today THEN @ + 1 ELSE @]
    BY GoesOnLaws
  <1> DEFINE marked == Marked(st, l)
  <1>3. \A id : Known(st, id).today => Known(marked, id).today
    BY MarkedLaws
  <1>4. /\ StateOK(marked)
        /\ \/ tick'.pc = "status" /\ tick'.st = marked /\ tick'.todo = <<>> /\ UNCHANGED <<done, fetches>>
           \/ tick' = NoTick /\ done' = marked /\ UNCHANGED fetches
           \/ \E id \in Ids \ IdsOf(subs) :
                 /\ tick'.pc = "save" /\ tick'.st = marked /\ tick'.todo \in Seq(Settings)
                 /\ UNCHANGED <<done, fetches>>
           \/ \E id \in IdsOf(subs) :
                 /\ tick'.pc = "fetch" /\ tick'.st = marked /\ tick'.todo \in Seq(Settings)
                 /\ UNCHANGED done /\ ~Known(st, id).today /\ Known(marked, id).today
                 /\ fetches' = [fetches EXCEPT !.today = @ \cup {id},
                                   !.again = IF id \in fetches.today THEN @ + 1 ELSE @]
    BY <1>2, MarkedLaws
  <1> HIDE DEF marked
  <1>5. CASE UNCHANGED <<done, fetches>> /\ tick'.pc \in {"status", "save"} /\ tick'.st = marked
    <2>1. FetchShape' /\ B = A
      BY <1>5, FetchShapeKept DEF Lost
    <2>2. Lost(tick.st)' \subseteq A
      <3>1. Lost(tick.st)' \subseteq Lost(st)
        BY <1>3, <1>5 DEF Lost
      <3> QED
        BY <3>1
    <2>3. ASSUME NEW some, some \cap A = {} PROVE PaidBut(some)'
      <3>1. A \ some = A
        BY <2>3
      <3>2. Lost(tick.st)' \subseteq B \ some /\ B \ some = A
        BY <2>1, <2>2, <3>1
      <3> HIDE DEF A, B
      <3> QED
        BY <1>5, <3>2 DEF PaidBut, A, B
    <2>4. PaidBut({})'
      BY <2>3
    <2>5. tick'.pc = "save" => \E id \in Ids : PaidBut({id})'
      <3>1. ASSUME tick'.pc = "save" PROVE \E id \in Ids : id \notin IdsOf(subs)
        BY <1>4, <3>1 DEF NoTick
      <3>2. ASSUME NEW id \in Ids, id \notin IdsOf(subs) PROVE PaidBut({id})'
        <4>1. {id} \cap A = {}
          BY <3>2 DEF Lost
        <4> HIDE DEF A
        <4> QED
          BY <2>3, <4>1
      <3> QED
        BY <3>1, <3>2
    <2> QED
      BY <1>5, <2>1, <2>4, <2>5 DEF FetchPaid
  <1>6. CASE tick' = NoTick /\ done' = marked /\ UNCHANGED fetches
    <2>1. FetchShape' /\ tick'.pc = "idle"
      BY <1>6, FetchShapeKept DEF NoTick
    <2>2. B \in SUBSET A
      <3>1. B \subseteq Lost(st)
        BY <1>3, <1>6 DEF Lost
      <3> QED
        BY <3>1
    <2> HIDE DEF A, B
    <2>3. fetches.again + Cardinality(B) <= fetches.deaths
      BY <1>0, <1>1, <2>2, Fewer DEF A
    <2>4. (fetches.again + Cardinality(Lost(done)) <= fetches.deaths)'
      BY <1>6, <2>3 DEF B
    <2> QED
      BY <2>1, <2>4 DEF FetchPaid
  <1>7. ASSUME NEW id \in IdsOf(subs),
               tick'.pc = "fetch", tick'.st = marked,
               UNCHANGED done, ~Known(st, id).today, Known(marked, id).today,
               fetches' = [fetches EXCEPT !.today = @ \cup {id},
                              !.again = IF id \in fetches.today THEN @ + 1 ELSE @]
        PROVE  FetchShape' /\ FetchPaid'
    <2> DEFINE again == IF id \in fetches.today THEN fetches.again + 1 ELSE fetches.again
    <2>1. /\ fetches' = [today |-> fetches.today \cup {id}, again |-> again, deaths |-> fetches.deaths]
          /\ again \in Nat
      <3>1. fetches = [today |-> fetches.today, again |-> fetches.again, deaths |-> fetches.deaths]
        BY DEF FetchShape
      <3>2. again \in Nat
        BY <1>0
      <3> HIDE DEF again
      <3>3. fetches' = [fetches EXCEPT !.today = @ \cup {id}, !.again = again]
        BY <1>7 DEF again
      <3> QED
        BY <3>1, <3>2, <3>3
    <2>2. /\ fetches'.today = fetches.today \cup {id} /\ fetches'.again = again
          /\ fetches'.deaths = fetches.deaths
      BY <2>1
    <2>3. FetchShape'
      <3>1. IsFiniteSet(fetches.today \cup {id})
        BY <1>0, FS_AddElement
      <3>2. fetches.today \cup {id} \subseteq DOMAIN saved'
        BY DEF FetchShape, Kept
      <3> HIDE DEF again
      <3> QED
        BY <1>0, <2>1, <3>1, <3>2 DEF FetchShape
    <2>4. B \ {id} \in SUBSET (A \ {id})
      BY <1>7, <2>2 DEF Lost
    <2>5. Lost(tick.st)' \subseteq B \ {id}
      <3> SUFFICES ASSUME NEW i \in Lost(tick.st)' PROVE i \in B /\ i # id
        OBVIOUS
      <3>1. i \in fetches.today \cup {id} /\ i \in IdsOf(subs) /\ ~Known(marked, i).today
        BY <1>7, <2>2 DEF Lost
      <3>2. i # id /\ ~Known(st, i).today
        BY <1>3, <1>7, <3>1
      <3>3. i \in Lost(st)
        BY <3>1, <3>2 DEF Lost
      <3>4. i \in Lost(done)
        BY <3>3
      <3> QED
        BY <1>7, <2>2, <3>1, <3>2, <3>4 DEF Lost
    <2>6. id \in fetches.today => id \in A
      <3>1. id \in fetches.today => id \in Lost(st)
        BY <1>7 DEF Lost
      <3> QED
        BY <3>1
    <2> HIDE DEF A, B
    <2>7. Cardinality(A \ {id}) = IF id \in A THEN Cardinality(A) - 1 ELSE Cardinality(A)
      BY <1>1, FS_RemoveElement
    <2> DEFINE C == A \ {id}
               D == B \ {id}
    <2>8. IsFiniteSet(C) /\ D \in SUBSET C
      BY <1>1, <2>4, FS_RemoveElement
    <2>9. again + Cardinality(C) <= fetches.deaths
      <3>1. fetches.again + Cardinality(A) <= fetches.deaths
        BY DEF A
      <3> QED
        BY <1>0, <1>1, <2>6, <2>7, <3>1
    <2> HIDE DEF C, D, again
    <2>10. again + Cardinality(D) <= fetches.deaths
      BY <1>0, <2>1, <2>8, <2>9, Fewer
    <2>11. PaidBut({id})'
      BY <2>2, <2>5, <2>10 DEF PaidBut, B, D
    <2>12. id \in Ids
      OBVIOUS
    <2> QED
      BY <1>7, <2>3, <2>11, <2>12 DEF FetchPaid
  <1>8. CASE \E id \in IdsOf(subs) :
                /\ tick'.pc = "fetch" /\ tick'.st = marked /\ tick'.todo \in Seq(Settings)
                /\ UNCHANGED done /\ ~Known(st, id).today /\ Known(marked, id).today
                /\ fetches' = [fetches EXCEPT !.today = @ \cup {id},
                                  !.again = IF id \in fetches.today THEN @ + 1 ELSE @]
    BY <1>7, <1>8
  <1> QED
    BY <1>4, <1>5, <1>6, <1>8

\* The new day, and the half of it.
LEMMA FetchHalfDay ==
    ASSUME FetchShape, FetchPaid, HalfDayPasses, StateOK(done), half \in {0, 1}
    PROVE  FetchShape' /\ FetchPaid'
  <1>1. /\ tick.pc = "idle" /\ UNCHANGED <<tick, subs, saved>>
        /\ done' = [i \in DOMAIN done |->
                      [today |-> done[i].today /\ half = 0,
                       age |-> IF done[i].age \in {Never, Longest} THEN done[i].age ELSE done[i].age + 1]]
        /\ fetches' = IF half = 1 THEN [fetches EXCEPT !.today = {}] ELSE fetches
    BY DEF HalfDayPasses, store
  <1>2. CASE half = 1
    <2>1. /\ fetches'.today = {} /\ fetches'.again = fetches.again /\ fetches'.deaths = fetches.deaths
          /\ FetchShape'
      BY <1>1, <1>2, FS_EmptySet DEF FetchShape
    <2>2. Lost(done)' = {}
      BY <2>1 DEF Lost
    <2>3. Cardinality(Lost(done)') = 0
      BY <2>2, FS_EmptySet
    <2>4. fetches.again + Cardinality(Lost(done)) <= fetches.deaths
      BY <1>1 DEF FetchPaid
    <2>5. (fetches.again + Cardinality(Lost(done)) <= fetches.deaths)'
      <3>1. Cardinality(Lost(done)) \in Nat /\ fetches.again \in Nat /\ fetches.deaths \in Nat
        BY LostFinite DEF FetchShape
      <3>2. fetches.again + 0 <= fetches.deaths
        BY <2>4, <3>1
      <3> QED
        BY <2>1, <2>3, <3>2
    <2> QED
      BY <1>1, <2>1, <2>5 DEF FetchPaid
  <1>3. CASE half = 0
    <2>1. UNCHANGED fetches /\ FetchShape'
      BY <1>1, <1>3 DEF FetchShape
    <2>2. \A id \in DOMAIN done : done'[id].today = (done[id].today /\ half = 0) /\ done[id].today \in BOOLEAN
      BY <1>1 DEF StateOK, Mark
    <2>3. \A id : Known(done', id).today <=> Known(done, id).today
      <3>1. DOMAIN done' = DOMAIN done
        BY <1>1
      <3> QED
        BY <1>3, <2>2, <3>1 DEF Known
    <2>4. Lost(done)' = Lost(done)
      BY <1>1, <2>1, <2>3 DEF Lost
    <2>5. fetches.again + Cardinality(Lost(done)) <= fetches.deaths
      BY <1>1 DEF FetchPaid
    <2>6. (fetches.again + Cardinality(Lost(done)) <= fetches.deaths)'
      BY <2>1, <2>4, <2>5
    <2> QED
      BY <1>1, <2>1, <2>6 DEF FetchPaid
  <1> QED
    BY <1>2, <1>3

\* The state file of a panel that never ticked.
LEMMA EmptyState == StateOK(<<>>) /\ StateOK(NoTick.st) /\ NoTick.todo \in Seq(Settings)
  <1>1. <<>> \in Seq(Mark) /\ DOMAIN <<>> = {}
    BY EmptySeq
  <1>2. <<>> \in [DOMAIN <<>> -> Mark]
    BY <1>1
  <1>3. NoTick.st = <<>> /\ NoTick.todo = <<>> /\ <<>> \in Seq(Settings)
    BY EmptySeq DEF NoTick
  <1> QED
    BY <1>1, <1>2, <1>3 DEF StateOK

\* What a request, a failure or a death costs is there.
LEMMA LeftNext == ASSUME left \in [Counted -> Nat], Next PROVE left' \in [Counted -> Nat]
  <1> DEFINE Costs(what) == what \subseteq Counted /\ (\A c \in what : May(c)) /\ Spend(what)
  <1>1. ASSUME NEW what, Costs(what) PROVE left' \in [Counted -> Nat]
    BY <1>1, SpendType
  <1>2. ASSUME NEW op, NEW old, NEW new, NEW cost \in Counted, Begin(op, old, new, cost)
        PROVE  left' \in [Counted -> Nat]
    <2>1. Costs({cost})
      BY <1>2 DEF Begin
    <2> QED
      BY <1>1, <2>1
  <1>3. {"creates", "requests", "changes", "failures", "deaths", "stops"} \subseteq Counted
    BY DEF Counted
  <1>4. CASE BeginCreate \/ BeginRefresh \/ BeginEdit
    BY <1>2, <1>3, <1>4 DEF BeginCreate, BeginRefresh, BeginEdit
  <1>5. CASE EditInPlace \/ AskDeploy
    <2>1. Costs({"requests"})
      BY <1>3, <1>5 DEF EditInPlace, AskDeploy, Requests
    <2> QED
      BY <1>1, <2>1
  <1>6. CASE Reorder \/ Delete
    <2>1. May("requests") /\ (Spend({"requests"}) \/ (Dies /\ Spend({"requests"} \cup {"deaths"})))
      BY <1>6 DEF Reorder, Delete, Requests, ListThenPool
    <2>2. Costs({"requests"}) \/ Costs({"requests"} \cup {"deaths"})
      BY <1>3, <2>1 DEF Dies
    <2> QED
      BY <1>1, <2>2
  <1>7. CASE Finish \/ TickRefreshes
    <2>1. Spend({}) \/ (Dies /\ Spend({} \cup {"deaths"}))
      BY <1>7 DEF Finish, TickRefreshes, PoolThenList
    <2>2. Costs({}) \/ Costs({} \cup {"deaths"})
      BY <1>3, <2>1 DEF Dies
    <2> QED
      BY <1>1, <2>2
  <1>8. CASE GiveUp \/ TickFails \/ DeployFails
    <2>1. UNCHANGED left \/ (May("failures") /\ Spend({"failures"}))
      BY <1>8 DEF GiveUp, TickFails, DeployFails
    <2>2. UNCHANGED left \/ Costs({"failures"})
      BY <1>3, <2>1
    <2> QED
      BY <1>1, <2>2
  <1>9. CASE Stop
    <2>1. Costs({"stops"})
      BY <1>3, <1>9 DEF Stop
    <2> QED
      BY <1>1, <2>1
  <1>10. CASE UpstreamChanges
    <2>1. Costs({"changes"})
      BY <1>3, <1>10 DEF UpstreamChanges
    <2> QED
      BY <1>1, <2>1
  <1>11. CASE PanelDies
    <2>1. Costs({"deaths"})
      BY <1>3, <1>11 DEF PanelDies, Dies
    <2> QED
      BY <1>1, <2>1
  <1>12. CASE TickBegins \/ TickSaves \/ TickNext \/ TickAsks
    BY <1>12 DEF TickBegins, TickSaves, TickNext, TickAsks
  <1>13. CASE DeployReads \/ DeployRestarts \/ DeployEnds \/ PanelStarts \/ HalfDayPasses
    BY <1>13 DEF DeployReads, DeployRestarts, DeployEnds, PanelStarts, HalfDayPasses
  <1> QED
    BY <1>4, <1>5, <1>6, <1>7, <1>8, <1>9, <1>10, <1>11, <1>12, <1>13 DEF Next, UserActs, Ticks, Deploys,
       World

\* The panel is up or down and has looked at this half-day or not.
LEMMA PanelNext ==
    ASSUME panel \in [on : BOOLEAN, ticked : BOOLEAN], half \in {0, 1}, Next
    PROVE  panel' \in [on : BOOLEAN, ticked : BOOLEAN] /\ half' \in {0, 1}
  <1>1. /\ \/ UNCHANGED panel
           \/ panel' = [panel EXCEPT !.on = FALSE] \/ panel' = [on |-> TRUE, ticked |-> FALSE]
           \/ panel' = [panel EXCEPT !.ticked = TRUE] \/ panel' = [panel EXCEPT !.ticked = FALSE]
        /\ UNCHANGED half \/ half' = 1 - half
    <2>1. CASE UserActs
      BY <2>1 DEF UserActs, BeginCreate, BeginRefresh, BeginEdit, Begin, EditInPlace, Reorder, Delete,
         AskDeploy, ListThenPool, Waits, Dies
    <2>2. CASE Finish \/ GiveUp
      BY <2>2 DEF Finish, GiveUp, PoolThenList, JobEnds, Dies
    <2>3. CASE Ticks
      BY <2>3 DEF Ticks, TickBegins, TickRefreshes, TickFails, TickSaves, TickNext, TickAsks, PoolThenList,
         Dies
    <2>4. CASE Deploys
      BY <2>4 DEF Deploys, DeployReads, DeployRestarts, DeployEnds, DeployFails
    <2>5. CASE World
      BY <2>5 DEF World, PanelDies, Dies, PanelStarts, Stop, UpstreamChanges, HalfDayPasses
    <2> QED
      BY <2>1, <2>2, <2>3, <2>4, <2>5 DEF Next
  <1>2. panel = [on |-> panel.on, ticked |-> panel.ticked] /\ panel.on \in BOOLEAN /\ panel.ticked \in BOOLEAN
    OBVIOUS
  <1>3. panel' \in [on : BOOLEAN, ticked : BOOLEAN]
    <2>1. CASE UNCHANGED panel
      BY <2>1
    <2>4. CASE panel' = [on |-> TRUE, ticked |-> FALSE]
      BY <2>4
    <2>2. CASE panel' = [panel EXCEPT !.on = FALSE]
      BY <1>2, <2>2
    <2>3. CASE panel' = [panel EXCEPT !.ticked = TRUE] \/ panel' = [panel EXCEPT !.ticked = FALSE]
      BY <1>2, <2>3
    <2> QED
      BY <1>1, <2>1, <2>2, <2>3, <2>4
  <1>4. half' \in {0, 1}
    BY <1>1
  <1> QED
    BY <1>3, <1>4

\* The active nodes are blocks of the pool.
LEMMA ActiveType == ASSUME ListInv PROVE ActiveNodes \in Seq(Blocks)
  <1> DEFINE A == Ids \ {subs[i].id : i \in {i \in DOMAIN subs : ~subs[i].on}}
  <1>1. pool \in Seq(Blocks)
    BY DEF ListInv, ListOK
  <1> HIDE DEF A
  <1>2. Those(pool, A) \in Seq(Blocks)
    BY <1>1, ThoseMembers
  <1> QED
    BY <1>2 DEF ActiveNodes, A

\* What a deploy and the kernel have was the pool once.
LEMMA NodesNext ==
    ASSUME deploy.nodes \in Seq(Blocks), kernel.nodes \in Seq(Blocks), ListInv, NewsInv, Next
    PROVE  deploy'.nodes \in Seq(Blocks) /\ kernel'.nodes \in Seq(Blocks)
  <1>1. \/ UNCHANGED deploy \/ deploy' = NoDeploy
        \/ \E w : deploy' = [deploy EXCEPT !.waiting = w]
        \/ \E pc : deploy' = [deploy EXCEPT !.pc = pc]
        \/ deploy' = [deploy EXCEPT !.who = Nothing, !.waiting = {}]
        \/ \E w : deploy' = [NoDeploy EXCEPT !.waiting = w]
        \/ \E who, w : deploy' = [pc |-> "read", who |-> who, waiting |-> w, nodes |-> ActiveNodes,
                                  news |-> news]
    <2>1. CASE UserActs
      BY <2>1 DEF UserActs, BeginCreate, BeginRefresh, BeginEdit, Begin, EditInPlace, Reorder, Delete,
         AskDeploy, ListThenPool, Waits, Dies, kernelSide
    <2>2. CASE Finish \/ GiveUp
      BY <2>2 DEF Finish, GiveUp, PoolThenList, JobEnds, Dies
    <2>3. CASE Ticks
      BY <2>3 DEF Ticks, TickBegins, TickRefreshes, TickFails, TickSaves, TickNext, TickAsks, PoolThenList,
         Dies, kernelSide
    <2>4. CASE Deploys
      BY <2>4 DEF Deploys, DeployReads, DeployRestarts, DeployEnds, DeployFails, Answered
    <2>5. CASE World
      BY <2>5 DEF World, PanelDies, Dies, PanelStarts, Stop, UpstreamChanges, HalfDayPasses, kernelSide
    <2> QED
      BY <2>1, <2>2, <2>3, <2>4, <2>5 DEF Next
  <1>2. \/ UNCHANGED kernel \/ kernel' = [kernel EXCEPT !.on = FALSE]
        \/ kernel' = [on |-> TRUE, nodes |-> deploy.nodes, news |-> deploy.news]
    <2>1. CASE UserActs
      BY <2>1 DEF UserActs, BeginCreate, BeginRefresh, BeginEdit, Begin, EditInPlace, Reorder, Delete,
         AskDeploy, kernelSide
    <2>2. CASE Finish \/ GiveUp
      BY <2>2 DEF Finish, GiveUp
    <2>3. CASE Ticks
      BY <2>3 DEF Ticks, TickBegins, TickRefreshes, TickFails, TickSaves, TickNext, TickAsks, kernelSide
    <2>4. CASE Deploys
      BY <2>4 DEF Deploys, DeployReads, DeployRestarts, DeployEnds, DeployFails
    <2>5. CASE World
      BY <2>5 DEF World, PanelDies, PanelStarts, Stop, UpstreamChanges, HalfDayPasses, kernelSide
    <2> QED
      BY <2>1, <2>2, <2>3, <2>4, <2>5 DEF Next
  <1>3. NoDeploy.nodes \in Seq(Blocks)
    BY EmptySeq DEF NoDeploy
  <1>4. deploy'.nodes \in {deploy.nodes, NoDeploy.nodes, ActiveNodes}
    <2>1. CASE deploy' = NoDeploy \/ \E w : deploy' = [NoDeploy EXCEPT !.waiting = w]
      BY <2>1 DEF NoDeploy
    <2>2. CASE UNCHANGED deploy \/ deploy' = [deploy EXCEPT !.who = Nothing, !.waiting = {}]
      BY <2>2 DEF NewsInv, DeployShape
    <2>3. CASE \E w : deploy' = [deploy EXCEPT !.waiting = w]
      BY <2>3 DEF NewsInv, DeployShape
    <2>4. CASE \E pc : deploy' = [deploy EXCEPT !.pc = pc]
      BY <2>4 DEF NewsInv, DeployShape
    <2>5. CASE \E who, w : deploy' = [pc |-> "read", who |-> who, waiting |-> w, nodes |-> ActiveNodes,
                                     news |-> news]
      BY <2>5
    <2> QED
      BY <1>1, <2>1, <2>2, <2>3, <2>4, <2>5
  <1>5. kernel'.nodes \in {kernel.nodes, deploy.nodes}
    BY <1>2 DEF NewsInv, KernelShape
  <1> QED
    BY <1>3, <1>4, <1>5, ActiveType

\* A step after which the tick knows no more than the tick, the record or nobody did.
LEMMA StatesSame ==
    ASSUME TypeInv, done' \in {done, tick.st},
           tick'.st \in {tick.st, NoTick.st}, tick'.todo \in {tick.todo, NoTick.todo}
    PROVE  StateOK(done)' /\ StateOK(tick.st)' /\ (tick.todo \in Seq(Settings))'
  <1>1. StateOK(done')
    BY DEF TypeInv
  <1>2. StateOK(tick'.st) /\ tick'.todo \in Seq(Settings)
    BY EmptyState DEF TypeInv
  <1> QED
    BY <1>1, <1>2 DEF StateOK, Mark

\* The types of the rest follow from the invariants above.
LEMMA FetchTypes ==
    ASSUME TypeInv, ListInv, NewsInv, Next,
           StateOK(done)', StateOK(tick.st)', (tick.todo \in Seq(Settings))'
    PROVE  TypeInv'
  BY LeftNext, PanelNext, NodesNext DEF TypeInv

\* What the user saved is only ever replaced.
LEMMA SavedGrows == ASSUME ListInv, [Next]_vars PROVE DOMAIN saved \subseteq DOMAIN saved'
  <1>1. CASE EditInPlace
    BY <1>1 DEF EditInPlace, ListInv, ListOK
  <1>2. CASE Finish
    BY <1>2 DEF Finish, With
  <1>3. CASE ~EditInPlace /\ ~Finish
    <2>1. UNCHANGED saved
      <3>1. CASE UserActs
        BY <1>3, <3>1 DEF UserActs, BeginCreate, BeginRefresh, BeginEdit, Begin, Reorder, Delete, AskDeploy,
           store
      <3>2. CASE GiveUp \/ Ticks
        BY <3>2 DEF GiveUp, Ticks, TickBegins, TickRefreshes, TickFails, TickSaves, TickNext, TickAsks, store
      <3>3. CASE Deploys \/ World
        BY <3>3 DEF Deploys, DeployReads, DeployRestarts, DeployEnds, DeployFails, World, PanelDies,
           PanelStarts, Stop, UpstreamChanges, HalfDayPasses, store
      <3>4. CASE UNCHANGED vars
        BY <3>4 DEF vars, store
      <3> QED
        BY <1>3, <3>1, <3>2, <3>3, <3>4 DEF Next
    <2> QED
      BY <2>1
  <1> QED
    BY <1>1, <1>2, <1>3

\* A step of someone else, or of a tick that neither records nor goes on.
LEMMA FetchOthers ==
    ASSUME FetchInv, ListInv, NewsInv, Next, Kept, UNCHANGED <<done, fetches>>,
           \/ UNCHANGED tick
           \/ tick.pc = "status" /\ tick' = [tick EXCEPT !.pc = "deploy"]
           \/ tick.pc = "fetch" /\ tick' = [tick EXCEPT !.pc = "save"]
    PROVE  FetchInv'
  <1>1. /\ \/ tick'.pc = tick.pc
           \/ tick.pc = "status" /\ tick'.pc = "deploy"
           \/ tick.pc = "fetch" /\ tick'.pc = "save"
        /\ tick'.st = tick.st /\ tick'.todo = tick.todo
    BY DEF NewsInv, TickShape
  <1>2. FetchShape' /\ FetchPaid'
    BY <1>1, FetchSame DEF FetchInv
  <1>3. TypeInv'
    BY <1>1, StatesSame, FetchTypes DEF FetchInv
  <1> QED
    BY <1>2, <1>3 DEF FetchInv

\* A death of the panel.
LEMMA FetchDeath ==
    ASSUME FetchInv, ListInv, NewsInv, Next, Kept, UNCHANGED done, Dies PROVE FetchInv'
  <1>1. tick.pc \in {"idle", "fetch", "save", "status", "deploy"}
    BY DEF NewsInv, TickShape
  <1>2. FetchShape' /\ FetchPaid'
    BY <1>1, FetchDies DEF FetchInv
  <1>3. tick' = NoTick
    BY DEF Dies
  <1>4. TypeInv'
    BY <1>3, StatesSame, FetchTypes DEF FetchInv
  <1> QED
    BY <1>2, <1>4 DEF FetchInv

\* The state file is written, in the middle of a tick or at its end.
LEMMA FetchRecord ==
    ASSUME FetchInv, ListInv, NewsInv, Next, Kept, done' = tick.st, UNCHANGED fetches,
           \/ tick.pc \in {"status", "deploy"} /\ tick' = NoTick
           \/ tick.pc = "save" /\ UNCHANGED tick
    PROVE  FetchInv'
  <1>1. \/ tick.pc \in {"status", "deploy"} /\ tick'.pc = "idle"
        \/ tick.pc = "save" /\ UNCHANGED tick
    BY NoTickShape
  <1>2. FetchShape' /\ FetchPaid'
    BY <1>1, FetchRecorded DEF FetchInv
  <1>3. TypeInv'
    BY StatesSame, FetchTypes DEF FetchInv
  <1> QED
    BY <1>2, <1>3 DEF FetchInv

\* The tick begins, or goes on after a record.
LEMMA FetchGoing ==
    ASSUME FetchInv, ListInv, NewsInv, Next, Kept, UNCHANGED <<subs, saved>>,
           NEW todo \in Seq(Settings), NEW st, StateOK(st), NEW changed,
           GoesOn(todo, st, changed), Lost(st) \subseteq Lost(done),
           fetches.again + Cardinality(Lost(done)) <= fetches.deaths
    PROVE  FetchInv'
  <1>1. IdsOf(subs) \subseteq DOMAIN saved /\ DOMAIN saved \subseteq Ids
    BY DEF ListInv, ListOK
  <1>2. FetchShape' /\ FetchPaid'
    BY <1>1, FetchGoesOn DEF FetchInv
  <1>3. PICK l \in Seq(Settings) :
            \/ /\ tick'.st = Marked(st, l) /\ UNCHANGED done
               /\ (tick'.todo = <<>> \/ tick'.todo \in Seq(Settings))
            \/ tick' = NoTick /\ done' = Marked(st, l)
    BY GoesOnLaws
  <1>4. StateOK(Marked(st, l))
    BY MarkedLaws
  <1>5. StateOK(done) /\ <<>> \in Seq(Settings)
    BY EmptySeq DEF FetchInv, TypeInv
  <1>6. StateOK(done') /\ StateOK(tick'.st) /\ tick'.todo \in Seq(Settings)
    BY <1>3, <1>4, <1>5, EmptyState
  <1>7. StateOK(done)' /\ StateOK(tick.st)' /\ (tick.todo \in Seq(Settings))'
    BY <1>6 DEF StateOK, Mark
  <1>8. TypeInv'
    BY <1>7, FetchTypes DEF FetchInv
  <1> QED
    BY <1>2, <1>8 DEF FetchInv

\* The steps of a tick.
LEMMA FetchTicks == ASSUME FetchInv, ListInv, NewsInv, Kept, Next, Ticks PROVE FetchInv'
  <1>1. CASE TickBegins
    <2> DEFINE st == [id \in DOMAIN done \cap IdsOf(subs) |-> done[id]]
    <2>1. /\ GoesOn(subs, st, FALSE) /\ tick.pc = "idle" /\ UNCHANGED <<subs, saved>>
      BY <1>1 DEF TickBegins, store
    <2>2. StateOK(st)
      BY DEF FetchInv, TypeInv, StateOK
    <2>3. Lost(st) \subseteq Lost(done)
      BY DEF Lost, Known
    <2>4. /\ fetches.again + Cardinality(Lost(done)) <= fetches.deaths
          /\ subs \in Seq(Settings)
      BY <2>1 DEF FetchInv, FetchPaid, ListInv, ListOK
    <2> HIDE DEF st
    <2> QED
      BY <2>1, <2>2, <2>3, <2>4, FetchGoing
  <1>2. CASE TickNext
    <2>1. /\ GoesOn(tick.todo, tick.st, tick.news) /\ tick.pc = "save" /\ done = tick.st
          /\ UNCHANGED <<subs, saved>>
      BY <1>2 DEF TickNext, store
    <2>2. PICK id \in Ids : PaidBut({id})
      BY <2>1 DEF FetchInv, FetchPaid
    <2>3. Lost(done) \ {id} = Lost(done) /\ Lost(tick.st) \subseteq Lost(done)
      BY <2>1, <2>2 DEF PaidBut
    <2>4. fetches.again + Cardinality(Lost(done)) <= fetches.deaths
      BY <2>2, <2>3 DEF PaidBut
    <2>5. tick.todo \in Seq(Settings) /\ StateOK(tick.st)
      BY DEF FetchInv, TypeInv
    <2> DEFINE todo == tick.todo
               st == tick.st
               changed == tick.news
    <2>6. /\ todo \in Seq(Settings) /\ StateOK(st) /\ GoesOn(todo, st, changed)
          /\ Lost(st) \subseteq Lost(done)
      BY <2>1, <2>3, <2>5
    <2> HIDE DEF todo, st, changed
    <2> QED
      BY <2>1, <2>4, <2>6, FetchGoing
  <1>3. CASE TickRefreshes
    <2> DEFINE j == tick.job
    <2>1. tick.pc = "fetch" /\ JobOK(j) /\ UNCHANGED done
      BY <1>3 DEF TickRefreshes, ListInv
    <2>2. j.new.id \in Ids
      BY <2>1 DEF JobOK, Settings
    <2>3. \/ Dies
          \/ /\ tick' = [tick EXCEPT !.pc = "save", !.news = Changed(tick.before),
                            !.st = With(@, j.new.id, [today |-> TRUE, age |-> 0])]
             /\ UNCHANGED fetches
      BY <1>3 DEF TickRefreshes, PoolThenList
    <2>4. CASE Dies
      BY <2>1, <2>4, FetchDeath
    <2>5. CASE /\ tick' = [tick EXCEPT !.pc = "save", !.news = Changed(tick.before),
                              !.st = With(@, j.new.id, [today |-> TRUE, age |-> 0])]
               /\ UNCHANGED fetches
      <3> HIDE DEF j
      <3>1. /\ tick'.pc = "save" /\ tick'.todo = tick.todo
            /\ tick'.st = With(tick.st, j.new.id, [today |-> TRUE, age |-> 0])
        BY <2>5 DEF NewsInv, TickShape
      <3>2. StateOK(tick.st) /\ StateOK(done) /\ tick.todo \in Seq(Settings)
        BY DEF FetchInv, TypeInv
      <3>3. StateOK(tick'.st) /\ \A id : Known(tick.st, id).today => Known(tick'.st, id).today
        <4> DEFINE st == tick.st
                   id0 == j.new.id
        <4>1. StateOK(st) /\ id0 \in Ids /\ tick'.st = With(st, id0, [today |-> TRUE, age |-> 0])
          BY <2>2, <3>1, <3>2
        <4> HIDE DEF st, id0
        <4>2. StateOK(tick'.st) /\ \A id : Known(st, id).today => Known(tick'.st, id).today
          BY <4>1, WithLaws
        <4> QED
          BY <4>2 DEF st
      <3>4. FetchShape' /\ FetchPaid'
        BY <2>1, <2>5, <3>1, <3>3, FetchSame DEF FetchInv
      <3>5. StateOK(done)' /\ StateOK(tick.st)' /\ (tick.todo \in Seq(Settings))'
        BY <2>1, <3>1, <3>2, <3>3 DEF StateOK, Mark
      <3>6. TypeInv'
        BY <3>5, FetchTypes DEF FetchInv
      <3> QED
        BY <3>4, <3>6 DEF FetchInv
    <2> QED
      BY <2>3, <2>4, <2>5
  <1>4. CASE TickFails
    BY <1>4, FetchOthers DEF TickFails
  <1>5. CASE TickSaves
    BY <1>5, FetchRecord DEF TickSaves
  <1>6. CASE TickAsks
    <2>1. CASE kernel.on
      BY <1>6, <2>1, FetchOthers DEF TickAsks
    <2>2. CASE ~kernel.on
      BY <1>6, <2>2, FetchRecord DEF TickAsks
    <2> QED
      BY <2>1, <2>2
  <1> QED
    BY <1>1, <1>2, <1>3, <1>4, <1>5, <1>6 DEF Ticks

\* The user acts, or a request comes to its end.
LEMMA FetchRequests == ASSUME FetchInv, ListInv, NewsInv, Kept, Next, UserActs \/ Finish \/ GiveUp PROVE FetchInv'
  <1>1. UNCHANGED done
    BY DEF UserActs, BeginCreate, BeginRefresh, BeginEdit, Begin, EditInPlace, Reorder, Delete, AskDeploy,
       Finish, GiveUp
  <1>2. Dies \/ UNCHANGED <<tick, fetches>>
    BY DEF UserActs, BeginCreate, BeginRefresh, BeginEdit, Begin, EditInPlace, Reorder, Delete, AskDeploy,
       Finish, GiveUp, PoolThenList, ListThenPool, Waits, JobEnds
  <1>3. CASE Dies
    BY <1>1, <1>3, FetchDeath
  <1>4. CASE UNCHANGED <<tick, fetches>>
    BY <1>1, <1>4, FetchOthers
  <1> QED
    BY <1>2, <1>3, <1>4

\* The steps of a deploy, which ends the tick that waits for it.
LEMMA FetchDeploys == ASSUME FetchInv, ListInv, NewsInv, Kept, Next, Deploys PROVE FetchInv'
  <1>1. CASE DeployReads \/ DeployRestarts
    BY <1>1, FetchOthers DEF DeployReads, DeployRestarts
  <1>2. CASE DeployEnds \/ DeployFails
    <2>1. /\ UNCHANGED fetches
          /\ IF deploy.who = "scheduler" THEN tick' = NoTick /\ done' = tick.st ELSE UNCHANGED <<tick, done>>
      BY <1>2 DEF DeployEnds, DeployFails, Answered
    <2>2. CASE deploy.who = "scheduler"
      <3>1. tick.pc = "deploy"
        BY <2>2 DEF NewsInv, Awaited
      <3> QED
        BY <2>1, <2>2, <3>1, FetchRecord
    <2>3. CASE deploy.who # "scheduler"
      BY <2>1, <2>3, FetchOthers
    <2> QED
      BY <2>2, <2>3
  <1> QED
    BY <1>1, <1>2 DEF Deploys

\* What comes from outside; at midnight every fetch is a new one.
LEMMA FetchWorld == ASSUME FetchInv, ListInv, NewsInv, Kept, Next, World PROVE FetchInv'
  <1>1. CASE PanelDies
    BY <1>1, FetchDeath DEF PanelDies
  <1>2. CASE PanelStarts \/ Stop \/ UpstreamChanges
    BY <1>2, FetchOthers DEF PanelStarts, Stop, UpstreamChanges
  <1>3. CASE HalfDayPasses
    <2>1. FetchShape' /\ FetchPaid'
      BY <1>3, FetchHalfDay DEF FetchInv, TypeInv
    <2>2. /\ UNCHANGED tick
          /\ done' = [i \in DOMAIN done |->
                        [today |-> done[i].today /\ half = 0,
                         age |-> IF done[i].age \in {Never, Longest} THEN done[i].age ELSE done[i].age + 1]]
      BY <1>3 DEF HalfDayPasses
    <2>3. StateOK(done) /\ half \in {0, 1}
      BY DEF FetchInv, TypeInv
    <2>4. ASSUME NEW i \in DOMAIN done
          PROVE  [today |-> done[i].today /\ half = 0,
                  age |-> IF done[i].age \in {Never, Longest} THEN done[i].age ELSE done[i].age + 1] \in Mark
      <3>1. done[i].age \in {Never} \cup 0 .. Longest /\ done[i] \in Mark
        BY <2>3 DEF StateOK, Mark
      <3>2. (IF done[i].age \in {Never, Longest} THEN done[i].age ELSE done[i].age + 1)
                  \in {Never} \cup 0 .. Longest
        BY <3>1, LongestType
      <3>3. (done[i].today /\ half = 0) \in BOOLEAN
        OBVIOUS
      <3> QED
        BY <3>2, <3>3 DEF Mark
    <2>5. StateOK(done')
      BY <2>2, <2>3, <2>4 DEF StateOK
    <2>6. StateOK(done)' /\ StateOK(tick.st)' /\ (tick.todo \in Seq(Settings))'
      BY <2>2, <2>5 DEF FetchInv, TypeInv, StateOK, Mark
    <2>7. TypeInv'
      BY <2>6, FetchTypes DEF FetchInv
    <2> QED
      BY <2>1, <2>7 DEF FetchInv
  <1> QED
    BY <1>1, <1>2, <1>3 DEF World

\* Every step keeps the invariant.
LEMMA FetchNext == ASSUME FetchInv, ListInv, NewsInv, [Next]_vars PROVE FetchInv'
  <1>1. Kept
    <2>1. Buried /\ DOMAIN saved \subseteq DOMAIN saved'
      BY ListNext, SavedGrows
    <2> QED
      BY <2>1 DEF Buried, Kept
  <1>2. CASE UNCHANGED vars
    BY <1>2 DEF vars, store, kernelSide, FetchInv, TypeInv, FetchShape, FetchPaid, PaidBut, Lost, StateOK, Mark
  <1>3. CASE Next
    BY <1>1, <1>3, FetchRequests, FetchTicks, FetchDeploys, FetchWorld DEF Next
  <1> QED
    BY <1>2, <1>3

\* Nothing has been fetched yet.
LEMMA FetchInit == Init => FetchInv
  <1> SUFFICES ASSUME Init PROVE FetchInv
    OBVIOUS
  <1>1. /\ done = <<>> /\ tick = NoTick /\ tick.pc = "idle" /\ deploy = NoDeploy /\ half = 0
        /\ panel = [on |-> TRUE, ticked |-> FALSE] /\ kernel.nodes = pool
        /\ fetches = [today |-> {}, again |-> 0, deaths |-> 0] /\ left \in Budgets
    BY DEF Init, NoTick
  <1>2. pool \in Seq(Blocks)
    BY ListInit DEF ListInv, ListOK
  <1>3. NoDeploy.nodes \in Seq(Blocks)
    BY EmptySeq DEF NoDeploy
  <1>4. left \in [Counted -> Nat]
    BY <1>1, SubscriptionsAssumption
  <1>5. StateOK(done) /\ StateOK(tick.st) /\ tick.todo \in Seq(Settings)
    BY <1>1, EmptyState
  <1>6. TypeInv
    BY <1>1, <1>2, <1>3, <1>4, <1>5 DEF TypeInv
  <1>7. FetchShape
    BY <1>1, FS_EmptySet DEF FetchShape
  <1>8. Lost(done) = {} /\ Cardinality(Lost(done)) = 0
    <2>1. Lost(done) = {}
      BY <1>1 DEF Lost
    <2> QED
      BY <2>1, FS_EmptySet
  <1>9. FetchPaid
    BY <1>1, <1>8 DEF FetchPaid
  <1> QED
    BY <1>6, <1>7, <1>9 DEF FetchInv

\* A list without repeated ids has as many ids as records.
LEMMA UniqueSize == ASSUME NEW T, NEW L \in Seq(T), Unique(L) PROVE Cardinality(IdsOf(L)) = Len(L)
  <1> DEFINE f == [i \in 1 .. Len(L) |-> L[i].id]
             S == IdsOf(L)
  <1>1. DOMAIN L = 1 .. Len(L) /\ Len(L) \in Nat
    OBVIOUS
  <1>2. /\ f \in [1 .. Len(L) -> S] /\ \A t \in S : \E i \in 1 .. Len(L) : f[i] = t
        /\ \A i, k \in 1 .. Len(L) : f[i] = f[k] => i = k
    BY <1>1 DEF IdsOf, Unique
  <1> HIDE DEF f, S
  <1>3. f \in Bijection(1 .. Len(L), S)
    BY <1>2 DEF Bijection, Injection, IsInjective, Surjection
  <1>4. ExistsBijection(1 .. Len(L), S)
    BY <1>3 DEF ExistsBijection
  <1> QED
    BY <1>1, <1>4, FS_CountingElements DEF S

\* Nodes and list agree, and nothing is fetched twice on a day but what a death made the
\* panel forget.
THEOREM NodesFollow == Spec => []NodesFollowList
  <1>1. ASSUME FetchInv, ListInv, NewsInv PROVE TypeOK
    <2>1. /\ upstream \in [Srcs -> Nat] /\ subs \in Seq(Settings) /\ Unique(subs)
          /\ pool \in Seq(Blocks) /\ Unique(pool)
      BY <1>1 DEF ListInv, ListOK
    <2>2. Cardinality(IdsOf(subs)) = Len(subs)
      BY <2>1, UniqueSize
    <2>3. Cardinality(IdsOf(pool)) = Len(pool)
      BY <2>1, UniqueSize
    <2>4. /\ \A i \in DOMAIN done : done[i].today \in BOOLEAN /\ done[i].age \in {Never} \cup 0 .. Longest
          /\ DOMAIN done \subseteq Ids
      BY <1>1 DEF FetchInv, TypeInv, StateOK, Mark
    <2>5. job # Nothing => job.op \in {"create", "edit", "refresh"} /\ job.new \in Settings
      BY <1>1 DEF ListInv, JobOK
    <2>6. /\ tick.pc \in {"idle", "fetch", "save", "status", "deploy"}
          /\ deploy.pc \in {"none", "read", "down"} /\ deploy.waiting \subseteq {"user", "scheduler"}
          /\ kernel.on \in BOOLEAN
      BY <1>1 DEF NewsInv, TickShape, DeployShape, KernelShape
    <2>7. /\ panel \in [on : BOOLEAN, ticked : BOOLEAN] /\ kernel.nodes \in Seq(Blocks)
          /\ half \in {0, 1} /\ left \in [Counted -> Nat]
      BY <1>1 DEF FetchInv, TypeInv
    <2> QED
      BY <2>1, <2>2, <2>3, <2>4, <2>5, <2>6, <2>7 DEF TypeOK
  <1>2. ASSUME FetchInv, NewsInv PROVE FetchedOnce
    <2>1. fetches.again \in Nat /\ fetches.deaths \in Nat
      BY <1>2 DEF FetchInv, FetchShape
    <2>2. \E A : Cardinality(A) \in Nat /\ fetches.again + Cardinality(A) <= fetches.deaths
      <3>1. tick.pc \in {"idle", "fetch", "save", "status", "deploy"}
        BY <1>2 DEF NewsInv, TickShape
      <3>2. IsFiniteSet(Lost(done)) /\ Cardinality(Lost(done)) \in Nat
        BY <1>2, LostFinite DEF FetchInv
      <3>3. ASSUME NEW some, PaidBut(some)
            PROVE  \E A : Cardinality(A) \in Nat /\ fetches.again + Cardinality(A) <= fetches.deaths
        <4>1. IsFiniteSet(Lost(done) \ some)
          BY <3>2, FS_Difference
        <4>2. Cardinality(Lost(done) \ some) \in Nat
          BY <4>1, FS_CardinalityType
        <4> QED
          BY <3>3, <4>2 DEF PaidBut
      <3> QED
        BY <1>2, <3>1, <3>2, <3>3 DEF FetchInv, FetchPaid
    <2> QED
      BY <2>1, <2>2 DEF FetchedOnce
  <1>3. Spec => [](FetchInv /\ ListInv /\ NewsInv)
    BY FetchInit, FetchNext, ListAlways, PTL DEF Spec
  <1>4. FetchInv /\ ListInv /\ NewsInv /\ PoolFollowsList => NodesFollowList
    BY <1>1, <1>2 DEF NodesFollowList
  <1> QED
    BY <1>3, <1>4, PoolFollows, PTL
=============================================================================
