--------------------------- MODULE TrafficProofs ---------------------------
(***************************************************************************)
(* No byte is booked twice, every day holds what is due to it, and the rows  *)
(* of a day agree with each other: proofs about TrafficCollector.            *)
(*                                                                         *)
(* The properties are equations between sums, so the module first shows what *)
(* SumOf does: that it exists, is the same in any order, and is split, added *)
(* and grouped as sums are.  The rest rests on two ideas.                    *)
(*                                                                         *)
(* A book is an account (Account) when its rows agree with each other from a *)
(* day on.  What a reading books is one, two accounts are one when added,    *)
(* and a deletion of whole days, or of detail past its term, leaves one.     *)
(*                                                                         *)
(* Room is how much of what passed through the kernel can have been booked:  *)
(* all of it while a process has no base line, what had passed at the base   *)
(* line afterwards.  No step takes room away, a reading makes as much as it  *)
(* books, and what is held never exceeds it.                                 *)
(***************************************************************************)
EXTENDS TrafficCollector, FiniteSetTheorems, WellFoundedInduction, TLAPS

-----------------------------------------------------------------------------
(* Sums over finite sets. *)

\* The function by which SumOf is defined.
Sums(f, S, g) ==
    g = [s \in SUBSET S |->
            IF s = {} THEN 0 ELSE f[CHOOSE x \in s : TRUE] + g[s \ {CHOOSE x \in s : TRUE}]]

\* Among the bad subsets of a finite set one is bad although all with one element less are good.
LEMMA SmallestBad ==
    ASSUME NEW S, IsFiniteSet(S), NEW Bad, Bad \subseteq SUBSET S, Bad # {}
    PROVE  \E s \in Bad : \A x \in s : s \ {x} \notin Bad
  <1>1. IsWellFoundedOn(StrictSubsetOrdering(S), FiniteSubsetsOf(S))
    BY FS_StrictSubsetOrderingWellFounded
  <1>2. FiniteSubsetsOf(S) = SUBSET S
    BY FS_FiniteSubsetsOfFinite
  <1>3. PICK s \in Bad : \A t \in Bad : ~(<<t, s>> \in StrictSubsetOrdering(S))
    BY <1>1, <1>2, WFMin
  <1>4. ASSUME NEW x \in s, s \ {x} \in Bad PROVE FALSE
    <2>1. s \ {x} \subseteq s /\ s \ {x} # s /\ s \subseteq S
      BY <1>4
    <2>2. <<s \ {x}, s>> \in StrictSubsetOrdering(S)
      BY <2>1 DEF StrictSubsetOrdering
    <2> QED
      BY <1>3, <1>4, <2>2
  <1> QED
    BY <1>4

\* A set of numbers with 0 and the successor of each has all of them.
LEMMA Induction ==
    ASSUME NEW S, 0 \in S, \A n \in Nat : n \in S => n + 1 \in S
    PROVE  \A n \in Nat : n \in S
  <1> SUFFICES ASSUME NEW n \in Nat, n \notin S PROVE FALSE
    OBVIOUS
  <1> DEFINE Bad == {m \in Nat : m \notin S}
             R == OpToRel(<, Nat)
  <1>1. IsWellFoundedOn(R, Nat)
    BY NatLessThanWellFounded
  <1>2. Bad \subseteq Nat /\ Bad # {}
    OBVIOUS
  <1> HIDE DEF Bad, R
  <1>3. PICK m \in Bad : \A k \in Bad : ~(<<k, m>> \in R)
    BY <1>1, <1>2, WFMin
  <1>4. \A k \in Bad : ~(k < m)
    BY <1>2, <1>3 DEF R, OpToRel
  <1>5. m \in Nat /\ m \notin S /\ m # 0
    BY DEF Bad
  <1>6. m - 1 \in Nat /\ m - 1 < m /\ (m - 1) + 1 = m
    BY <1>5
  <1>7. m - 1 \in S
    BY <1>4, <1>6 DEF Bad
  <1> QED
    BY <1>5, <1>6, <1>7

\* The recursion of SumOf has a solution: one that is right for subsets up to a size can be
\* made right for those with one element more.
LEMMA SumsExist == ASSUME NEW f, NEW S, IsFiniteSet(S) PROVE \E g : Sums(f, S, g)
  <1> DEFINE step(g, s) == IF s = {} THEN 0 ELSE f[CHOOSE x \in s : TRUE] + g[s \ {CHOOSE x \in s : TRUE}]
             Right(g, n) == \A s \in SUBSET S : Cardinality(s) <= n => g[s] = step(g, s)
             Sizes == {n \in Nat : \E g : Right(g, n)}
  <1>0. \A s \in SUBSET S : IsFiniteSet(s) /\ Cardinality(s) \in Nat
    BY FS_Subset, FS_CardinalityType
  <1>1. 0 \in Sizes
    <2> DEFINE g == [s \in SUBSET S |-> 0]
    <2>1. ASSUME NEW s \in SUBSET S, Cardinality(s) <= 0 PROVE g[s] = step(g, s)
      <3>1. s = {}
        BY <1>0, <2>1, FS_EmptySet
      <3> QED
        BY <3>1
    <2> QED
      BY <2>1
  <1>2. ASSUME NEW n \in Nat, n \in Sizes PROVE n + 1 \in Sizes
    <2>1. PICK g : Right(g, n)
      BY <1>2
    <2> DEFINE h == [s \in SUBSET S |-> step(g, s)]
    <2>2. ASSUME NEW s \in SUBSET S, Cardinality(s) <= n PROVE h[s] = g[s]
      BY <2>1, <2>2
    <2>3. ASSUME NEW s \in SUBSET S, Cardinality(s) <= n + 1 PROVE h[s] = step(h, s)
      <3>1. CASE s = {}
        BY <3>1
      <3>2. CASE s # {}
        <4> DEFINE c == CHOOSE x \in s : TRUE
        <4>1. c \in s
          BY <3>2
        <4> HIDE DEF c
        <4>2. s \ {c} \in SUBSET S /\ Cardinality(s \ {c}) = Cardinality(s) - 1
          BY <1>0, <4>1, FS_RemoveElement
        <4>3. Cardinality(s \ {c}) <= n
          BY <1>0, <2>3, <4>2
        <4>4. h[s \ {c}] = g[s \ {c}]
          BY <2>2, <4>2, <4>3
        <4>5. h[s] = f[c] + g[s \ {c}]
          BY <3>2 DEF c
        <4> QED
          BY <3>2, <4>4, <4>5 DEF c
      <3> QED
        BY <3>1, <3>2
    <2>4. Right(h, n + 1)
      BY <2>3
    <2> HIDE DEF h, Right
    <2>5. \E k : Right(k, n + 1)
      BY <2>4
    <2> QED
      BY <2>5
  <1>3. \A n \in Nat : n \in Sizes
    <2> HIDE DEF Sizes
    <2> QED
      BY <1>1, <1>2, Induction
  <1>4. PICK g : Right(g, Cardinality(S))
    BY <1>0, <1>3
  <1> DEFINE h == [s \in SUBSET S |-> step(g, s)]
  <1>5. ASSUME NEW s \in SUBSET S PROVE Cardinality(s) <= Cardinality(S)
    BY FS_Subset
  <1>6. ASSUME NEW s \in SUBSET S PROVE h[s] = g[s]
    BY <1>4, <1>5
  <1>7. ASSUME NEW s \in SUBSET S PROVE step(g, s) = step(h, s)
    <2>1. CASE s # {}
      <3> DEFINE c == CHOOSE x \in s : TRUE
      <3>1. s \ {c} \in SUBSET S
        OBVIOUS
      <3> HIDE DEF c
      <3>2. h[s \ {c}] = g[s \ {c}]
        BY <1>6, <3>1
      <3> QED
        BY <2>1, <3>2 DEF c
    <2> QED
      BY <2>1
  <1>8. h = [s \in SUBSET S |-> step(h, s)]
    <2> HIDE DEF step
    <2> QED
      BY <1>7
  <1> QED
    BY <1>8 DEF Sums

\* SumOf is such a solution at its set.
LEMMA SumOfIs ==
    ASSUME NEW f, NEW S, IsFiniteSet(S)
    PROVE  \E g : Sums(f, S, g) /\ SumOf(f, S) = g[S]
  <1> DEFINE G == CHOOSE g : Sums(f, S, g)
  <1>1. Sums(f, S, G)
    BY SumsExist, Zenon
  <1>2. SumOf(f, S) = G[S]
    BY DEF SumOf, MapThenSumSet, MapThenFoldSet, Sums
  <1> QED
    BY <1>1, <1>2

\* Two solutions agree on the sets they share, if what they add up is the same there.
LEMMA SumsAgree ==
    ASSUME NEW f, NEW S, NEW g, Sums(f, S, g), IsFiniteSet(S), NEW e, NEW T, NEW h, Sums(e, T, h),
           S \subseteq T, \A x \in S : f[x] = e[x]
    PROVE  g[S] = h[S]
  <1> DEFINE Bad == {s \in SUBSET S : g[s] # h[s]}
  <1> SUFFICES ASSUME Bad # {} PROVE FALSE
    OBVIOUS
  <1>1. PICK s \in Bad : \A x \in s : s \ {x} \notin Bad
    <2> HIDE DEF Bad
    <2>1. Bad \subseteq SUBSET S
      BY DEF Bad
    <2> QED
      BY <2>1, SmallestBad
  <1>2. s \in SUBSET S /\ s \in SUBSET T /\ g[s] # h[s]
    OBVIOUS
  <1>3. /\ g[s] = IF s = {} THEN 0 ELSE f[CHOOSE x \in s : TRUE] + g[s \ {CHOOSE x \in s : TRUE}]
        /\ h[s] = IF s = {} THEN 0 ELSE e[CHOOSE x \in s : TRUE] + h[s \ {CHOOSE x \in s : TRUE}]
    BY <1>2 DEF Sums
  <1> DEFINE c == CHOOSE x \in s : TRUE
  <1>4. s # {} /\ c \in s
    BY <1>2, <1>3
  <1> HIDE DEF c
  <1>5. g[s \ {c}] = h[s \ {c}] /\ f[c] = e[c]
    BY <1>1, <1>2, <1>4
  <1> QED
    BY <1>2, <1>3, <1>4, <1>5 DEF c

\* The sum depends on the values on its set only.
LEMMA SumSame ==
    ASSUME NEW f, NEW e, NEW S, IsFiniteSet(S), \A x \in S : f[x] = e[x]
    PROVE  SumOf(f, S) = SumOf(e, S)
  <1>1. PICK g : Sums(f, S, g) /\ SumOf(f, S) = g[S]
    BY SumOfIs
  <1>2. PICK h : Sums(e, S, h) /\ SumOf(e, S) = h[S]
    BY SumOfIs
  <1> QED
    BY <1>1, <1>2, SumsAgree

\* Nothing adds up to 0; otherwise some element is added to the sum of the others.
LEMMA SumStep ==
    ASSUME NEW f, NEW S, IsFiniteSet(S)
    PROVE  IF S = {} THEN SumOf(f, S) = 0
           ELSE \E c \in S : SumOf(f, S) = f[c] + SumOf(f, S \ {c})
  <1>1. PICK g : Sums(f, S, g) /\ SumOf(f, S) = g[S]
    BY SumOfIs
  <1>2. g[S] = IF S = {} THEN 0 ELSE f[CHOOSE x \in S : TRUE] + g[S \ {CHOOSE x \in S : TRUE}]
    BY <1>1 DEF Sums
  <1>3. CASE S # {}
    <2> DEFINE c == CHOOSE x \in S : TRUE
    <2>1. c \in S
      BY <1>3
    <2> HIDE DEF c
    <2>2. IsFiniteSet(S \ {c}) /\ S \ {c} \subseteq S
      BY FS_Subset
    <2>3. PICK h : Sums(f, S \ {c}, h) /\ SumOf(f, S \ {c}) = h[S \ {c}]
      BY <2>2, SumOfIs
    <2>4. h[S \ {c}] = g[S \ {c}]
      BY <1>1, <2>2, <2>3, SumsAgree
    <2> QED
      BY <1>1, <1>2, <1>3, <2>1, <2>3, <2>4 DEF c
  <1> QED
    BY <1>1, <1>2, <1>3

\* Sums of numbers are numbers.
LEMMA SumType ==
    ASSUME NEW f, NEW S, IsFiniteSet(S), \A x \in S : f[x] \in Nat
    PROVE  SumOf(f, S) \in Nat
  <1> DEFINE Bad == {s \in SUBSET S : SumOf(f, s) \notin Nat}
  <1> SUFFICES ASSUME Bad # {} PROVE FALSE
    OBVIOUS
  <1>1. PICK s \in Bad : \A x \in s : s \ {x} \notin Bad
    <2> HIDE DEF Bad
    <2>1. Bad \subseteq SUBSET S
      BY DEF Bad
    <2> QED
      BY <2>1, SmallestBad
  <1>2. s \in SUBSET S /\ IsFiniteSet(s) /\ SumOf(f, s) \notin Nat
    BY FS_Subset
  <1>3. PICK c \in s : SumOf(f, s) = f[c] + SumOf(f, s \ {c})
    BY <1>2, SumStep
  <1>4. SumOf(f, s \ {c}) \in Nat /\ f[c] \in Nat
    BY <1>1, <1>2
  <1> QED
    BY <1>2, <1>3, <1>4

\* Any element may be taken out first.
LEMMA SumSplit ==
    ASSUME NEW f, NEW S, IsFiniteSet(S), \A x \in S : f[x] \in Nat, NEW a \in S
    PROVE  SumOf(f, S) = f[a] + SumOf(f, S \ {a})
  <1> DEFINE Bad == {s \in SUBSET S : \E x \in s : SumOf(f, s) # f[x] + SumOf(f, s \ {x})}
  <1> SUFFICES ASSUME Bad # {} PROVE FALSE
    OBVIOUS
  <1>1. PICK s \in Bad : \A x \in s : s \ {x} \notin Bad
    <2> HIDE DEF Bad
    <2>1. Bad \subseteq SUBSET S
      BY DEF Bad
    <2> QED
      BY <2>1, SmallestBad
  <1>2. s \in SUBSET S /\ IsFiniteSet(s)
    BY FS_Subset
  <1>3. PICK x \in s : SumOf(f, s) # f[x] + SumOf(f, s \ {x})
    OBVIOUS
  <1>4. PICK c \in s : SumOf(f, s) = f[c] + SumOf(f, s \ {c})
    BY <1>2, SumStep
  <1>5. c # x /\ f[c] \in Nat /\ f[x] \in Nat
    BY <1>2, <1>3, <1>4
  <1>6. SumOf(f, s \ {c}) = f[x] + SumOf(f, (s \ {c}) \ {x})
    BY <1>1, <1>2, <1>5
  <1>7. SumOf(f, s \ {x}) = f[c] + SumOf(f, (s \ {x}) \ {c})
    BY <1>1, <1>2, <1>5
  <1>8. (s \ {c}) \ {x} = (s \ {x}) \ {c}
    OBVIOUS
  <1>9. SumOf(f, (s \ {x}) \ {c}) \in Nat
    <2>1. (s \ {x}) \ {c} \in SUBSET S /\ IsFiniteSet((s \ {x}) \ {c})
      BY <1>2, FS_Subset
    <2> QED
      BY <2>1, SumType
  <1>10. SumOf(f, (s \ {c}) \ {x}) = SumOf(f, (s \ {x}) \ {c})
    BY <1>8, Zenon
  <1>11. f[c] + (f[x] + SumOf(f, (s \ {x}) \ {c})) = f[x] + (f[c] + SumOf(f, (s \ {x}) \ {c}))
    BY <1>5, <1>9
  <1> QED
    BY <1>3, <1>4, <1>6, <1>7, <1>10, <1>11, Zenon

\* A sum of sums, element by element.
LEMMA SumPlus ==
    ASSUME NEW f, NEW e, NEW h, NEW S, IsFiniteSet(S),
           \A x \in S : f[x] \in Nat /\ e[x] \in Nat /\ h[x] = f[x] + e[x]
    PROVE  SumOf(h, S) = SumOf(f, S) + SumOf(e, S)
  <1> DEFINE Bad == {s \in SUBSET S : SumOf(h, s) # SumOf(f, s) + SumOf(e, s)}
  <1> SUFFICES ASSUME Bad # {} PROVE FALSE
    OBVIOUS
  <1>1. PICK s \in Bad : \A x \in s : s \ {x} \notin Bad
    <2> HIDE DEF Bad
    <2>1. Bad \subseteq SUBSET S
      BY DEF Bad
    <2> QED
      BY <2>1, SmallestBad
  <1>2. s \in SUBSET S /\ IsFiniteSet(s) /\ SumOf(h, s) # SumOf(f, s) + SumOf(e, s)
    BY FS_Subset
  <1>3. s # {}
    <2> SUFFICES ASSUME s = {} PROVE FALSE
      OBVIOUS
    <2>1. SumOf(h, s) = 0
      BY <1>2, SumStep
    <2>2. SumOf(f, s) = 0
      BY <1>2, SumStep
    <2>3. SumOf(e, s) = 0
      BY <1>2, SumStep
    <2> QED
      BY <1>2, <2>1, <2>2, <2>3
  <1>4. PICK c \in s : TRUE
    BY <1>3
  <1> DEFINE r == s \ {c}
  <1>5. r \in SUBSET S /\ IsFiniteSet(r) /\ f[c] \in Nat /\ e[c] \in Nat /\ h[c] = f[c] + e[c]
    BY <1>2, <1>4, FS_Subset
  <1>6. SumOf(f, s) = f[c] + SumOf(f, r)
    BY <1>2, <1>4, SumSplit
  <1>7. SumOf(e, s) = e[c] + SumOf(e, r)
    BY <1>2, <1>4, SumSplit
  <1>8. SumOf(h, s) = h[c] + SumOf(h, r)
    <2>1. \A x \in s : h[x] \in Nat
      BY <1>2
    <2> QED
      BY <1>2, <1>4, <2>1, SumSplit
  <1>9. SumOf(h, r) = SumOf(f, r) + SumOf(e, r)
    BY <1>1, <1>4, <1>5
  <1>10. SumOf(f, r) \in Nat
    BY <1>5, SumType
  <1>11. SumOf(e, r) \in Nat
    BY <1>5, SumType
  <1> QED
    BY <1>2, <1>5, <1>6, <1>7, <1>8, <1>9, <1>10, <1>11

\* Larger elements, and more of them, make a larger sum.
LEMMA SumLess ==
    ASSUME NEW f, NEW e, NEW S, IsFiniteSet(S), \A x \in S : f[x] \in Nat /\ e[x] \in Nat /\ f[x] <= e[x]
    PROVE  SumOf(f, S) <= SumOf(e, S)
  <1> DEFINE d == [x \in S |-> e[x] - f[x]]
  <1>1. \A x \in S : d[x] \in Nat /\ e[x] = f[x] + d[x]
    OBVIOUS
  <1> HIDE DEF d
  <1>2. SumOf(e, S) = SumOf(f, S) + SumOf(d, S)
    BY <1>1, SumPlus
  <1>3. SumOf(d, S) \in Nat
    BY <1>1, SumType
  <1>4. SumOf(f, S) \in Nat
    BY SumType
  <1> QED
    BY <1>2, <1>3, <1>4

\* Elements that are 0 may be left out or added.
LEMMA SumOver ==
    ASSUME NEW f, NEW S, IsFiniteSet(S), \A x \in S : f[x] \in Nat, NEW T, T \subseteq S,
           \A x \in S \ T : f[x] = 0
    PROVE  SumOf(f, S) = SumOf(f, T)
  <1> DEFINE Bad == {s \in SUBSET S : SumOf(f, s) # SumOf(f, s \cap T)}
  <1>0. S \cap T = T
    OBVIOUS
  <1> SUFFICES ASSUME Bad # {} PROVE FALSE
    BY <1>0
  <1>1. PICK s \in Bad : \A x \in s : s \ {x} \notin Bad
    <2> HIDE DEF Bad
    <2>1. Bad \subseteq SUBSET S
      BY DEF Bad
    <2> QED
      BY <2>1, SmallestBad
  <1>2. s \in SUBSET S /\ IsFiniteSet(s) /\ SumOf(f, s) # SumOf(f, s \cap T)
    BY FS_Subset
  <1>3. PICK c \in s : c \notin T
    <2>1. s # s \cap T
      BY <1>2
    <2> QED
      BY <2>1
  <1>4. SumOf(f, s) = f[c] + SumOf(f, s \ {c})
    BY <1>2, SumSplit
  <1>5. SumOf(f, s \ {c}) = SumOf(f, (s \ {c}) \cap T) /\ (s \ {c}) \cap T = s \cap T
    BY <1>1, <1>2, <1>3
  <1>6. f[c] = 0
    BY <1>2, <1>3
  <1>7. SumOf(f, s \ {c}) \in Nat
    <2>1. s \ {c} \in SUBSET S /\ IsFiniteSet(s \ {c})
      BY <1>2, FS_Subset
    <2> QED
      BY <2>1, SumType
  <1>8. SumOf(f, (s \ {c}) \cap T) = SumOf(f, s \cap T)
    BY <1>5, Zenon
  <1>9. SumOf(f, s) = SumOf(f, s \ {c})
    BY <1>4, <1>6, <1>7
  <1> QED
    BY <1>2, <1>5, <1>8, <1>9, Zenon

\* Nothing adds up to nothing.
LEMMA SumNone == ASSUME NEW f, NEW S, IsFiniteSet(S), \A x \in S : f[x] = 0 PROVE SumOf(f, S) = 0
  <1>1. SumOf(f, S) = SumOf(f, {})
    BY SumOver
  <1>2. SumOf(f, {}) = 0
    BY FS_EmptySet, SumStep
  <1> QED
    BY <1>1, <1>2

\* One element only.
LEMMA SumOne ==
    ASSUME NEW f, NEW S, IsFiniteSet(S), NEW a \in S, f[a] \in Nat, \A x \in S \ {a} : f[x] = 0
    PROVE  SumOf(f, S) = f[a]
  <1>1. \A x \in S : f[x] \in Nat
    OBVIOUS
  <1>2. SumOf(f, S) = f[a] + SumOf(f, S \ {a})
    BY <1>1, SumSplit
  <1>3. IsFiniteSet(S \ {a}) /\ S \ {a} \subseteq S
    BY FS_Subset
  <1>4. SumOf(f, S \ {a}) = SumOf(f, {})
    BY <1>1, <1>3, SumOver
  <1>5. SumOf(f, {}) = 0
    BY FS_EmptySet, SumStep
  <1> QED
    BY <1>2, <1>4, <1>5

\* A sum in two parts.
LEMMA SumParts ==
    ASSUME NEW f, NEW S, IsFiniteSet(S), \A x \in S : f[x] \in Nat, NEW A, NEW B, A \cup B = S, A \cap B = {}
    PROVE  SumOf(f, S) = SumOf(f, A) + SumOf(f, B)
  <1> DEFINE a == [x \in S |-> IF x \in A THEN f[x] ELSE 0]
             b == [x \in S |-> IF x \in B THEN f[x] ELSE 0]
  <1>1. \A x \in S : a[x] \in Nat /\ b[x] \in Nat /\ f[x] = a[x] + b[x]
    OBVIOUS
  <1>2. /\ \A x \in S \ A : a[x] = 0 
        /\ \A x \in A : a[x] = f[x]
        /\ \A x \in S \ B : b[x] = 0 
        /\ \A x \in B : b[x] = f[x]
    OBVIOUS
  <1>3. A \subseteq S /\ B \subseteq S /\ IsFiniteSet(A) /\ IsFiniteSet(B)
    BY FS_Subset
  <1> HIDE DEF a, b
  <1>4. SumOf(f, S) = SumOf(a, S) + SumOf(b, S)
    BY <1>1, SumPlus
  <1>5. SumOf(a, S) = SumOf(a, A)
    BY <1>1, <1>2, <1>3, SumOver
  <1>6. SumOf(b, S) = SumOf(b, B)
    BY <1>1, <1>2, <1>3, SumOver
  <1>7. SumOf(a, A) = SumOf(f, A)
    BY <1>2, <1>3, SumSame
  <1>8. SumOf(b, B) = SumOf(f, B)
    BY <1>2, <1>3, SumSame
  <1> QED
    BY <1>4, <1>5, <1>6, <1>7, <1>8

\* The members of some groups.
Group(S, of, N) == {x \in S : of[x] \in N}

\* A sum by groups: adding up what each group adds up to.
LEMMA SumGroups ==
    ASSUME NEW f, NEW S, NEW of, NEW N, NEW g, IsFiniteSet(S), IsFiniteSet(N), \A x \in S : f[x] \in Nat,
           \A n \in N : g[n] = SumOf(f, Group(S, of, {n}))
    PROVE  SumOf(g, N) = SumOf(f, Group(S, of, N))
  <1> DEFINE In1(m) == {x \in S : of[x] \in m}
             Bad == {m \in SUBSET N : SumOf(g, m) # SumOf(f, In1(m))}
  <1> SUFFICES ASSUME Bad # {} PROVE FALSE
    BY DEF Group
  <1>1. PICK m \in Bad : \A n \in m : m \ {n} \notin Bad
    <2> HIDE DEF Bad
    <2>1. Bad \subseteq SUBSET N
      BY DEF Bad
    <2> QED
      BY <2>1, SmallestBad
  <1>2. m \in SUBSET N /\ IsFiniteSet(m) /\ SumOf(g, m) # SumOf(f, In1(m))
    BY FS_Subset
  <1>3. m # {}
    <2> SUFFICES ASSUME m = {} PROVE FALSE
      OBVIOUS
    <2>1. SumOf(g, m) = 0
      BY <1>2, SumStep
    <2>2. In1(m) = {} /\ IsFiniteSet({})
      BY FS_EmptySet
    <2>3. SumOf(f, {}) = 0
      BY <2>2, SumStep
    <2> QED
      BY <1>2, <2>1, <2>2, <2>3
  <1>4. PICK n \in m : SumOf(g, m) = g[n] + SumOf(g, m \ {n})
    BY <1>2, <1>3, SumStep
  <1> DEFINE A == {x \in S : of[x] = n}
  <1>5. In1(m) = A \cup In1(m \ {n}) /\ A \cap In1(m \ {n}) = {} /\ In1(m) \subseteq S
    BY <1>4
  <1>6. SumOf(g, m \ {n}) = SumOf(f, In1(m \ {n}))
    BY <1>1, <1>2, <1>4
  <1>7. IsFiniteSet(In1(m))
    BY <1>5, FS_Subset
  <1>8. SumOf(f, In1(m)) = SumOf(f, A) + SumOf(f, In1(m \ {n}))
    <2> DEFINE M == In1(m)
               R == In1(m \ {n})
    <2>1. \A x \in M : f[x] \in Nat
      BY <1>5
    <2>2. A \cup R = M /\ A \cap R = {} /\ IsFiniteSet(M)
      BY <1>5, <1>7
    <2> HIDE DEF A, M, R
    <2>3. SumOf(f, M) = SumOf(f, A) + SumOf(f, R)
      BY <2>1, <2>2, SumParts
    <2> QED
      BY <2>3 DEF M, R
  <1>9. g[n] = SumOf(f, A)
    <2>1. Group(S, of, {n}) = A
      BY DEF Group
    <2> QED
      BY <1>2, <1>4, <2>1
  <1> QED
    BY <1>2, <1>4, <1>6, <1>8, <1>9

-----------------------------------------------------------------------------
(* Books: rows and their bytes. *)

IsBook(b) == b \in [DOMAIN b -> Nat]

\* A row that is not there holds nothing.
LEMMA InType == ASSUME NEW b, IsBook(b), NEW row PROVE In(b, row) \in Nat /\ (row \notin DOMAIN b => In(b, row) = 0)
  BY DEF IsBook, In

\* An empty book is one, and holds nothing.
LEMMA EmptyLaws == IsBook(Empty) /\ DOMAIN Empty = {} /\ \A row : In(Empty, row) = 0
  BY DEF IsBook, In, Empty

\* Adding two books adds up their rows.
LEMMA PlusLaws ==
    ASSUME NEW a, NEW b, IsBook(a), IsBook(b)
    PROVE  /\ IsBook(Plus(a, b)) /\ DOMAIN Plus(a, b) = DOMAIN a \cup DOMAIN b
           /\ \A row : In(Plus(a, b), row) = In(a, row) + In(b, row)
  <1>1. \A row : In(a, row) \in Nat /\ In(b, row) \in Nat
    BY InType
  <1>2. \A row : row \notin DOMAIN a \cup DOMAIN b => In(a, row) = 0 /\ In(b, row) = 0
    BY InType
  <1>3. Plus(a, b) = [row \in DOMAIN a \cup DOMAIN b |-> In(a, row) + In(b, row)]
    BY DEF Plus
  <1>4. DOMAIN Plus(a, b) = DOMAIN a \cup DOMAIN b
    BY <1>3
  <1>5. ASSUME NEW row PROVE In(Plus(a, b), row) = In(a, row) + In(b, row)
    <2>1. CASE row \in DOMAIN a \cup DOMAIN b
      <3>1. In(Plus(a, b), row) = Plus(a, b)[row]
        BY <1>4, <2>1 DEF In
      <3> QED
        BY <1>3, <2>1, <3>1
    <2>2. CASE row \notin DOMAIN a \cup DOMAIN b
      <3>1. In(Plus(a, b), row) = 0
        BY <1>4, <2>2 DEF In
      <3> QED
        BY <1>2, <2>2, <3>1
    <2> QED
      BY <2>1, <2>2
  <1>6. IsBook(Plus(a, b))
    BY <1>1, <1>3, <1>4 DEF IsBook
  <1> QED
    BY <1>4, <1>5, <1>6

\* Deleting rows leaves the others.
LEMMA WithoutLaws ==
    ASSUME NEW a, IsBook(a), NEW R
    PROVE  /\ IsBook(Without(a, R)) /\ DOMAIN Without(a, R) = DOMAIN a \ R
           /\ \A row : In(Without(a, R), row) = IF row \in R THEN 0 ELSE In(a, row)
  <1>1. Without(a, R) = [row \in DOMAIN a \ R |-> a[row]]
    BY DEF Without
  <1> QED
    BY <1>1 DEF IsBook, In

\* What is left in b of a after a deletion: of all rows no more, all of the firm ones.
Pruned(a, b, firm) ==
    /\ IsBook(b) /\ DOMAIN b \subseteq DOMAIN a
    /\ \A row : In(b, row) <= In(a, row)
    /\ \A row \in firm : In(b, row) = In(a, row)

\* Deleting nothing is a deletion.
LEMMA PrunedSame == ASSUME NEW a, IsBook(a), NEW firm PROVE Pruned(a, a, firm)
  <1>1. \A row : In(a, row) \in Nat
    BY InType
  <1> QED
    BY <1>1 DEF Pruned

\* Deleting rows that are not firm is one.
LEMMA PrunedWithout ==
    ASSUME NEW a, IsBook(a), NEW firm, NEW R, R \cap firm = {}
    PROVE  Pruned(a, Without(a, R), firm)
  <1>1. \A row : In(a, row) \in Nat
    BY InType
  <1>2. /\ IsBook(Without(a, R)) /\ DOMAIN Without(a, R) = DOMAIN a \ R
        /\ \A row : In(Without(a, R), row) = IF row \in R THEN 0 ELSE In(a, row)
    BY WithoutLaws
  <1> QED
    BY <1>1, <1>2 DEF Pruned

-----------------------------------------------------------------------------
(* The counters of the kernel, and readings of them. *)

IsKernel(k) ==
    /\ k \in [on : BOOLEAN, life : Nat, total : Nat, conn : [Conns -> {"new", "open", "gone"}],
              bytes : [Conns -> Nat]]
    /\ \A c \in Conns : (k.conn[c] = "new" => k.bytes[c] = 0) /\ (~k.on => k.conn[c] # "open")

\* One of the steps of the kernel.
KernelStep(k, n) ==
    \/ ~k.on /\ n = [k EXCEPT !.on = TRUE, !.life = @ + 1, !.total = 0]
    \/ n = [k EXCEPT !.on = FALSE, !.conn = [c \in Conns |-> IF @[c] = "open" THEN "gone" ELSE @[c]]]
    \/ \E c \in Conns :
          \/ /\ k.on /\ k.conn[c] # "gone"
             /\ n = [k EXCEPT !.conn[c] = "open", !.bytes[c] = @ + 1, !.total = @ + 1]
          \/ k.conn[c] = "open" /\ n = [k EXCEPT !.conn[c] = "gone"]

\* What of the total a reading of a life has seen, for the kernel of another.
From(l, t, life) == IF l = life THEN t ELSE 0

\* What passed through the open connections after a reading, by connection.
Rest(k, s) == [c \in Conns |-> IF k.conn[c] = "open" THEN k.bytes[c] - In(s, c) ELSE 0]

\* l, t and s are life, total and connections of a reading of this kernel or an earlier one.
Behind(k, l, t, s) ==
    /\ l \in Nat /\ t \in Nat /\ IsBook(s) /\ DOMAIN s \subseteq Conns
    /\ l <= k.life
    /\ \A c \in DOMAIN s : /\ s[c] <= k.bytes[c] /\ k.conn[c] # "new"
                           /\ k.conn[c] = "open" => l = k.life
    /\ SumOf(Rest(k, s), Conns) + From(l, t, k.life) <= k.total

\* What passed between two readings, by connection, as far as the second still shows it.
Grown(s, s2) == [c \in Conns |-> IF c \in DOMAIN s2 THEN s2[c] - In(s, c) ELSE 0]

\* The second reading came after the first.
Between(l, t, s, l2, t2, s2) ==
    /\ l <= l2
    /\ \A c \in DOMAIN s2 : In(s, c) <= s2[c] /\ (l # l2 => In(s, c) = 0)
    /\ SumOf(Grown(s, s2), Conns) + From(l, t, l2) <= t2

\* The bytes of the connections that are open.
Reading(k) == [c \in {c \in Conns : k.conn[c] = "open"} |-> k.bytes[c]]

\* Every sum over connections is over a finite set.
LEMMA ConnsFinite == IsFiniteSet(Conns)
  BY TrafficAssumption DEF TrafficAssumption

\* The sums over connections are of numbers.
LEMMA RestType ==
    ASSUME NEW k, IsKernel(k), NEW l, NEW t, NEW s, Behind(k, l, t, s)
    PROVE  /\ \A c \in Conns : In(s, c) \in Nat /\ In(s, c) <= k.bytes[c] /\ k.bytes[c] \in Nat
           /\ \A c \in Conns : Rest(k, s)[c] \in Nat
           /\ SumOf(Rest(k, s), Conns) \in Nat
  <1>1. \A c \in Conns : In(s, c) \in Nat /\ (c \notin DOMAIN s => In(s, c) = 0)
    BY InType DEF Behind
  <1>2. \A c \in Conns : k.bytes[c] \in Nat
    BY DEF IsKernel
  <1>3. \A c \in Conns : In(s, c) <= k.bytes[c]
    BY <1>1, <1>2 DEF Behind, In
  <1>4. \A c \in Conns : Rest(k, s)[c] \in Nat
    BY <1>1, <1>2, <1>3 DEF Rest
  <1> QED
    BY <1>1, <1>2, <1>3, <1>4, ConnsFinite, SumType

\* The steps of the kernel, counter by counter.
Starts(k, n) == /\ ~k.on /\ n.on \in BOOLEAN /\ n.on /\ n.life = k.life + 1 /\ n.total = 0
                /\ n.conn = k.conn /\ n.bytes = k.bytes
Ends(k, n) == /\ n.on \in BOOLEAN /\ ~n.on /\ n.life = k.life /\ n.total = k.total /\ n.bytes = k.bytes
              /\ n.conn = [c \in Conns |-> IF k.conn[c] = "open" THEN "gone" ELSE k.conn[c]]
Passes(k, n, c) == /\ k.on /\ n.on \in BOOLEAN /\ n.on /\ k.conn[c] # "gone"
                   /\ n.life = k.life /\ n.total = k.total + 1
                   /\ n.conn = [k.conn EXCEPT ![c] = "open"]
                   /\ n.bytes = [k.bytes EXCEPT ![c] = @ + 1]
Closes(k, n, c) == /\ k.conn[c] = "open" /\ n.on = k.on /\ n.life = k.life /\ n.total = k.total
                   /\ n.conn = [k.conn EXCEPT ![c] = "gone"] /\ n.bytes = k.bytes

\* KernelStep is one of them, and the result has the fields of a kernel.
LEMMA KernelCases ==
    ASSUME NEW k, IsKernel(k), NEW n, KernelStep(k, n)
    PROVE  /\ \/ Starts(k, n) \/ Ends(k, n)
              \/ \E c \in Conns : Passes(k, n, c) \/ Closes(k, n, c)
           /\ n = [on |-> n.on, life |-> n.life, total |-> n.total, conn |-> n.conn, bytes |-> n.bytes]
  <1>1. k = [on |-> k.on, life |-> k.life, total |-> k.total, conn |-> k.conn, bytes |-> k.bytes]
    BY DEF IsKernel
  <1>2. CASE ~k.on /\ n = [k EXCEPT !.on = TRUE, !.life = @ + 1, !.total = 0]
    BY <1>1, <1>2 DEF Starts
  <1>3. CASE n = [k EXCEPT !.on = FALSE, !.conn = [c \in Conns |-> IF @[c] = "open" THEN "gone" ELSE @[c]]]
    BY <1>1, <1>3 DEF Ends
  <1>4. CASE \E c \in Conns : k.conn[c] = "open" /\ n = [k EXCEPT !.conn[c] = "gone"]
    BY <1>1, <1>4 DEF Closes
  <1>5. CASE \E c \in Conns :
               /\ k.on /\ k.conn[c] # "gone"
               /\ n = [k EXCEPT !.conn[c] = "open", !.bytes[c] = @ + 1, !.total = @ + 1]
    BY <1>1, <1>5 DEF Passes
  <1> QED
    BY <1>2, <1>3, <1>4, <1>5 DEF KernelStep

\* A step of the kernel keeps it one, and no byte is taken back.
LEMMA KernelKept ==
    ASSUME NEW k, IsKernel(k), NEW n, KernelStep(k, n)
    PROVE  IsKernel(n) /\ \A c \in Conns : k.bytes[c] \in Nat /\ n.bytes[c] \in Nat /\ k.bytes[c] <= n.bytes[c]
  <1>0. /\ k.on \in BOOLEAN /\ k.life \in Nat /\ k.total \in Nat
        /\ k.conn \in [Conns -> {"new", "open", "gone"}] /\ k.bytes \in [Conns -> Nat]
        /\ \A c \in Conns : (k.conn[c] = "new" => k.bytes[c] = 0) /\ (~k.on => k.conn[c] # "open")
    BY DEF IsKernel
  <1>1. n = [on |-> n.on, life |-> n.life, total |-> n.total, conn |-> n.conn, bytes |-> n.bytes]
    BY KernelCases
  <1>2. /\ n.on \in BOOLEAN /\ n.life \in Nat /\ n.total \in Nat
        /\ n.conn \in [Conns -> {"new", "open", "gone"}] /\ n.bytes \in [Conns -> Nat]
        /\ \A c \in Conns : k.bytes[c] <= n.bytes[c]
        /\ \A c \in Conns : (n.conn[c] = "new" => n.bytes[c] = 0) /\ (~n.on => n.conn[c] # "open")
    <2>1. CASE Starts(k, n)
      BY <1>0, <2>1 DEF Starts
    <2>2. CASE Ends(k, n)
      BY <1>0, <2>2 DEF Ends
    <2>3. CASE \E c \in Conns : Passes(k, n, c)
      <3>1. PICK a \in Conns : Passes(k, n, a)
        BY <2>3
      <3>2. /\ n.conn \in [Conns -> {"new", "open", "gone"}] /\ n.bytes \in [Conns -> Nat]
            /\ \A c \in Conns : n.conn[c] = IF c = a THEN "open" ELSE k.conn[c]
            /\ \A c \in Conns : n.bytes[c] = IF c = a THEN k.bytes[c] + 1 ELSE k.bytes[c]
            /\ n.on \in BOOLEAN /\ n.on /\ n.life = k.life /\ n.total = k.total + 1
        BY <1>0, <3>1 DEF Passes
      <3> QED
        BY <1>0, <3>2
    <2>4. CASE \E c \in Conns : Closes(k, n, c)
      <3>1. PICK a \in Conns : Closes(k, n, a)
        BY <2>4
      <3>2. /\ n.conn \in [Conns -> {"new", "open", "gone"}]
            /\ \A c \in Conns : n.conn[c] = IF c = a THEN "gone" ELSE k.conn[c]
            /\ n.on = k.on /\ n.life = k.life /\ n.total = k.total /\ n.bytes = k.bytes
        BY <1>0, <3>1 DEF Closes
      <3> QED
        BY <1>0, <3>2
    <2> QED
      BY <2>1, <2>2, <2>3, <2>4, KernelCases
  <1>3. n \in [on : BOOLEAN, life : Nat, total : Nat, conn : [Conns -> {"new", "open", "gone"}],
               bytes : [Conns -> Nat]]
    BY <1>1, <1>2
  <1> QED
    BY <1>0, <1>2, <1>3 DEF IsKernel

\* What changes when a byte passes: this connection and the sum by one.
LEMMA SumMore ==
    ASSUME NEW f, NEW e, NEW S, IsFiniteSet(S), NEW a \in S, \A x \in S : f[x] \in Nat,
           \A x \in S : e[x] = IF x = a THEN f[x] + 1 ELSE f[x]
    PROVE  SumOf(e, S) = SumOf(f, S) + 1
  <1> DEFINE d == [x \in S |-> IF x = a THEN 1 ELSE 0]
  <1>1. \A x \in S : d[x] \in Nat /\ e[x] = f[x] + d[x]
    OBVIOUS
  <1>2. d[a] = 1 /\ d[a] \in Nat /\ \A x \in S \ {a} : d[x] = 0
    OBVIOUS
  <1> HIDE DEF d
  <1>3. SumOf(e, S) = SumOf(f, S) + SumOf(d, S)
    BY <1>1, SumPlus
  <1>4. SumOf(d, S) = d[a]
    BY <1>2, SumOne
  <1> QED
    BY <1>2, <1>3, <1>4

\* What the open connections have passed since a reading, in the next state of the kernel.
LEMMA BehindKept ==
    ASSUME NEW k, IsKernel(k), NEW n, KernelStep(k, n), NEW l, NEW t, NEW s, Behind(k, l, t, s)
    PROVE  Behind(n, l, t, s)
  <1> DEFINE R == Rest(k, s)
             N == Rest(n, s)
  <1>1. /\ k.life \in Nat /\ k.total \in Nat /\ l \in Nat /\ t \in Nat /\ IsBook(s) /\ DOMAIN s \subseteq Conns
        /\ l <= k.life /\ k.conn \in [Conns -> {"new", "open", "gone"}] /\ k.bytes \in [Conns -> Nat]
    BY DEF IsKernel, Behind
  <1>2. \A c \in Conns : R[c] \in Nat /\ In(s, c) \in Nat /\ In(s, c) <= k.bytes[c]
    BY RestType
  <1>3. \A c \in Conns : R[c] = IF k.conn[c] = "open" THEN k.bytes[c] - In(s, c) ELSE 0
    BY DEF Rest
  <1>4. \A c \in Conns : N[c] = IF n.conn[c] = "open" THEN n.bytes[c] - In(s, c) ELSE 0
    BY DEF Rest
  <1>5. SumOf(R, Conns) \in Nat /\ SumOf(R, Conns) + From(l, t, k.life) <= k.total
    BY RestType DEF Behind
  <1>6. \A c \in Conns : k.conn[c] = "new" => c \notin DOMAIN s /\ In(s, c) = 0 /\ k.bytes[c] = 0
    BY <1>1, InType DEF Behind, IsKernel
  <1>7. /\ l <= n.life
        /\ \A c \in DOMAIN s : s[c] <= n.bytes[c] /\ n.conn[c] # "new" /\ (n.conn[c] = "open" => l = n.life)
        /\ SumOf(N, Conns) + From(l, t, n.life) <= n.total
    <2> HIDE DEF R, N
    <2>1. CASE Starts(k, n)
      <3>1. \A c \in Conns : N[c] \in Nat /\ N[c] = 0
        BY <1>4, <2>1 DEF Starts, IsKernel
      <3>2. SumOf(N, Conns) = 0
        BY <3>1, ConnsFinite, SumNone
      <3>3. From(l, t, n.life) = 0
        BY <1>1, <2>1 DEF From, Starts
      <3>4. \A c \in DOMAIN s : s[c] <= n.bytes[c] /\ n.conn[c] # "new" /\ n.conn[c] # "open"
        BY <1>1, <2>1 DEF Starts, Behind, IsKernel
      <3> QED
        BY <1>1, <2>1, <3>2, <3>3, <3>4 DEF Starts
    <2>2. CASE Ends(k, n) \/ \E c \in Conns : Closes(k, n, c)
      <3>1. n.life = k.life /\ n.total = k.total /\ n.bytes = k.bytes
        BY <2>2 DEF Ends, Closes
      <3>2. \A c \in Conns : n.conn[c] = k.conn[c] \/ n.conn[c] = "gone"
        BY <1>1, <2>2 DEF Ends, Closes
      <3>3. \A c \in Conns : N[c] \in Nat /\ N[c] <= R[c]
        BY <1>2, <1>3, <1>4, <3>1, <3>2
      <3>4. SumOf(N, Conns) <= SumOf(R, Conns)
        BY <1>2, <3>3, ConnsFinite, SumLess
      <3>5. SumOf(N, Conns) \in Nat
        BY <3>3, ConnsFinite, SumType
      <3>6. From(l, t, k.life) \in Nat
        BY <1>1 DEF From
      <3>7. \A c \in DOMAIN s : s[c] <= n.bytes[c] /\ n.conn[c] # "new" /\ (n.conn[c] = "open" => l = n.life)
        BY <1>1, <3>1, <3>2 DEF Behind
      <3> QED
        BY <1>1, <1>5, <3>1, <3>4, <3>5, <3>6, <3>7
    <2>3. CASE \E c \in Conns : Passes(k, n, c)
      <3>1. PICK a \in Conns : Passes(k, n, a)
        BY <2>3
      <3>2. /\ n.life = k.life /\ n.total = k.total + 1 /\ k.conn[a] \in {"new", "open"}
            /\ \A c \in Conns : n.conn[c] = IF c = a THEN "open" ELSE k.conn[c]
            /\ \A c \in Conns : n.bytes[c] = IF c = a THEN k.bytes[c] + 1 ELSE k.bytes[c]
        BY <1>1, <3>1 DEF Passes
      <3>3. \A c \in Conns : N[c] = IF c = a THEN R[c] + 1 ELSE R[c]
        BY <1>1, <1>2, <1>3, <1>4, <1>6, <3>2
      <3>4. SumOf(N, Conns) = SumOf(R, Conns) + 1
        BY <1>2, <3>3, ConnsFinite, SumMore
      <3>5. From(l, t, k.life) \in Nat
        BY <1>1 DEF From
      <3>6. ASSUME NEW c \in DOMAIN s
            PROVE  s[c] <= n.bytes[c] /\ n.conn[c] # "new" /\ (n.conn[c] = "open" => l = n.life)
        <4>1. c \in Conns /\ s[c] \in Nat /\ s[c] <= k.bytes[c] /\ k.bytes[c] \in Nat /\ k.conn[c] # "new"
          BY <1>1 DEF Behind, IsBook
        <4>2. k.conn[c] = "open" => l = k.life
          BY DEF Behind
        <4>3. c = a => k.conn[c] = "open"
          BY <3>2, <4>1
        <4> QED
          BY <3>2, <4>1, <4>2, <4>3
      <3> QED
        BY <1>1, <1>5, <3>2, <3>4, <3>5, <3>6
    <2> QED
      BY <2>1, <2>2, <2>3, KernelCases
  <1> QED
    BY <1>1, <1>7 DEF Behind

\* A reading now is behind nothing, and after every earlier one.
LEMMA ReadNow ==
    ASSUME NEW k, IsKernel(k)
    PROVE  /\ Behind(k, k.life, k.total, Reading(k))
           /\ \A c \in Conns : In(Reading(k), c) = IF k.conn[c] = "open" THEN k.bytes[c] ELSE 0
  <1> DEFINE s == Reading(k)
             R == Rest(k, s)
  <1>1. k.life \in Nat /\ k.total \in Nat /\ k.bytes \in [Conns -> Nat]
    BY DEF IsKernel
  <1>2. DOMAIN s = {c \in Conns : k.conn[c] = "open"} /\ \A c \in DOMAIN s : s[c] = k.bytes[c]
    BY DEF Reading
  <1>3. IsBook(s)
    BY <1>1, <1>2 DEF IsBook, Reading
  <1> HIDE DEF s
  <1>4. \A c \in Conns : In(s, c) = IF k.conn[c] = "open" THEN k.bytes[c] ELSE 0
    BY <1>2 DEF In
  <1>5. \A c \in Conns : R[c] = 0 /\ R[c] \in Nat
    BY <1>1, <1>4 DEF Rest
  <1> HIDE DEF R
  <1>6. SumOf(R, Conns) = 0
    BY <1>5, ConnsFinite, SumNone
  <1>7. SumOf(R, Conns) + From(k.life, k.total, k.life) <= k.total
    BY <1>1, <1>6 DEF From
  <1>8. \A c \in DOMAIN s : s[c] <= k.bytes[c] /\ k.conn[c] # "new"
    BY <1>1, <1>2
  <1>9. Behind(k, k.life, k.total, s)
    BY <1>1, <1>2, <1>3, <1>7, <1>8 DEF Behind, R
  <1> QED
    BY <1>4, <1>9 DEF s

\* A reading now is a later one than any that this kernel is behind of.
LEMMA ReadAfter ==
    ASSUME NEW k, IsKernel(k), NEW l, NEW t, NEW s, Behind(k, l, t, s)
    PROVE  Between(l, t, s, k.life, k.total, Reading(k))
  <1> DEFINE s2 == Reading(k)
             R == Rest(k, s)
             G == Grown(s, s2)
  <1>1. DOMAIN s2 = {c \in Conns : k.conn[c] = "open"} /\ \A c \in DOMAIN s2 : s2[c] = k.bytes[c]
    BY DEF Reading
  <1>2. \A c \in Conns : In(s, c) \in Nat /\ In(s, c) <= k.bytes[c]
    BY RestType
  <1> HIDE DEF s2
  <1>3. \A c \in Conns : G[c] = R[c]
    BY <1>1 DEF Grown, Rest
  <1>4. SumOf(G, Conns) = SumOf(R, Conns)
    <2> HIDE DEF G, R
    <2> QED
      BY <1>3, ConnsFinite, SumSame
  <1>5. \A c \in DOMAIN s2 : In(s, c) <= s2[c] /\ (l # k.life => In(s, c) = 0)
    BY <1>1, <1>2, InType DEF Behind
  <1>6. SumOf(G, Conns) + From(l, t, k.life) <= k.total
    BY <1>4 DEF Behind
  <1> QED
    BY <1>5, <1>6 DEF Between, Behind, s2

\* The bytes that passed before a reading: all but what the total shows since then.
Before(k, l, t) == (SumOf(k.bytes, Conns) - k.total) + From(l, t, k.life)

\* What has passed before a reading does not become less.
LEMMA BeforeGrows ==
    ASSUME NEW k, IsKernel(k), NEW n, KernelStep(k, n), NEW l, NEW t, NEW s, Behind(k, l, t, s)
    PROVE  /\ SumOf(k.bytes, Conns) \in Nat /\ SumOf(n.bytes, Conns) \in Nat
           /\ SumOf(k.bytes, Conns) <= SumOf(n.bytes, Conns)
           /\ Before(k, l, t) \in Int /\ Before(n, l, t) \in Int /\ Before(k, l, t) <= Before(n, l, t)
  <1>1. /\ k.life \in Nat /\ k.total \in Nat /\ l \in Nat /\ t \in Nat /\ n.total \in Nat /\ n.life \in Nat
        /\ l <= k.life /\ k.bytes \in [Conns -> Nat]
    BY KernelKept DEF IsKernel, Behind
  <1>2. \A c \in Conns : k.bytes[c] \in Nat /\ n.bytes[c] \in Nat /\ k.bytes[c] <= n.bytes[c]
    BY KernelKept
  <1>3. SumOf(k.bytes, Conns) \in Nat
    BY <1>2, ConnsFinite, SumType
  <1>4. SumOf(n.bytes, Conns) \in Nat
    BY <1>2, ConnsFinite, SumType
  <1>5. SumOf(k.bytes, Conns) <= SumOf(n.bytes, Conns)
    BY <1>2, ConnsFinite, SumLess
  <1>6. From(l, t, k.life) \in Nat /\ From(l, t, n.life) \in Nat /\ From(l, t, k.life) <= k.total
    <2>1. SumOf(Rest(k, s), Conns) \in Nat /\ SumOf(Rest(k, s), Conns) + From(l, t, k.life) <= k.total
      BY RestType DEF Behind
    <2> QED
      BY <1>1, <2>1 DEF From
  <1>7. Before(k, l, t) <= Before(n, l, t)
    <2>1. CASE Starts(k, n)
      <3>1. n.bytes = k.bytes /\ n.total = 0
        BY <2>1 DEF Starts
      <3> QED
        BY <1>1, <1>3, <1>6, <3>1 DEF Before
    <2>2. CASE Ends(k, n) \/ \E c \in Conns : Closes(k, n, c)
      <3>1. n.life = k.life /\ n.total = k.total /\ n.bytes = k.bytes
        BY <2>2 DEF Ends, Closes
      <3> QED
        BY <1>1, <1>3, <1>6, <3>1 DEF Before
    <2>3. CASE \E c \in Conns : Passes(k, n, c)
      <3>1. PICK a \in Conns : Passes(k, n, a)
        BY <2>3
      <3>2. /\ n.life = k.life /\ n.total = k.total + 1
            /\ \A c \in Conns : n.bytes[c] = IF c = a THEN k.bytes[c] + 1 ELSE k.bytes[c]
        BY <1>1, <3>1 DEF Passes
      <3>3. SumOf(n.bytes, Conns) = SumOf(k.bytes, Conns) + 1
        BY <1>2, <3>2, ConnsFinite, SumMore
      <3> QED
        BY <1>1, <1>3, <1>6, <3>2, <3>3 DEF Before
    <2> QED
      BY <2>1, <2>2, <2>3, KernelCases
  <1> QED
    BY <1>1, <1>3, <1>4, <1>5, <1>6, <1>7 DEF Before

\* What may have been counted of a connection at a reading: all if it is closed by now.
Seen(k, s) == [c \in Conns |-> IF k.conn[c] = "open" THEN In(s, c) ELSE k.bytes[c]]

\* No more than has passed was seen of a connection.
LEMMA SeenType ==
    ASSUME NEW k, IsKernel(k), NEW l, NEW t, NEW s, Behind(k, l, t, s)
    PROVE  \A c \in Conns : Seen(k, s)[c] \in Nat /\ Seen(k, s)[c] <= k.bytes[c]
  BY RestType DEF Seen

\* A step of the kernel takes nothing away from what was seen.
LEMMA SeenGrows ==
    ASSUME NEW k, IsKernel(k), NEW n, KernelStep(k, n), NEW l, NEW t, NEW s, Behind(k, l, t, s)
    PROVE  \A c \in Conns : Seen(k, s)[c] <= Seen(n, s)[c]
  <1> SUFFICES ASSUME NEW c \in Conns PROVE Seen(k, s)[c] <= Seen(n, s)[c]
    OBVIOUS
  <1>1. /\ k.bytes[c] \in Nat /\ n.bytes[c] \in Nat /\ k.bytes[c] <= n.bytes[c]
    BY KernelKept
  <1>2. In(s, c) \in Nat /\ In(s, c) <= k.bytes[c]
    BY RestType
  <1>3. k.conn \in [Conns -> {"new", "open", "gone"}]
    BY DEF IsKernel
  <1>4. k.conn[c] = "new" => In(s, c) = 0 /\ k.bytes[c] = 0
    BY InType DEF Behind, IsKernel
  <1>5. n.conn[c] = k.conn[c] \/ n.conn[c] = "gone" \/ (n.conn[c] = "open" /\ k.conn[c] = "new")
    <2>1. CASE Starts(k, n) \/ Ends(k, n)
      BY <2>1 DEF Starts, Ends
    <2>2. CASE \E a \in Conns : Passes(k, n, a)
      <3>1. PICK a \in Conns : Passes(k, n, a)
        BY <2>2
      <3>2. k.conn[a] # "gone" /\ n.conn[c] = IF c = a THEN "open" ELSE k.conn[c]
        BY <1>3, <3>1 DEF Passes
      <3> QED
        BY <1>3, <3>2
    <2>3. CASE \E a \in Conns : Closes(k, n, a)
      <3>1. PICK a \in Conns : Closes(k, n, a)
        BY <2>3
      <3>2. n.conn[c] = IF c = a THEN "gone" ELSE k.conn[c]
        BY <1>3, <3>1 DEF Closes
      <3> QED
        BY <3>2
    <2> QED
      BY <2>1, <2>2, <2>3, KernelCases
  <1> QED
    BY <1>1, <1>2, <1>4, <1>5 DEF Seen


-----------------------------------------------------------------------------
(* Accounts: books whose rows agree with each other. *)

Real == Nodes \ {Loop}
Entries == [day : Nat, hour : Hours \cup {None}, what : {"total", "hour"} \cup Real]

\* The hours of a day are the day, the hours of a node on it are the node's, the nodes no more than all.
HoursOf(b, d) == SumOf([h \in Hours |-> In(b, Curve(d, h))], Hours) = In(b, Total(d))
DetailOf(b, d, n) == SumOf([h \in Hours |-> In(b, Detail(d, h, n))], Hours) = In(b, OfNode(d, n))
PartsOf(b, d) == SumOf([n \in Nodes |-> In(b, OfNode(d, n))], Real) <= In(b, Total(d))

\* So it is on all days from fl on, the detail as long as it is kept, the nodes unless excused.
Account(b, fl, day, free) ==
    \A d \in Nat : d >= fl =>
        /\ HoursOf(b, d)
        /\ d + DetailKeep > day => \A n \in Real : DetailOf(b, d, n)
        /\ free \/ PartsOf(b, d)

\* The rows that no deletion touches.
Firm(fl, day) == {row \in Entries : row.day >= fl /\ (IsDetail(row) => row.day + DetailKeep > day)}

\* The sums of an account are over finite sets.
LEMMA FiniteIndices == IsFiniteSet(Hours) /\ IsFiniteSet(Nodes) /\ IsFiniteSet(Real) /\ Real \subseteq Nodes
  <1>1. IsFiniteSet(Hours)
    <2>1. 0 \in Int /\ HoursPerDay - 1 \in Int
      BY TrafficAssumption DEF TrafficAssumption
    <2> QED
      BY <2>1, FS_Interval DEF Hours
  <1>2. IsFiniteSet(Nodes)
    <2> DEFINE f == [c \in Conns |-> Node[c]]
    <2>1. Nodes = {f[c] : c \in Conns}
      BY DEF Nodes
    <2>2. f \in Surjection(Conns, Nodes)
      BY <2>1 DEF Surjection
    <2> QED
      BY <2>2, ConnsFinite, FS_Surjection
  <1> QED
    BY <1>1, <1>2, FS_Subset DEF Real

\* The kinds of rows are distinct.
LEMMA EntryLaws ==
    ASSUME NEW d \in Nat
    PROVE  /\ Total(d) \in Entries /\ ~IsDetail(Total(d)) /\ Total(d).day = d
           /\ \A h \in Hours : Curve(d, h) \in Entries /\ ~IsDetail(Curve(d, h)) /\ Curve(d, h).day = d
           /\ \A n \in Real : OfNode(d, n) \in Entries /\ ~IsDetail(OfNode(d, n)) /\ OfNode(d, n).day = d
           /\ \A h \in Hours, n \in Real :
                 Detail(d, h, n) \in Entries /\ IsDetail(Detail(d, h, n)) /\ Detail(d, h, n).day = d
           /\ \A n \in Real : n # "total" /\ n # "hour"
           /\ \A h \in Hours : h # None /\ h \in Nat
  <1>1. \A n \in Real : n # "total" /\ n # "hour"
    BY TrafficAssumption DEF TrafficAssumption, Real, Nodes
  <1>2. \A h \in Hours : h # None /\ h \in Nat
    BY TrafficAssumption DEF TrafficAssumption, Hours
  <1> QED
    BY <1>1, <1>2 DEF Total, Curve, OfNode, Detail, IsDetail, Entries

\* A book that holds nothing is an account.
LEMMA AccountEmpty == ASSUME NEW fl, NEW day, NEW free PROVE Account(Empty, fl, day, free)
  <1>1. ASSUME NEW d PROVE HoursOf(Empty, d)
    <2> DEFINE f == [h \in Hours |-> In(Empty, Curve(d, h))]
    <2>1. \A h \in Hours : f[h] = 0
      BY EmptyLaws
    <2> HIDE DEF f
    <2>2. SumOf(f, Hours) = 0
      BY <2>1, FiniteIndices, SumNone
    <2> QED
      BY <2>2, EmptyLaws DEF HoursOf, f
  <1>2. ASSUME NEW d, NEW n PROVE DetailOf(Empty, d, n)
    <2> DEFINE f == [h \in Hours |-> In(Empty, Detail(d, h, n))]
    <2>1. \A h \in Hours : f[h] = 0
      BY EmptyLaws
    <2> HIDE DEF f
    <2>2. SumOf(f, Hours) = 0
      BY <2>1, FiniteIndices, SumNone
    <2> QED
      BY <2>2, EmptyLaws DEF DetailOf, f
  <1>3. ASSUME NEW d PROVE PartsOf(Empty, d)
    <2> DEFINE f == [n \in Nodes |-> In(Empty, OfNode(d, n))]
    <2>1. \A n \in Real : f[n] = 0
      BY EmptyLaws, FiniteIndices
    <2> HIDE DEF f
    <2>2. SumOf(f, Real) = 0
      BY <2>1, FiniteIndices, SumNone
    <2>3. In(Empty, Total(d)) = 0
      BY EmptyLaws
    <2> QED
      BY <2>2, <2>3 DEF PartsOf, f
  <1> QED
    BY <1>1, <1>2, <1>3 DEF Account

\* Two accounts are one.
LEMMA AccountPlus ==
    ASSUME NEW a, NEW b, IsBook(a), IsBook(b), NEW fl, NEW day, NEW free,
           Account(a, fl, day, free), Account(b, fl, day, free)
    PROVE  Account(Plus(a, b), fl, day, free)
  <1> DEFINE p == Plus(a, b)
  <1>1. \A row : In(p, row) = In(a, row) + In(b, row) /\ In(a, row) \in Nat /\ In(b, row) \in Nat
    <2>1. \A row : In(p, row) = In(a, row) + In(b, row)
      BY PlusLaws
    <2>2. \A row : In(a, row) \in Nat
      BY InType
    <2>3. \A row : In(b, row) \in Nat
      BY InType
    <2> QED
      BY <2>1, <2>2, <2>3
  <1> HIDE DEF p
  <1>2. ASSUME NEW d, HoursOf(a, d), HoursOf(b, d) PROVE HoursOf(p, d)
    <2> DEFINE f == [h \in Hours |-> In(a, Curve(d, h))]
               g == [h \in Hours |-> In(b, Curve(d, h))]
               s == [h \in Hours |-> In(p, Curve(d, h))]
    <2>1. \A h \in Hours : f[h] \in Nat /\ g[h] \in Nat /\ s[h] = f[h] + g[h]
      BY <1>1
    <2>2. SumOf(f, Hours) = In(a, Total(d)) /\ SumOf(g, Hours) = In(b, Total(d))
      BY <1>2 DEF HoursOf
    <2> HIDE DEF f, g, s
    <2>3. SumOf(s, Hours) = SumOf(f, Hours) + SumOf(g, Hours)
      BY <2>1, FiniteIndices, SumPlus
    <2>4. SumOf(s, Hours) = In(p, Total(d))
      BY <1>1, <2>2, <2>3
    <2> QED
      BY <2>4 DEF HoursOf, s
  <1>3. ASSUME NEW d, NEW n, DetailOf(a, d, n), DetailOf(b, d, n) PROVE DetailOf(p, d, n)
    <2> DEFINE f == [h \in Hours |-> In(a, Detail(d, h, n))]
               g == [h \in Hours |-> In(b, Detail(d, h, n))]
               s == [h \in Hours |-> In(p, Detail(d, h, n))]
    <2>1. \A h \in Hours : f[h] \in Nat /\ g[h] \in Nat /\ s[h] = f[h] + g[h]
      BY <1>1
    <2>2. SumOf(f, Hours) = In(a, OfNode(d, n)) /\ SumOf(g, Hours) = In(b, OfNode(d, n))
      BY <1>3 DEF DetailOf
    <2> HIDE DEF f, g, s
    <2>3. SumOf(s, Hours) = SumOf(f, Hours) + SumOf(g, Hours)
      BY <2>1, FiniteIndices, SumPlus
    <2>4. SumOf(s, Hours) = In(p, OfNode(d, n))
      BY <1>1, <2>2, <2>3
    <2> QED
      BY <2>4 DEF DetailOf, s
  <1>4. ASSUME NEW d, PartsOf(a, d), PartsOf(b, d) PROVE PartsOf(p, d)
    <2> DEFINE f == [n \in Nodes |-> In(a, OfNode(d, n))]
               g == [n \in Nodes |-> In(b, OfNode(d, n))]
               s == [n \in Nodes |-> In(p, OfNode(d, n))]
    <2>1. \A n \in Real : f[n] \in Nat /\ g[n] \in Nat /\ s[n] = f[n] + g[n]
      BY <1>1, FiniteIndices
    <2>2. SumOf(f, Real) <= In(a, Total(d)) /\ SumOf(g, Real) <= In(b, Total(d))
      BY <1>4 DEF PartsOf
    <2> HIDE DEF f, g, s
    <2>3. SumOf(s, Real) = SumOf(f, Real) + SumOf(g, Real)
      BY <2>1, FiniteIndices, SumPlus
    <2>4. SumOf(f, Real) \in Nat
      BY <2>1, FiniteIndices, SumType
    <2>5. SumOf(g, Real) \in Nat
      BY <2>1, FiniteIndices, SumType
    <2>6. In(p, Total(d)) = In(a, Total(d)) + In(b, Total(d)) /\ In(a, Total(d)) \in Nat /\ In(b, Total(d)) \in Nat
      BY <1>1
    <2>7. SumOf(s, Real) <= In(p, Total(d))
      BY <2>2, <2>3, <2>4, <2>5, <2>6
    <2> QED
      BY <2>7 DEF PartsOf, s
  <1> QED
    BY <1>2, <1>3, <1>4 DEF Account, p

\* Deletions, a later day and a higher bound leave an account one.
LEMMA AccountPruned ==
    ASSUME NEW a, NEW b, NEW fl \in Nat, NEW day \in Nat, NEW fl2 \in Nat, NEW day2 \in Nat, NEW free, NEW free2,
           fl <= fl2, day <= day2, free => free2,
           Account(a, fl, day, free), Pruned(a, b, Firm(fl2, day2))
    PROVE  Account(b, fl2, day2, free2)
  <1> SUFFICES ASSUME NEW d \in Nat, d >= fl2
               PROVE  /\ HoursOf(b, d)
                      /\ d + DetailKeep > day2 => \A n \in Real : DetailOf(b, d, n)
                      /\ free2 \/ PartsOf(b, d)
    BY DEF Account
  <1>0. DetailKeep \in Nat
    BY TrafficAssumption DEF TrafficAssumption
  <1>1. /\ HoursOf(a, d)
        /\ d + DetailKeep > day => \A n \in Real : DetailOf(a, d, n)
        /\ free \/ PartsOf(a, d)
    BY DEF Account
  <1>2. \A row \in Firm(fl2, day2) : In(b, row) = In(a, row)
    BY DEF Pruned
  <1>3. In(b, Total(d)) = In(a, Total(d))
    BY <1>2, EntryLaws DEF Firm
  <1>4. \A h \in Hours : In(b, Curve(d, h)) = In(a, Curve(d, h))
    BY <1>2, EntryLaws DEF Firm
  <1>5. \A n \in Real : In(b, OfNode(d, n)) = In(a, OfNode(d, n))
    BY <1>2, EntryLaws DEF Firm
  <1>6. HoursOf(b, d)
    <2> DEFINE f == [h \in Hours |-> In(a, Curve(d, h))]
               g == [h \in Hours |-> In(b, Curve(d, h))]
    <2>1. f = g
      BY <1>4
    <2> QED
      BY <1>1, <1>3, <2>1 DEF HoursOf
  <1>7. ASSUME d + DetailKeep > day2, NEW n \in Real PROVE DetailOf(b, d, n)
    <2> DEFINE f == [h \in Hours |-> In(a, Detail(d, h, n))]
               g == [h \in Hours |-> In(b, Detail(d, h, n))]
    <2>1. \A h \in Hours : In(b, Detail(d, h, n)) = In(a, Detail(d, h, n))
      BY <1>2, <1>7, EntryLaws DEF Firm
    <2>2. f = g
      BY <2>1
    <2>3. d + DetailKeep > day
      BY <1>0, <1>7
    <2>4. DetailOf(a, d, n)
      BY <1>1, <2>3
    <2> QED
      BY <1>5, <2>2, <2>4 DEF DetailOf
  <1>8. ASSUME PartsOf(a, d) PROVE PartsOf(b, d)
    <2> DEFINE f == [n \in Nodes |-> In(a, OfNode(d, n))]
               g == [n \in Nodes |-> In(b, OfNode(d, n))]
    <2>1. \A n \in Real : f[n] = g[n]
      BY <1>5, FiniteIndices
    <2> HIDE DEF f, g
    <2>2. SumOf(f, Real) = SumOf(g, Real)
      BY <2>1, FiniteIndices, SumSame
    <2> QED
      BY <1>3, <1>8, <2>2 DEF PartsOf, f, g
  <1> QED
    BY <1>1, <1>6, <1>7, <1>8

-----------------------------------------------------------------------------
(* What a reading books. *)

\* The state of the kernel, what was read of it last and, if one is under way, the reading.
PanelShape ==
    /\ panel = [pc |-> panel.pc, snap |-> panel.snap, primed |-> panel.primed, life |-> panel.life,
                last |-> panel.last, seen |-> panel.seen, pending |-> panel.pending,
                prunedOn |-> panel.prunedOn, prunedKeep |-> panel.prunedKeep, wide |-> panel.wide,
                ticked |-> panel.ticked]
    /\ panel.pc \in {"off", "idle", "got"}
    /\ panel.pc = "off" => panel = Fresh

Old == Behind(kernel, panel.life, panel.last, panel.seen)
New == /\ Behind(kernel, panel.snap.life, panel.snap.total, panel.snap.conn)
       /\ Between(panel.life, panel.last, panel.seen, panel.snap.life, panel.snap.total, panel.snap.conn)

\* The growth of a reading, for all connections.
G == Grown(panel.seen, panel.snap.conn)
Of(n) == {c \in Conns : Node[c] = n}

\* A reading whose total has passed that of another life is taken for a later one of this life.
Overtaken == panel.snap.life # panel.life /\ panel.snap.total >= panel.last

\* A connection that a later reading shows has not less than in the earlier one.
LEMMA GrownType == ASSUME Old, New PROVE \A c \in Conns : G[c] \in Nat
  <1>1. \A c : In(panel.seen, c) \in Nat
    BY InType DEF Old, Behind
  <1>2. \A c \in DOMAIN panel.snap.conn : panel.snap.conn[c] \in Nat /\ In(panel.seen, c) <= panel.snap.conn[c]
    BY DEF New, Behind, Between, IsBook
  <1> QED
    BY <1>1, <1>2 DEF G, Grown

\* What Growth adds up for a node, over the connections of the reading, is the growth of all of its connections.
LEMMA GrowthSum ==
    ASSUME Old, New, NEW n
    PROVE  SumOf(Growth, {c \in DOMAIN Growth : Node[c] = n}) = SumOf(G, Of(n)) /\ SumOf(G, Of(n)) \in Nat
  <1> DEFINE S == {c \in DOMAIN Growth : Node[c] = n}
  <1>1. DOMAIN Growth = DOMAIN panel.snap.conn /\ DOMAIN panel.snap.conn \subseteq Conns
    BY DEF Growth, New, Behind
  <1>2. \A c : In(panel.seen, c) \in Nat
    BY InType DEF Old, Behind
  <1>3. \A c \in DOMAIN panel.snap.conn : panel.snap.conn[c] \in Nat /\ In(panel.seen, c) <= panel.snap.conn[c]
    BY DEF New, Behind, Between, IsBook
  <1>4. \A c \in S : Growth[c] = G[c]
    BY <1>1, <1>2, <1>3 DEF Growth, Added, G, Grown
  <1>5. \A c \in Of(n) \ S : G[c] = 0
    BY <1>1 DEF G, Grown, Of
  <1>6. \A c \in Of(n) : G[c] \in Nat
    BY GrownType DEF Of
  <1>7. S \subseteq Of(n) /\ Of(n) \subseteq Conns
    BY <1>1 DEF Of
  <1>8. IsFiniteSet(S) /\ IsFiniteSet(Of(n))
    BY <1>1, <1>7, ConnsFinite, FS_Subset
  <1> HIDE DEF S
  <1>9. SumOf(Growth, S) = SumOf(G, S)
    BY <1>4, <1>8, SumSame
  <1>10. SumOf(G, Of(n)) = SumOf(G, S)
    BY <1>5, <1>6, <1>7, <1>8, SumOver
  <1>11. SumOf(G, Of(n)) \in Nat
    BY <1>6, <1>8, SumType
  <1> QED
    BY <1>9, <1>10, <1>11 DEF S

\* The total without the loop is at most what the total really added, and that unless overtaken;
\* the nodes other than the loop have added no more.
LEMMA GrowthLaws ==
    ASSUME Old, New
    PROVE  /\ \A n : NodeGrowth(n) = SumOf(G, Of(n)) /\ NodeGrowth(n) \in Nat
           /\ TotalGrowth \in Nat /\ Truth \in Nat /\ TotalGrowth <= Truth
           /\ Truth <= panel.snap.total - From(panel.life, panel.last, panel.snap.life)
           /\ ~Overtaken => /\ TotalGrowth = Truth
                            /\ \A f : (\A n \in Real : f[n] = NodeGrowth(n)) => SumOf(f, Real) <= TotalGrowth
  <1> DEFINE l == panel.life
             t == panel.last
             l2 == panel.snap.life
             t2 == panel.snap.total
             all == SumOf(G, Conns)
             loop == SumOf(G, Of(Loop))
             rest == SumOf(G, {c \in Conns : Node[c] \in Real})
  <1>1. t \in Nat /\ t2 \in Nat /\ l \in Nat /\ l2 \in Nat
    BY DEF Old, New, Behind
  <1>2. \A n : NodeGrowth(n) = SumOf(G, Of(n)) /\ NodeGrowth(n) \in Nat
    BY GrowthSum DEF NodeGrowth
  <1>3. LoopGrowth = loop /\ loop \in Nat
    BY GrowthSum DEF LoopGrowth
  <1>4. all = loop + rest /\ rest \in Nat
    <2> DEFINE R == {c \in Conns : Node[c] \in Real}
    <2>1. Of(Loop) \cup R = Conns /\ Of(Loop) \cap R = {}
      BY DEF Of, Real, Nodes
    <2>2. IsFiniteSet(R) /\ R \subseteq Conns
      BY ConnsFinite, FS_Subset
    <2> HIDE DEF R
    <2>3. SumOf(G, Conns) = SumOf(G, Of(Loop)) + SumOf(G, R)
      BY <2>1, GrownType, ConnsFinite, SumParts
    <2>4. \A c \in R : G[c] \in Nat
      BY <2>2, GrownType
    <2>5. SumOf(G, R) \in Nat
      BY <2>2, <2>4, SumType
    <2> QED
      BY <2>3, <2>5 DEF R
  <1>5. all + From(l, t, l2) <= t2
    BY DEF New, Between, G
  <1> HIDE DEF all, loop, rest, l, t, l2, t2
  <1>6. /\ Truth = IF t2 - From(l, t, l2) > loop THEN (t2 - From(l, t, l2)) - loop ELSE 0
        /\ TotalGrowth = LET a == IF t2 >= t THEN t2 - t ELSE t2 IN IF a > loop THEN a - loop ELSE 0
        /\ Overtaken <=> (l2 # l /\ t2 >= t)
        /\ From(l, t, l2) = IF l = l2 THEN t ELSE 0
    BY <1>3 DEF Truth, TotalGrowth, Back, Added, Overtaken, From, l, t, l2, t2
  <1>7. TotalGrowth \in Nat /\ Truth \in Nat /\ TotalGrowth <= Truth
    BY <1>1, <1>3, <1>4, <1>5, <1>6
  <1>8. Truth <= t2 - From(l, t, l2)
    BY <1>1, <1>3, <1>4, <1>5, <1>6
  <1>9. ASSUME ~Overtaken
        PROVE  TotalGrowth = Truth /\ rest <= TotalGrowth
    BY <1>1, <1>3, <1>4, <1>5, <1>6, <1>9
  <1>10. ASSUME NEW f, \A n \in Real : f[n] = NodeGrowth(n)
         PROVE  SumOf(f, Real) = rest
    <2>1. \A n \in Real : f[n] = SumOf(G, Group(Conns, Node, {n}))
      <3>1. \A n : Of(n) = Group(Conns, Node, {n})
        BY DEF Of, Group
      <3> QED
        BY <1>2, <1>10, <3>1
    <2>2. (\A c \in Conns : G[c] \in Nat) /\ IsFiniteSet(Conns) /\ IsFiniteSet(Real)
      BY GrownType, ConnsFinite, FiniteIndices
    <2> DEFINE g == G
    <2> HIDE DEF g
    <2>3. /\ \A n \in Real : f[n] = SumOf(g, Group(Conns, Node, {n}))
          /\ \A c \in Conns : g[c] \in Nat
      BY <2>1, <2>2 DEF g
    <2>4. SumOf(f, Real) = SumOf(g, Group(Conns, Node, Real))
      BY <2>2, <2>3, SumGroups
    <2> QED
      BY <2>4 DEF rest, g, Group
  <1> QED
    BY <1>2, <1>7, <1>8, <1>9, <1>10 DEF l, t, l2, t2

\* The rows that a reading books on.
Slots ==
    {Total(Day(clock)), Curve(Day(clock), Hour(clock))} \cup {OfNode(Day(clock), n) : n \in Real}
        \cup {Detail(Day(clock), Hour(clock), n) : n \in Real}

\* Days and hours of the clock, which does not go back a day.
LEMMA ClockLaws ==
    ASSUME NEW t \in Nat
    PROVE  Day(t) \in Nat /\ Hour(t) \in Hours /\ Day(t) <= Day(t + 1)
  <1>1. HoursPerDay \in Nat /\ HoursPerDay > 0
    BY TrafficAssumption DEF TrafficAssumption
  <1>2. Day(t) \in Nat /\ Hour(t) \in Hours
    BY <1>1 DEF Day, Hour, Hours
  <1>3. Day(t + 1) \in Nat
    BY <1>1 DEF Day
  <1>4. /\ t = HoursPerDay * Day(t) + Hour(t) /\ Hour(t) \in 0 .. HoursPerDay - 1
        /\ t + 1 = HoursPerDay * Day(t + 1) + Hour(t + 1) /\ Hour(t + 1) \in 0 .. HoursPerDay - 1
    BY <1>1 DEF Day, Hour
  <1>5. ASSUME NEW h \in Nat, NEW d \in Nat, NEW e \in Nat, h > 0, d > e PROVE h * d >= h * e + h
    <2>1. PICK x \in Nat : d = e + 1 + x
      BY <1>5
    <2>2. h * d = h * e + h + h * x /\ h * x \in Nat /\ h * e \in Nat
      BY <1>5, <2>1
    <2> QED
      BY <1>5, <2>2
  <1>6. ASSUME Day(t) > Day(t + 1) PROVE FALSE
    <2>1. HoursPerDay * Day(t) >= HoursPerDay * Day(t + 1) + HoursPerDay
      BY <1>1, <1>2, <1>3, <1>5, <1>6
    <2> DEFINE m == HoursPerDay * Day(t)
               w == HoursPerDay * Day(t + 1)
    <2>2. m \in Nat /\ w \in Nat
      BY <1>1, <1>2, <1>3
    <2> HIDE DEF m, w
    <2>3. m >= w + HoursPerDay /\ t >= m /\ t + 1 < w + HoursPerDay
      BY <1>1, <1>4, <2>1, <2>2 DEF m, w
    <2> QED
      BY <1>1, <2>2, <2>3
  <1> QED
    BY <1>2, <1>3, <1>6

\* What a reading books, row by row.
LEMMA BookedLaws ==
    ASSUME Old, New, clock \in Nat
    PROVE  /\ IsBook(Booked) /\ DOMAIN Booked \subseteq Slots
           /\ \A row : In(Booked, row) =
                 IF row \notin Slots THEN 0
                 ELSE IF row.what \in Real THEN NodeGrowth(row.what) ELSE TotalGrowth
  <1> DEFINE all == [row \in Slots |-> IF row.what \in Real THEN NodeGrowth(row.what) ELSE TotalGrowth]
  <1>1. Booked = [row \in Rows(all) |-> all[row]]
    BY DEF Booked, Slots, Real
  <1>2. DOMAIN all = Slots /\ \A row \in Slots : all[row] \in Nat
    BY GrowthLaws
  <1>3. \A row \in Slots : all[row] = IF row.what \in Real THEN NodeGrowth(row.what) ELSE TotalGrowth
    OBVIOUS
  <1> HIDE DEF all
  <1>4. DOMAIN Booked = {row \in Slots : all[row] # 0}
    BY <1>1, <1>2 DEF Rows
  <1>5. IsBook(Booked)
    BY <1>1, <1>2, <1>4 DEF IsBook
  <1>6. \A row : In(Booked, row) = IF row \notin Slots THEN 0 ELSE all[row]
    BY <1>1, <1>4 DEF In, Rows
  <1> QED
    BY <1>3, <1>4, <1>5, <1>6

\* Which of them a row of an account is.
LEMMA SlotLaws ==
    ASSUME clock \in Nat, NEW d \in Nat
    PROVE  /\ Total(d) \in Slots <=> d = Day(clock)
           /\ \A h \in Hours : Curve(d, h) \in Slots <=> d = Day(clock) /\ h = Hour(clock)
           /\ \A n \in Real : OfNode(d, n) \in Slots <=> d = Day(clock)
           /\ \A n \in Real, h \in Hours : Detail(d, h, n) \in Slots <=> d = Day(clock) /\ h = Hour(clock)
           /\ Slots \subseteq Entries /\ \A row \in Slots : row.day = Day(clock)
  <1>1. Day(clock) \in Nat /\ Hour(clock) \in Hours
    BY ClockLaws
  <1>2. \A n \in Real : n # "total" /\ n # "hour"
    BY EntryLaws
  <1>3. \A h \in Hours : h # None /\ h \in Nat
    BY EntryLaws
  <1> DEFINE D == Day(clock)
             H == Hour(clock)
  <1>4. Slots = {Total(D), Curve(D, H)} \cup {OfNode(D, n) : n \in Real} \cup {Detail(D, H, n) : n \in Real}
    BY DEF Slots
  <1> HIDE DEF D, H
  <1>5. Total(d) \in Slots <=> d = D
    BY <1>2, <1>4 DEF Total, Curve, OfNode, Detail
  <1>6. \A h \in Hours : Curve(d, h) \in Slots <=> d = D /\ h = H
    BY <1>2, <1>3, <1>4 DEF Total, Curve, OfNode, Detail
  <1>7. \A n \in Real : OfNode(d, n) \in Slots <=> d = D
    <2>1. \A n \in Real : \A m : OfNode(d, n) = OfNode(D, m) <=> d = D /\ n = m
      BY DEF OfNode
    <2>2. \A n \in Real : \A m : OfNode(d, n) # Detail(D, H, m)
      BY <1>1, <1>3 DEF OfNode, Detail, H
    <2>3. \A n \in Real : OfNode(d, n) # Total(D) /\ OfNode(d, n) # Curve(D, H)
      BY <1>2 DEF OfNode, Total, Curve
    <2> QED
      BY <1>4, <2>1, <2>2, <2>3
  <1>8. \A n \in Real, h \in Hours : Detail(d, h, n) \in Slots <=> d = D /\ h = H
    <2>1. \A n \in Real, h \in Hours : \A m : Detail(d, h, n) = Detail(D, H, m) <=> d = D /\ h = H /\ n = m
      BY DEF Detail
    <2>2. \A n \in Real, h \in Hours : \A m : Detail(d, h, n) # OfNode(D, m)
      BY <1>3 DEF OfNode, Detail
    <2>3. \A n \in Real, h \in Hours : Detail(d, h, n) # Total(D) /\ Detail(d, h, n) # Curve(D, H)
      BY <1>2 DEF Detail, Total, Curve
    <2> QED
      BY <1>4, <2>1, <2>2, <2>3
  <1>9. Slots \subseteq Entries /\ \A row \in Slots : row.day = D
    BY <1>1, <1>4 DEF Total, Curve, OfNode, Detail, Entries, D, H
  <1> QED
    BY <1>5, <1>6, <1>7, <1>8, <1>9 DEF D, H

\* What a reading books is an account.
LEMMA AccountBooked ==
    ASSUME Old, New, clock \in Nat, NEW fl, NEW day, NEW free, free \/ ~Overtaken
    PROVE  Account(Booked, fl, day, free)
  <1> DEFINE D == Day(clock)
             H == Hour(clock)
             b == Booked
  <1>1. D \in Nat /\ H \in Hours
    BY ClockLaws
  <1>2. \A row : In(b, row) = IF row \notin Slots THEN 0
                              ELSE IF row.what \in Real THEN NodeGrowth(row.what) ELSE TotalGrowth
    BY BookedLaws
  <1>3. TotalGrowth \in Nat /\ \A n : NodeGrowth(n) \in Nat
    BY GrowthLaws
  <1>4. \A d \in Nat : In(b, Total(d)) = IF d = D THEN TotalGrowth ELSE 0
    BY <1>2, SlotLaws, EntryLaws DEF Total
  <1>5. \A d \in Nat, h \in Hours : In(b, Curve(d, h)) = IF d = D /\ h = H THEN TotalGrowth ELSE 0
    BY <1>2, SlotLaws, EntryLaws DEF Curve
  <1>6. \A d \in Nat, n \in Real : In(b, OfNode(d, n)) = IF d = D THEN NodeGrowth(n) ELSE 0
    BY <1>2, SlotLaws DEF OfNode
  <1>7. \A d \in Nat, n \in Real, h \in Hours :
           In(b, Detail(d, h, n)) = IF d = D /\ h = H THEN NodeGrowth(n) ELSE 0
    <2>1. \A d \in Nat, n \in Real, h \in Hours : Detail(d, h, n) \in Slots <=> d = D /\ h = H
      BY SlotLaws
    <2>2. \A d \in Nat, n \in Real, h \in Hours : Detail(d, h, n).what = n
      BY DEF Detail
    <2> HIDE DEF D, H, b
    <2> QED
      BY <1>2, <2>1, <2>2
  <1> HIDE DEF D, H, b
  <1>8. ASSUME NEW d \in Nat PROVE HoursOf(b, d)
    <2> DEFINE f == [h \in Hours |-> In(b, Curve(d, h))]
    <2>1. \A h \in Hours : f[h] = IF d = D /\ h = H THEN TotalGrowth ELSE 0
      BY <1>5
    <2> HIDE DEF f
    <2>2. CASE d = D
      <3>1. f[H] = TotalGrowth /\ \A h \in Hours \ {H} : f[h] = 0
        BY <1>1, <2>1, <2>2
      <3>2. SumOf(f, Hours) = f[H]
        BY <1>1, <1>3, <3>1, FiniteIndices, SumOne
      <3> QED
        BY <1>4, <2>2, <3>1, <3>2 DEF HoursOf, f
    <2>3. CASE d # D
      <3>1. f[H] = 0 /\ \A h \in Hours \ {H} : f[h] = 0
        BY <1>1, <2>1, <2>3
      <3>2. SumOf(f, Hours) = f[H]
        BY <1>1, <3>1, FiniteIndices, SumOne
      <3> QED
        BY <1>4, <2>3, <3>1, <3>2 DEF HoursOf, f
    <2> QED
      BY <2>2, <2>3
  <1>9. ASSUME NEW d \in Nat, NEW n \in Real PROVE DetailOf(b, d, n)
    <2> DEFINE f == [h \in Hours |-> In(b, Detail(d, h, n))]
    <2>1. \A h \in Hours : f[h] = IF d = D /\ h = H THEN NodeGrowth(n) ELSE 0
      BY <1>7
    <2> HIDE DEF f
    <2>2. CASE d = D
      <3>1. f[H] = NodeGrowth(n) /\ \A h \in Hours \ {H} : f[h] = 0
        BY <1>1, <2>1, <2>2
      <3>2. SumOf(f, Hours) = f[H]
        BY <1>1, <1>3, <3>1, FiniteIndices, SumOne
      <3> QED
        BY <1>6, <2>2, <3>1, <3>2 DEF DetailOf, f
    <2>3. CASE d # D
      <3>1. f[H] = 0 /\ \A h \in Hours \ {H} : f[h] = 0
        BY <1>1, <2>1, <2>3
      <3>2. SumOf(f, Hours) = f[H]
        BY <1>1, <3>1, FiniteIndices, SumOne
      <3> QED
        BY <1>6, <2>3, <3>1, <3>2 DEF DetailOf, f
    <2> QED
      BY <2>2, <2>3
  <1>10. ASSUME NEW d \in Nat, ~Overtaken PROVE PartsOf(b, d)
    <2> DEFINE f == [n \in Nodes |-> In(b, OfNode(d, n))]
    <2>1. \A n \in Real : f[n] = IF d = D THEN NodeGrowth(n) ELSE 0
      BY <1>6, FiniteIndices
    <2> HIDE DEF f
    <2>2. CASE d = D
      <3>1. SumOf(f, Real) <= TotalGrowth
        BY <1>10, <2>1, <2>2, GrowthLaws
      <3> QED
        BY <1>4, <2>2, <3>1 DEF PartsOf, f
    <2>3. CASE d # D
      <3>1. SumOf(f, Real) = 0
        BY <2>1, <2>3, FiniteIndices, SumNone
      <3> QED
        BY <1>4, <2>3, <3>1 DEF PartsOf, f
    <2> QED
      BY <2>2, <2>3
  <1> QED
    BY <1>8, <1>9, <1>10 DEF Account, b

-----------------------------------------------------------------------------
(* What is held of all days. *)

\* The row of a day and a node, or of the total.
Entry(d, w) == [day |-> d, hour |-> None, what |-> w]
HeldOf(a, b, w) == [d \in Nat |-> In(a, Entry(d, w)) + In(b, Entry(d, w))]
AllHeld(a, b, w, day) == SumOf(HeldOf(a, b, w), 0 .. day)

\* The days add up to a number.
LEMMA HeldType ==
    ASSUME NEW a, NEW b, IsBook(a), IsBook(b), NEW w, NEW day \in Nat
    PROVE  /\ \A d \in Nat : HeldOf(a, b, w)[d] \in Nat
           /\ AllHeld(a, b, w, day) \in Nat /\ IsFiniteSet(0 .. day) /\ 0 .. day \subseteq Nat
  <1>1. \A row : In(a, row) \in Nat
    BY InType
  <1>2. \A row : In(b, row) \in Nat
    BY InType
  <1>3. \A d \in Nat : HeldOf(a, b, w)[d] \in Nat
    BY <1>1, <1>2 DEF HeldOf
  <1>4. IsFiniteSet(0 .. day) /\ 0 .. day \subseteq Nat
    BY FS_Interval
  <1>5. \A d \in 0 .. day : HeldOf(a, b, w)[d] \in Nat
    BY <1>3, <1>4
  <1>6. SumOf(HeldOf(a, b, w), 0 .. day) \in Nat
    BY <1>4, <1>5, SumType
  <1> QED
    BY <1>3, <1>4, <1>6 DEF AllHeld

\* Less by the row is less in all.
LEMMA HeldLess ==
    ASSUME NEW a, NEW b, NEW a2, NEW b2, IsBook(a), IsBook(b), IsBook(a2), IsBook(b2), NEW w, NEW day \in Nat,
           \A row : In(a2, row) + In(b2, row) <= In(a, row) + In(b, row)
    PROVE  AllHeld(a2, b2, w, day) <= AllHeld(a, b, w, day)
  <1> DEFINE f == HeldOf(a, b, w)
             e == HeldOf(a2, b2, w)
  <1>1. \A d \in 0 .. day : f[d] \in Nat
    BY HeldType
  <1>2. \A d \in 0 .. day : e[d] \in Nat
    BY HeldType
  <1>3. \A d \in 0 .. day : e[d] <= f[d]
    BY DEF HeldOf
  <1>4. IsFiniteSet(0 .. day)
    BY HeldType
  <1> HIDE DEF f, e
  <1>5. SumOf(e, 0 .. day) <= SumOf(f, 0 .. day)
    BY <1>1, <1>2, <1>3, <1>4, SumLess
  <1> QED
    BY <1>5 DEF AllHeld, f, e

\* No row is dated later than the day.
Dated(b, day) == \A row \in DOMAIN b : row.day <= day

\* A new day has nothing yet.
LEMMA HeldLater ==
    ASSUME NEW a, NEW b, IsBook(a), IsBook(b), NEW w, NEW day \in Nat, NEW day2 \in Nat, day <= day2,
           Dated(a, day), Dated(b, day)
    PROVE  AllHeld(a, b, w, day2) = AllHeld(a, b, w, day)
  <1> DEFINE f == HeldOf(a, b, w)
  <1>1. \A d \in 0 .. day2 : f[d] \in Nat
    BY HeldType
  <1>2. IsFiniteSet(0 .. day2) /\ 0 .. day \subseteq 0 .. day2
    <2>1. 0 .. day \subseteq 0 .. day2
      OBVIOUS
    <2> QED
      BY <2>1, HeldType
  <1>3. ASSUME NEW d \in (0 .. day2) \ (0 .. day) PROVE f[d] = 0
    <2>1. d > day /\ d \in Nat /\ Entry(d, w).day = d
      BY DEF Entry
    <2>2. Entry(d, w) \notin DOMAIN a /\ Entry(d, w) \notin DOMAIN b
      BY <2>1 DEF Dated
    <2>3. In(a, Entry(d, w)) = 0 /\ In(b, Entry(d, w)) = 0
      BY <2>2 DEF In
    <2> QED
      BY <2>1, <2>3 DEF HeldOf
  <1> HIDE DEF f
  <1>4. SumOf(f, 0 .. day2) = SumOf(f, 0 .. day)
    BY <1>1, <1>2, <1>3, SumOver
  <1> QED
    BY <1>4 DEF AllHeld, f

\* Booking x today holds x more.
LEMMA HeldMore ==
    ASSUME NEW a, NEW b, NEW b2, IsBook(a), IsBook(b), IsBook(b2), NEW w, NEW day \in Nat, NEW x \in Nat,
           \A d \in Nat : In(b2, Entry(d, w)) = In(b, Entry(d, w)) + (IF d = day THEN x ELSE 0)
    PROVE  AllHeld(a, b2, w, day) = AllHeld(a, b, w, day) + x
  <1> DEFINE f == HeldOf(a, b, w)
             h == HeldOf(a, b2, w)
             e == [d \in Nat |-> IF d = day THEN x ELSE 0]
  <1>0. \A row : In(a, row) \in Nat
    BY InType
  <1>1. \A row : In(b, row) \in Nat
    BY InType
  <1>2. \A d \in 0 .. day : f[d] \in Nat /\ e[d] \in Nat /\ h[d] = f[d] + e[d]
    BY <1>0, <1>1 DEF HeldOf
  <1>3. IsFiniteSet(0 .. day) /\ day \in 0 .. day
    BY HeldType
  <1>4. e[day] = x /\ e[day] \in Nat /\ \A d \in (0 .. day) \ {day} : e[d] = 0
    OBVIOUS
  <1> HIDE DEF f, h, e
  <1>5. SumOf(h, 0 .. day) = SumOf(f, 0 .. day) + SumOf(e, 0 .. day)
    BY <1>2, <1>3, SumPlus
  <1>6. SumOf(e, 0 .. day) = x
    BY <1>3, <1>4, SumOne
  <1> QED
    BY <1>5, <1>6 DEF AllHeld, f, h

-----------------------------------------------------------------------------
(* How much may have been counted. *)

\* p has read the kernel k.
IsReading(k, p) ==
    /\ IsKernel(k) /\ Behind(k, 0, 0, Empty) /\ Behind(k, p.life, p.last, p.seen) /\ p.primed \in BOOLEAN
    /\ p.pc = "got" => /\ Behind(k, p.snap.life, p.snap.total, p.snap.conn)
                       /\ Between(p.life, p.last, p.seen, p.snap.life, p.snap.total, p.snap.conn)

\* What a reading under way will add, to the total and for a node.
Coming(p) == IF p.primed THEN p.snap.total - From(p.life, p.last, p.snap.life) ELSE 0
ComingTo(p, n) == IF p.primed THEN SumOf(Grown(p.seen, p.snap.conn), Of(n)) ELSE 0

\* The bytes that were there to be counted, in total and through a node: all when the process
\* has not read yet, those before the last reading when it has, less what one under way adds.
Room(k, p) ==
    IF p.pc = "got" THEN Before(k, p.snap.life, p.snap.total) - Coming(p)
    ELSE IF p.primed THEN Before(k, p.life, p.last) ELSE SumOf(k.bytes, Conns)
RoomOf(k, p, n) ==
    IF p.pc = "got" THEN SumOf(Seen(k, p.snap.conn), Of(n)) - ComingTo(p, n)
    ELSE IF p.primed THEN SumOf(Seen(k, p.seen), Of(n)) ELSE SumOf(k.bytes, Of(n))

\* The connections of a node are finitely many.
LEMMA OfFinite == ASSUME NEW n PROVE IsFiniteSet(Of(n)) /\ Of(n) \subseteq Conns
  BY ConnsFinite, FS_Subset DEF Of

\* What passed is a number.
LEMMA BytesType ==
    ASSUME NEW k, IsKernel(k), NEW n
    PROVE  SumOf(k.bytes, Conns) \in Nat /\ SumOf(k.bytes, Of(n)) \in Nat
  <1>1. \A c \in Conns : k.bytes[c] \in Nat
    BY DEF IsKernel
  <1>2. \A c \in Of(n) : k.bytes[c] \in Nat
    BY <1>1, OfFinite
  <1>3. SumOf(k.bytes, Conns) \in Nat
    BY <1>1, ConnsFinite, SumType
  <1>4. SumOf(k.bytes, Of(n)) \in Nat
    BY <1>2, OfFinite, SumType
  <1> QED
    BY <1>3, <1>4

\* So is what was seen of it, which is not more.
LEMMA SeenSum ==
    ASSUME NEW k, IsKernel(k), NEW l, NEW t, NEW s, Behind(k, l, t, s), NEW n
    PROVE  /\ SumOf(Seen(k, s), Of(n)) \in Nat /\ SumOf(Seen(k, s), Of(n)) <= SumOf(k.bytes, Of(n))
           /\ Before(k, l, t) \in Int /\ Before(k, l, t) <= SumOf(k.bytes, Conns)
  <1>1. \A c \in Of(n) : Seen(k, s)[c] \in Nat /\ k.bytes[c] \in Nat /\ Seen(k, s)[c] <= k.bytes[c]
    BY SeenType, OfFinite DEF IsKernel
  <1>2. SumOf(Seen(k, s), Of(n)) \in Nat
    BY <1>1, OfFinite, SumType
  <1>3. SumOf(Seen(k, s), Of(n)) <= SumOf(k.bytes, Of(n))
    BY <1>1, OfFinite, SumLess
  <1>4. SumOf(Rest(k, s), Conns) \in Nat /\ SumOf(Rest(k, s), Conns) + From(l, t, k.life) <= k.total
    BY RestType DEF Behind
  <1>5. From(l, t, k.life) \in Nat /\ k.total \in Nat
    BY DEF From, Behind, IsKernel
  <1>6. SumOf(k.bytes, Conns) \in Nat
    BY BytesType
  <1> QED
    BY <1>2, <1>3, <1>4, <1>5, <1>6 DEF Before

\* What is coming is a number.
LEMMA ComingType ==
    ASSUME NEW k, NEW p, IsReading(k, p), p.pc = "got", NEW n
    PROVE  Coming(p) \in Nat /\ ComingTo(p, n) \in Nat
  <1> DEFINE g == Grown(p.seen, p.snap.conn)
  <1>1. \A c \in Conns : g[c] \in Nat
    <2>1. \A c : In(p.seen, c) \in Nat
      BY InType DEF IsReading, Behind
    <2>2. \A c \in DOMAIN p.snap.conn : p.snap.conn[c] \in Nat /\ In(p.seen, c) <= p.snap.conn[c]
      BY DEF IsReading, Behind, Between, IsBook
    <2> QED
      BY <2>1, <2>2 DEF Grown
  <1> HIDE DEF g
  <1>2. SumOf(g, Conns) \in Nat
    BY <1>1, ConnsFinite, SumType
  <1>3. \A c \in Of(n) : g[c] \in Nat
    BY <1>1, OfFinite
  <1>4. SumOf(g, Of(n)) \in Nat
    BY <1>3, OfFinite, SumType
  <1>5. SumOf(g, Conns) + From(p.life, p.last, p.snap.life) <= p.snap.total
    BY DEF IsReading, Between, g
  <1>6. From(p.life, p.last, p.snap.life) \in Nat /\ p.snap.total \in Nat
    BY DEF IsReading, Behind, From
  <1>7. p.primed \in BOOLEAN
    BY DEF IsReading
  <1> QED
    BY <1>2, <1>4, <1>5, <1>6, <1>7 DEF Coming, ComingTo, g

\* The room is a number, and no more than what passed.
LEMMA RoomType ==
    ASSUME NEW k, NEW p, IsReading(k, p), NEW n
    PROVE  /\ Room(k, p) \in Int /\ Room(k, p) <= SumOf(k.bytes, Conns)
           /\ RoomOf(k, p, n) \in Int /\ RoomOf(k, p, n) <= SumOf(k.bytes, Of(n))
  <1>1. SumOf(k.bytes, Conns) \in Nat /\ SumOf(k.bytes, Of(n)) \in Nat
    BY BytesType DEF IsReading
  <1>2. /\ Before(k, p.life, p.last) \in Int /\ Before(k, p.life, p.last) <= SumOf(k.bytes, Conns)
        /\ SumOf(Seen(k, p.seen), Of(n)) \in Nat /\ SumOf(Seen(k, p.seen), Of(n)) <= SumOf(k.bytes, Of(n))
    BY SeenSum DEF IsReading
  <1>3. CASE p.pc = "got"
    <2>1. Coming(p) \in Nat /\ ComingTo(p, n) \in Nat
      BY <1>3, ComingType
    <2>2. /\ Before(k, p.snap.life, p.snap.total) \in Int
          /\ Before(k, p.snap.life, p.snap.total) <= SumOf(k.bytes, Conns)
          /\ SumOf(Seen(k, p.snap.conn), Of(n)) \in Nat
          /\ SumOf(Seen(k, p.snap.conn), Of(n)) <= SumOf(k.bytes, Of(n))
      BY <1>3, SeenSum DEF IsReading
    <2> QED
      BY <1>1, <1>3, <2>1, <2>2 DEF Room, RoomOf
  <1>4. CASE p.pc # "got"
    BY <1>1, <1>2, <1>4 DEF Room, RoomOf
  <1> QED
    BY <1>3, <1>4

\* A step of the kernel leaves readings what they are and takes no room away.
LEMMA RoomGrows ==
    ASSUME NEW k, NEW p, IsReading(k, p), NEW m, KernelStep(k, m), NEW n
    PROVE  IsReading(m, p) /\ Room(k, p) <= Room(m, p) /\ RoomOf(k, p, n) <= RoomOf(m, p, n)
  <1>1. IsReading(m, p)
    BY BehindKept, KernelKept DEF IsReading
  <1>2. SumOf(k.bytes, Conns) <= SumOf(m.bytes, Conns)
    BY BeforeGrows DEF IsReading
  <1>3. SumOf(k.bytes, Of(n)) <= SumOf(m.bytes, Of(n))
    <2>1. \A c \in Of(n) : k.bytes[c] \in Nat /\ m.bytes[c] \in Nat /\ k.bytes[c] <= m.bytes[c]
      BY KernelKept, OfFinite DEF IsReading
    <2> QED
      BY <2>1, OfFinite, SumLess
  <1>4. ASSUME NEW l, NEW t, NEW s, Behind(k, l, t, s)
        PROVE  /\ Before(k, l, t) \in Int /\ Before(m, l, t) \in Int /\ Before(k, l, t) <= Before(m, l, t)
               /\ SumOf(Seen(k, s), Of(n)) \in Nat /\ SumOf(Seen(m, s), Of(n)) \in Nat
               /\ SumOf(Seen(k, s), Of(n)) <= SumOf(Seen(m, s), Of(n))
    <2>1. IsKernel(k) /\ IsKernel(m) /\ Behind(m, l, t, s)
      BY <1>4, KernelKept, BehindKept DEF IsReading
    <2>2. Before(k, l, t) \in Int /\ Before(m, l, t) \in Int /\ Before(k, l, t) <= Before(m, l, t)
      BY <1>4, <2>1, BeforeGrows
    <2>3. \A c \in Conns : Seen(k, s)[c] \in Nat
      BY <1>4, <2>1, SeenType
    <2>4. \A c \in Conns : Seen(m, s)[c] \in Nat
      BY <2>1, SeenType
    <2>5. \A c \in Of(n) : Seen(k, s)[c] \in Nat /\ Seen(m, s)[c] \in Nat /\ Seen(k, s)[c] <= Seen(m, s)[c]
      BY <1>4, <2>1, <2>3, <2>4, SeenGrows, OfFinite
    <2>6. SumOf(Seen(k, s), Of(n)) <= SumOf(Seen(m, s), Of(n))
      BY <2>5, OfFinite, SumLess
    <2>7. SumOf(Seen(k, s), Of(n)) \in Nat
      BY <2>5, OfFinite, SumType
    <2>8. SumOf(Seen(m, s), Of(n)) \in Nat
      BY <2>5, OfFinite, SumType
    <2> QED
      BY <2>2, <2>6, <2>7, <2>8
  <1>5. CASE p.pc = "got"
    <2>1. Coming(p) \in Nat /\ ComingTo(p, n) \in Nat
      BY <1>5, ComingType
    <2>2. /\ Before(k, p.snap.life, p.snap.total) \in Int /\ Before(m, p.snap.life, p.snap.total) \in Int
          /\ Before(k, p.snap.life, p.snap.total) <= Before(m, p.snap.life, p.snap.total)
          /\ SumOf(Seen(k, p.snap.conn), Of(n)) \in Nat /\ SumOf(Seen(m, p.snap.conn), Of(n)) \in Nat
          /\ SumOf(Seen(k, p.snap.conn), Of(n)) <= SumOf(Seen(m, p.snap.conn), Of(n))
      BY <1>4, <1>5 DEF IsReading
    <2> QED
      BY <1>1, <1>5, <2>1, <2>2 DEF Room, RoomOf
  <1>6. CASE p.pc # "got"
    <2>1. /\ Before(k, p.life, p.last) <= Before(m, p.life, p.last)
          /\ SumOf(Seen(k, p.seen), Of(n)) <= SumOf(Seen(m, p.seen), Of(n))
      BY <1>4 DEF IsReading
    <2> QED
      BY <1>1, <1>2, <1>3, <1>6, <2>1 DEF Room, RoomOf
  <1> QED
    BY <1>5, <1>6

\* The same reading of the same kernel.
LEMMA RoomSame ==
    ASSUME NEW k, NEW p, IsReading(k, p), NEW q, q.primed = p.primed, q.life = p.life, q.last = p.last,
           q.seen = p.seen, q.pc = p.pc, q.snap = p.snap
    PROVE  IsReading(k, q) /\ Room(k, q) = Room(k, p) /\ \A n : RoomOf(k, q, n) = RoomOf(k, p, n)
  BY DEF IsReading, Room, RoomOf, Coming, ComingTo

\* A reading takes no room away: what it adds was not counted before.
LEMMA RoomPoll ==
    ASSUME NEW k, NEW p, IsReading(k, p), p.pc = "idle", NEW q, q.primed = p.primed, q.life = p.life,
           q.last = p.last, q.seen = p.seen, q.pc = "got",
           q.snap = [life |-> k.life, total |-> k.total, conn |-> Reading(k)], NEW n
    PROVE  IsReading(k, q) /\ Room(k, q) = Room(k, p) /\ RoomOf(k, q, n) = RoomOf(k, p, n)
  <1>1. q.snap.life = k.life /\ q.snap.total = k.total /\ q.snap.conn = Reading(k)
    OBVIOUS
  <1>2. /\ Behind(k, k.life, k.total, Reading(k))
        /\ \A c \in Conns : In(Reading(k), c) = IF k.conn[c] = "open" THEN k.bytes[c] ELSE 0
    BY ReadNow DEF IsReading
  <1>3. Between(p.life, p.last, p.seen, k.life, k.total, Reading(k))
    BY ReadAfter DEF IsReading
  <1>4. IsReading(k, q)
    BY <1>1, <1>2, <1>3 DEF IsReading
  <1>5. k.total \in Nat /\ k.life \in Nat /\ (\A c \in Conns : k.bytes[c] \in Nat) /\ p.primed \in BOOLEAN
    BY DEF IsReading, IsKernel
  <1>6. SumOf(k.bytes, Conns) \in Nat
    BY <1>5, ConnsFinite, SumType
  <1>7. From(p.life, p.last, k.life) \in Nat
    BY DEF IsReading, Behind, From
  <1>8. Room(k, q) = Room(k, p)
    <2>1. Room(k, q) = Before(k, k.life, k.total) - Coming(q)
      BY <1>1 DEF Room
    <2>2. Before(k, k.life, k.total) = SumOf(k.bytes, Conns)
      BY <1>5, <1>6 DEF Before, From
    <2>3. Coming(q) = IF p.primed THEN k.total - From(p.life, p.last, k.life) ELSE 0
      BY <1>1 DEF Coming
    <2>4. Room(k, p) = IF p.primed THEN (SumOf(k.bytes, Conns) - k.total) + From(p.life, p.last, k.life)
                       ELSE SumOf(k.bytes, Conns)
      BY DEF Room, Before
    <2> QED
      BY <1>5, <1>6, <1>7, <2>1, <2>2, <2>3, <2>4
  <1>9. RoomOf(k, q, n) = RoomOf(k, p, n)
    <2> DEFINE S == Seen(k, Reading(k))
               g == Grown(p.seen, Reading(k))
               o == Seen(k, p.seen)
    <2>1. \A c \in Conns : S[c] = k.bytes[c]
      BY <1>2 DEF Seen
    <2>2. \A c \in Conns : In(p.seen, c) \in Nat /\ In(p.seen, c) <= k.bytes[c]
      BY RestType DEF IsReading
    <2>3. \A c \in Conns : g[c] = IF k.conn[c] = "open" THEN k.bytes[c] - In(p.seen, c) ELSE 0
      BY DEF Grown, Reading
    <2>4. \A c \in Conns : o[c] = IF k.conn[c] = "open" THEN In(p.seen, c) ELSE k.bytes[c]
      BY DEF Seen
    <2>5. \A c \in Conns : o[c] \in Nat /\ g[c] \in Nat /\ k.bytes[c] = o[c] + g[c]
      BY <1>5, <2>2, <2>3, <2>4
    <2>6. RoomOf(k, q, n) = SumOf(S, Of(n)) - (IF p.primed THEN SumOf(g, Of(n)) ELSE 0)
      BY <1>1 DEF RoomOf, ComingTo
    <2>7. RoomOf(k, p, n) = IF p.primed THEN SumOf(o, Of(n)) ELSE SumOf(k.bytes, Of(n))
      BY DEF RoomOf
    <2> HIDE DEF S, g, o
    <2>8. SumOf(S, Of(n)) = SumOf(k.bytes, Of(n))
      BY <2>1, OfFinite, SumSame
    <2>9. SumOf(k.bytes, Of(n)) = SumOf(o, Of(n)) + SumOf(g, Of(n))
      <3>1. \A c \in Of(n) : o[c] \in Nat /\ g[c] \in Nat /\ k.bytes[c] = o[c] + g[c]
        BY <2>5, OfFinite
      <3> QED
        BY <3>1, OfFinite, SumPlus
    <2>10. SumOf(o, Of(n)) \in Nat
      BY <2>5, OfFinite, SumType
    <2>11. SumOf(g, Of(n)) \in Nat
      BY <2>5, OfFinite, SumType
    <2> QED
      BY <1>5, <2>6, <2>7, <2>8, <2>9, <2>10, <2>11
  <1> QED
    BY <1>4, <1>8, <1>9

\* q has taken up the reading of p.
TakesUp(p, q) ==
    /\ p.pc = "got" /\ q.pc = "idle" /\ q.primed \in BOOLEAN /\ q.primed
    /\ q.life = p.snap.life /\ q.last = p.snap.total /\ q.seen = p.snap.conn

\* That leaves room for what it adds.
LEMMA RoomApply ==
    ASSUME NEW k, NEW p, NEW q, NEW n, IsReading(k, p), TakesUp(p, q)
    PROVE  /\ IsReading(k, q) /\ Room(k, q) = Room(k, p) + Coming(p)
           /\ RoomOf(k, q, n) = RoomOf(k, p, n) + ComingTo(p, n)
  <1>1. IsReading(k, q)
    BY DEF IsReading, TakesUp
  <1>2. Coming(p) \in Nat /\ ComingTo(p, n) \in Nat
    BY ComingType DEF TakesUp
  <1>3. Before(k, p.snap.life, p.snap.total) \in Int /\ SumOf(Seen(k, p.snap.conn), Of(n)) \in Nat
    BY SeenSum DEF IsReading, TakesUp
  <1> QED
    BY <1>1, <1>2, <1>3 DEF Room, RoomOf, TakesUp

\* A new process starts from nothing and with all the room there is.
LEMMA RoomFresh ==
    ASSUME NEW k, NEW p, IsReading(k, p), NEW q, q.primed \in BOOLEAN, ~q.primed, q.life = 0, q.last = 0,
           q.seen = Empty, q.pc # "got", NEW n
    PROVE  IsReading(k, q) /\ Room(k, p) <= Room(k, q) /\ RoomOf(k, p, n) <= RoomOf(k, q, n)
  <1>1. IsReading(k, q)
    BY DEF IsReading
  <1>2. Room(k, q) = SumOf(k.bytes, Conns) /\ RoomOf(k, q, n) = SumOf(k.bytes, Of(n))
    BY DEF Room, RoomOf
  <1> QED
    BY <1>1, <1>2, RoomType

-----------------------------------------------------------------------------
(* The invariant. *)

\* The panel has its shape, and has read this kernel.
ReadingInv == PanelShape /\ IsReading(kernel, panel)

\* The books are of known rows, none of them of a day to come; what is out of term is below floor.
BooksInv ==
    /\ IsBook(store) /\ IsBook(panel.pending)
    /\ DOMAIN store \subseteq Entries /\ DOMAIN panel.pending \subseteq Entries
    /\ Dated(store, Day(clock)) /\ Dated(panel.pending, Day(clock))
    /\ clock \in Nat /\ floor \in Nat /\ keep \in Keeps /\ left \in [Counted -> Nat] /\ unseen \in BOOLEAN
    /\ Back(Day(clock), keep) <= floor

\* No day has more than is due to it, and from floor on none has less.
DueInv ==
    /\ IsBook(due) /\ DOMAIN due \subseteq Nat
    /\ \A d \in Nat : Held(Total(d)) <= In(due, d)
    /\ unseen \/ \A d \in Nat : d >= floor => Held(Total(d)) = In(due, d)

\* Both books are accounts: what is written is one without what is still to be written.
AccountInv ==
    /\ Account(store, floor, Day(clock), unseen)
    /\ Account(panel.pending, floor, Day(clock), unseen)

\* What is held is no more than the room for it.
TwiceInv ==
    /\ AllHeld(store, panel.pending, "total", Day(clock)) <= Room(kernel, panel)
    /\ \A n \in Real : AllHeld(store, panel.pending, n, Day(clock)) <= RoomOf(kernel, panel, n)

IInv == ReadingInv /\ BooksInv /\ DueInv /\ AccountInv /\ TwiceInv

\* A step that books nothing: what was pending is written, or stays, or is lost, and rows
\* that are not firm are deleted.
Move ==
    /\ UNCHANGED unseen /\ clock' \in Nat /\ Day(clock) <= Day(clock') /\ floor' \in Nat /\ floor <= floor'
    /\ \E base :
          /\ \/ base = Plus(store, panel.pending) /\ panel'.pending = Empty /\ UNCHANGED due
             \/ base = store /\ panel'.pending = panel.pending /\ UNCHANGED due
             \/ base = store /\ panel'.pending = Empty /\ due' = Lose(panel.pending)
          /\ Pruned(base, store', Firm(floor', Day(clock')))

\* What a move leaves in the books.
LEMMA MoveBooks ==
    ASSUME BooksInv, Move
    PROVE  /\ IsBook(store') /\ IsBook(panel'.pending)
           /\ DOMAIN store' \subseteq DOMAIN store \cup DOMAIN panel.pending
           /\ DOMAIN panel'.pending \subseteq DOMAIN panel.pending
           /\ \A row : In(store', row) + In(panel'.pending, row) <= In(store, row) + In(panel.pending, row)
  <1>1. PICK base :
          /\ \/ base = Plus(store, panel.pending) /\ panel'.pending = Empty
             \/ base = store /\ panel'.pending = panel.pending
             \/ base = store /\ panel'.pending = Empty
          /\ Pruned(base, store', Firm(floor', Day(clock')))
    BY DEF Move
  <1>2. IsBook(store) /\ IsBook(panel.pending)
    BY DEF BooksInv
  <1>3. IsBook(Empty) /\ DOMAIN Empty = {} /\ \A row : In(Empty, row) = 0
    BY EmptyLaws
  <1>4. IsBook(store') /\ DOMAIN store' \subseteq DOMAIN base /\ \A row : In(store', row) <= In(base, row)
    BY <1>1 DEF Pruned
  <1>5. IsBook(panel'.pending) /\ DOMAIN panel'.pending \subseteq DOMAIN panel.pending
    BY <1>1, <1>2, <1>3
  <1>6. /\ DOMAIN Plus(store, panel.pending) = DOMAIN store \cup DOMAIN panel.pending
        /\ \A row : In(Plus(store, panel.pending), row) = In(store, row) + In(panel.pending, row)
    BY <1>2, PlusLaws
  <1>7. DOMAIN base \subseteq DOMAIN store \cup DOMAIN panel.pending
    BY <1>1, <1>6
  <1>8. \A row : In(store, row) \in Nat
    BY <1>2, InType
  <1>9. \A row : In(panel.pending, row) \in Nat
    BY <1>2, InType
  <1>10. \A row : In(store', row) \in Nat
    BY <1>4, InType
  <1>11. \A row : In(base, row) + In(panel'.pending, row) <= In(store, row) + In(panel.pending, row)
    BY <1>1, <1>3, <1>6, <1>8, <1>9
  <1>12. \A row : In(panel'.pending, row) \in Nat
    BY <1>5, InType
  <1>13. IsBook(base)
    BY <1>1, <1>2, PlusLaws
  <1>14. \A row : In(base, row) \in Nat
    BY <1>13, InType
  <1>15. \A row : In(store', row) + In(panel'.pending, row) <= In(store, row) + In(panel.pending, row)
    BY <1>4, <1>8, <1>9, <1>10, <1>11, <1>12, <1>14
  <1> QED
    BY <1>4, <1>5, <1>7, <1>15

\* It leaves them accounts.
LEMMA MoveAccounts == ASSUME BooksInv, AccountInv, Move PROVE AccountInv'
  <1>1. PICK base :
          /\ \/ base = Plus(store, panel.pending) /\ panel'.pending = Empty
             \/ base = store /\ panel'.pending = panel.pending
             \/ base = store /\ panel'.pending = Empty
          /\ Pruned(base, store', Firm(floor', Day(clock')))
    BY DEF Move
  <1> DEFINE p2 == panel'.pending
             s2 == store'
             fl2 == floor'
             day2 == Day(clock')
             free2 == unseen'
  <1>2. /\ floor \in Nat /\ fl2 \in Nat /\ floor <= fl2 /\ Day(clock) \in Nat /\ day2 \in Nat /\ Day(clock) <= day2
        /\ IsBook(store) /\ IsBook(panel.pending) /\ (unseen => free2)
    BY ClockLaws DEF BooksInv, Move
  <1>3. Account(store, floor, Day(clock), unseen) /\ Account(panel.pending, floor, Day(clock), unseen)
    BY DEF AccountInv
  <1>4. Account(Plus(store, panel.pending), floor, Day(clock), unseen)
    BY <1>2, <1>3, AccountPlus
  <1>5. Account(base, floor, Day(clock), unseen) /\ Pruned(base, s2, Firm(fl2, day2))
    BY <1>1, <1>3, <1>4
  <1>6. Pruned(panel.pending, panel.pending, Firm(fl2, day2))
    BY <1>2, PrunedSame
  <1> HIDE DEF p2, s2, fl2, day2, free2
  <1>7. Account(s2, fl2, day2, free2)
    BY <1>2, <1>5, AccountPruned
  <1>8. Account(panel.pending, fl2, day2, free2)
    BY <1>2, <1>3, <1>6, AccountPruned
  <1>9. Account(Empty, fl2, day2, free2)
    BY AccountEmpty
  <1>10. Account(p2, fl2, day2, free2)
    BY <1>1, <1>8, <1>9 DEF p2
  <1> QED
    BY <1>7, <1>10 DEF AccountInv, p2, s2, fl2, day2, free2

\* It leaves what is due.
LEMMA MoveDue == ASSUME BooksInv, DueInv, Move PROVE DueInv'
  <1>1. PICK base :
          /\ \/ base = Plus(store, panel.pending) /\ panel'.pending = Empty /\ UNCHANGED due
             \/ base = store /\ panel'.pending = panel.pending /\ UNCHANGED due
             \/ base = store /\ panel'.pending = Empty /\ due' = Lose(panel.pending)
          /\ Pruned(base, store', Firm(floor', Day(clock')))
    BY DEF Move
  <1>2. /\ IsBook(store) /\ IsBook(panel.pending) /\ IsBook(due) /\ DOMAIN due \subseteq Nat
        /\ floor \in Nat /\ floor' \in Nat /\ floor <= floor' /\ unseen' = unseen
    BY DEF BooksInv, DueInv, Move
  <1>3. \A row : In(store, row) \in Nat
    BY <1>2, InType
  <1>4. \A row : In(panel.pending, row) \in Nat
    BY <1>2, InType
  <1>5. \A d : /\ In(due, d) \in Nat
               /\ (d \in DOMAIN due => In(due, d) = due[d]) /\ (d \notin DOMAIN due => In(due, d) = 0)
    BY <1>2, InType DEF In
  <1>6. /\ \A d \in Nat : In(store, Total(d)) + In(panel.pending, Total(d)) <= In(due, d)
        /\ unseen \/ \A d \in Nat :
              d >= floor => In(store, Total(d)) + In(panel.pending, Total(d)) = In(due, d)
    BY DEF DueInv, Held
  <1>7. IsBook(due') /\ DOMAIN due' \subseteq Nat
        /\ \A d \in Nat : In(due', d) = IF due' = due THEN In(due, d) ELSE In(due, d) - In(panel.pending, Total(d))
    <2>1. CASE UNCHANGED due
      BY <1>2, <2>1
    <2>2. CASE due' = Lose(panel.pending) /\ due' # due
      <3>1. due' = [d \in DOMAIN due |-> due[d] - In(panel.pending, Total(d))]
        BY <2>2 DEF Lose
      <3>2. \A d \in DOMAIN due : due[d] - In(panel.pending, Total(d)) \in Nat
        BY <1>2, <1>3, <1>4, <1>5, <1>6
      <3>3. DOMAIN due' = DOMAIN due /\ IsBook(due')
        BY <3>1, <3>2 DEF IsBook
      <3>4. ASSUME NEW d \in Nat PROVE In(due', d) = In(due, d) - In(panel.pending, Total(d))
        <4>1. CASE d \in DOMAIN due
          BY <1>5, <3>1, <3>3, <4>1 DEF In
        <4>2. CASE d \notin DOMAIN due
          <5>1. In(due', d) = 0
            BY <3>3, <4>2 DEF In
          <5>2. In(panel.pending, Total(d)) = 0
            BY <1>3, <1>4, <1>5, <1>6, <4>2
          <5> QED
            BY <1>5, <4>2, <5>1, <5>2
        <4> QED
          BY <4>1, <4>2
      <3> QED
        BY <1>2, <2>2, <3>3, <3>4
    <2> QED
      BY <1>1, <2>1, <2>2
  <1>8. /\ \A row : In(store', row) <= In(base, row)
        /\ \A d \in Nat : d >= floor' => In(store', Total(d)) = In(base, Total(d))
    <2>1. \A d \in Nat : d >= floor' => Total(d) \in Firm(floor', Day(clock'))
      BY EntryLaws DEF Firm
    <2> QED
      BY <1>1, <2>1 DEF Pruned
  <1>9. /\ \A row : In(Empty, row) = 0
        /\ \A row : In(Plus(store, panel.pending), row) = In(store, row) + In(panel.pending, row)
    BY <1>2, EmptyLaws, PlusLaws
  <1>10. \A row : In(store', row) \in Nat
    BY MoveBooks, InType
  <1>11. \A d \in Nat : In(base, Total(d)) + In(panel'.pending, Total(d)) <= In(due', d)
    BY <1>1, <1>3, <1>4, <1>5, <1>6, <1>7, <1>9
  <1>12. ASSUME ~unseen, NEW d \in Nat, d >= floor'
         PROVE  In(base, Total(d)) + In(panel'.pending, Total(d)) = In(due', d)
    <2>1. In(store, Total(d)) + In(panel.pending, Total(d)) = In(due, d)
      BY <1>2, <1>6, <1>12
    <2>2. /\ In(store, Total(d)) \in Nat /\ In(panel.pending, Total(d)) \in Nat /\ In(due, d) \in Nat
          /\ In(Empty, Total(d)) = 0 /\ In(Plus(store, panel.pending), Total(d)) = In(due, d)
      BY <1>3, <1>4, <1>5, <1>9, <2>1
    <2>3. In(due', d) = IF due' = due THEN In(due, d) ELSE In(due, d) - In(panel.pending, Total(d))
      BY <1>7
    <2>4. CASE UNCHANGED due /\ base = Plus(store, panel.pending) /\ panel'.pending = Empty
      BY <2>2, <2>4
    <2>5. CASE UNCHANGED due /\ base = store /\ panel'.pending = panel.pending
      BY <2>1, <2>5
    <2>6. CASE base = store /\ panel'.pending = Empty /\ due' = Lose(panel.pending)
      <3>1. CASE due' # due
        BY <2>1, <2>2, <2>3, <2>6, <3>1
      <3>2. CASE due' = due
        <4>1. In(panel.pending, Total(d)) = 0
          BY <1>5, <2>1, <2>2, <2>6, <3>2 DEF Lose, In
        <4> QED
          BY <2>1, <2>2, <2>6, <3>2, <4>1
      <3> QED
        BY <3>1, <3>2
    <2> QED
      BY <1>1, <2>4, <2>5, <2>6
  <1>13. \A d \in Nat : In(panel'.pending, Total(d)) \in Nat /\ In(base, Total(d)) \in Nat /\ In(due', d) \in Nat
    BY <1>1, <1>3, <1>4, <1>7, <1>9, InType
  <1>14. \A d \in Nat : In(store', Total(d)) + In(panel'.pending, Total(d)) <= In(due', d)
    BY <1>8, <1>10, <1>11, <1>13
  <1>15. unseen \/ \A d \in Nat : d >= floor' => In(store', Total(d)) + In(panel'.pending, Total(d)) = In(due', d)
    BY <1>8, <1>12
  <1> QED
    BY <1>2, <1>7, <1>14, <1>15 DEF DueInv, Held

\* It holds no more, so that what was room enough still is.
LEMMA MoveTwice ==
    ASSUME BooksInv, TwiceInv, IsReading(kernel, panel), IsReading(kernel', panel'), Move,
           Room(kernel, panel) <= Room(kernel', panel'),
           \A n : RoomOf(kernel, panel, n) <= RoomOf(kernel', panel', n)
    PROVE  TwiceInv'
  <1>1. clock \in Nat /\ clock' \in Nat /\ Day(clock) \in Nat /\ Day(clock') \in Nat /\ Day(clock) <= Day(clock')
    BY ClockLaws DEF BooksInv, Move
  <1>2. /\ IsBook(store) /\ IsBook(panel.pending) /\ Dated(store, Day(clock)) /\ Dated(panel.pending, Day(clock))
    BY DEF BooksInv
  <1>3. /\ IsBook(store') /\ IsBook(panel'.pending)
        /\ DOMAIN store' \subseteq DOMAIN store \cup DOMAIN panel.pending
        /\ DOMAIN panel'.pending \subseteq DOMAIN panel.pending
        /\ \A row : In(store', row) + In(panel'.pending, row) <= In(store, row) + In(panel.pending, row)
    BY MoveBooks
  <1>4. Dated(store', Day(clock)) /\ Dated(panel'.pending, Day(clock))
    BY <1>2, <1>3 DEF Dated
  <1>5. ASSUME NEW w
        PROVE  /\ AllHeld(store', panel'.pending, w, Day(clock')) <= AllHeld(store, panel.pending, w, Day(clock))
               /\ AllHeld(store', panel'.pending, w, Day(clock')) \in Nat
               /\ AllHeld(store, panel.pending, w, Day(clock)) \in Nat
    <2> DEFINE s2 == store'
               p2 == panel'.pending
               day2 == Day(clock')
    <2>1. /\ IsBook(s2) /\ IsBook(p2) /\ day2 \in Nat /\ Day(clock) <= day2
          /\ Dated(s2, Day(clock)) /\ Dated(p2, Day(clock))
          /\ \A row : In(s2, row) + In(p2, row) <= In(store, row) + In(panel.pending, row)
      BY <1>1, <1>3, <1>4
    <2> HIDE DEF s2, p2, day2
    <2>2. AllHeld(s2, p2, w, day2) = AllHeld(s2, p2, w, Day(clock))
      BY <1>1, <2>1, HeldLater
    <2>3. AllHeld(s2, p2, w, Day(clock)) <= AllHeld(store, panel.pending, w, Day(clock))
      BY <1>1, <1>2, <2>1, HeldLess
    <2>4. AllHeld(s2, p2, w, day2) \in Nat
      BY <2>1, HeldType
    <2>5. AllHeld(store, panel.pending, w, Day(clock)) \in Nat
      BY <1>1, <1>2, HeldType
    <2> QED
      BY <2>2, <2>3, <2>4, <2>5 DEF s2, p2, day2
  <1>6. /\ Room(kernel, panel) \in Int /\ Room(kernel', panel') \in Int
        /\ \A n : RoomOf(kernel, panel, n) \in Int /\ RoomOf(kernel', panel', n) \in Int
    BY RoomType
  <1>7. AllHeld(store', panel'.pending, "total", Day(clock')) <= Room(kernel', panel')
    BY <1>5, <1>6 DEF TwiceInv
  <1>8. ASSUME NEW n \in Real
        PROVE  AllHeld(store', panel'.pending, n, Day(clock')) <= RoomOf(kernel', panel', n)
    BY <1>5, <1>6 DEF TwiceInv
  <1> QED
    BY <1>7, <1>8 DEF TwiceInv

\* With that, the whole invariant after a move.
LEMMA MoveKept ==
    ASSUME IInv, Move, ReadingInv', Room(kernel, panel) <= Room(kernel', panel'),
           \A n : RoomOf(kernel, panel, n) <= RoomOf(kernel', panel', n),
           keep' \in Keeps, left' \in [Counted -> Nat], Back(Day(clock'), keep') <= floor'
    PROVE  IInv'
  <1>1. ReadingInv /\ BooksInv /\ DueInv /\ AccountInv /\ TwiceInv
    BY DEF IInv
  <1>2. DueInv' /\ AccountInv'
    BY <1>1, MoveDue, MoveAccounts
  <1>3. TwiceInv'
    BY <1>1, MoveTwice DEF ReadingInv
  <1>4. /\ IsBook(store') /\ IsBook(panel'.pending)
        /\ DOMAIN store' \subseteq DOMAIN store \cup DOMAIN panel.pending
        /\ DOMAIN panel'.pending \subseteq DOMAIN panel.pending
    BY <1>1, MoveBooks
  <1>5. /\ DOMAIN store \subseteq Entries /\ DOMAIN panel.pending \subseteq Entries
        /\ Dated(store, Day(clock)) /\ Dated(panel.pending, Day(clock))
        /\ clock \in Nat /\ floor \in Nat /\ unseen \in BOOLEAN
    BY <1>1 DEF BooksInv
  <1>6. /\ clock' \in Nat /\ Day(clock) \in Nat /\ Day(clock') \in Nat /\ Day(clock) <= Day(clock')
        /\ floor' \in Nat /\ unseen' \in BOOLEAN
    BY <1>5, ClockLaws DEF Move
  <1>7. \A row \in Entries : row.day \in Nat
    BY DEF Entries
  <1>8. Dated(store', Day(clock')) /\ Dated(panel'.pending, Day(clock'))
    BY <1>4, <1>5, <1>6, <1>7 DEF Dated
  <1>9. DOMAIN store' \subseteq Entries /\ DOMAIN panel'.pending \subseteq Entries
    BY <1>4, <1>5
  <1>10. BooksInv'
    BY <1>4, <1>6, <1>8, <1>9 DEF BooksInv, Entries
  <1> QED
    BY <1>2, <1>3, <1>10 DEF IInv

\* What is used of a budget was there.
LEMMA UseLaws ==
    ASSUME left \in [Counted -> Nat], NEW w \in Counted, May(w), Use(w)
    PROVE  left' \in [Counted -> Nat]
  BY DEF May, Use

\* The first day of the term is a day.
LEMMA KeepLaws == ASSUME NEW n \in Keeps, NEW d \in Nat PROVE n \in Nat /\ Back(d, n) \in Nat
  BY TrafficAssumption DEF TrafficAssumption, Back

\* The kernel changes nothing in the books.
LEMMA KernelMoves ==
    ASSUME IInv, KernelStep(kernel, kernel'), left' \in [Counted -> Nat],
           UNCHANGED <<panel, store, clock, keep, due, floor, unseen>>
    PROVE  IInv'
  <1>1. ReadingInv /\ BooksInv
    BY DEF IInv
  <1>2. /\ IsReading(kernel', panel) /\ Room(kernel, panel) <= Room(kernel', panel)
        /\ \A n : RoomOf(kernel, panel, n) <= RoomOf(kernel', panel, n)
    <2> DEFINE m == kernel'
    <2>1. KernelStep(kernel, m) /\ IsReading(kernel, panel)
      BY <1>1 DEF ReadingInv
    <2> HIDE DEF m
    <2>2. \A n : IsReading(m, panel) /\ Room(kernel, panel) <= Room(m, panel)
                 /\ RoomOf(kernel, panel, n) <= RoomOf(m, panel, n)
      BY <2>1, RoomGrows
    <2> QED
      BY <2>2 DEF m
  <1>3. ReadingInv'
    BY <1>1, <1>2 DEF ReadingInv, PanelShape
  <1>4. /\ IsBook(store) /\ clock \in Nat /\ floor \in Nat /\ keep \in Keeps
        /\ Back(Day(clock), keep) <= floor
    BY <1>1 DEF BooksInv
  <1>5. Day(clock) \in Nat
    BY <1>4, ClockLaws
  <1>6. Pruned(store, store', Firm(floor', Day(clock')))
    BY <1>4, PrunedSame
  <1>7. Move
    BY <1>4, <1>5, <1>6 DEF Move
  <1>8. panel' = panel /\ keep' \in Keeps /\ Back(Day(clock'), keep') <= floor'
    BY <1>4
  <1> QED
    BY <1>2, <1>3, <1>7, <1>8, MoveKept

\* Starts and deaths of the kernel, bytes that pass and connections that close.
LEMMA KernelSteps ==
    ASSUME IInv, KernelStarts \/ KernelDies \/ \E c \in Conns : Pass(c) \/ Close(c)
    PROVE  IInv'
  <1>1. left \in [Counted -> Nat]
    BY DEF IInv, BooksInv
  <1>2. CASE KernelStarts
    <2>1. KernelStep(kernel, kernel')
      BY <1>2 DEF KernelStarts, KernelStep
    <2> QED
      BY <1>1, <1>2, <2>1, KernelMoves DEF KernelStarts
  <1>3. CASE KernelDies
    <2>1. KernelStep(kernel, kernel')
      BY <1>3 DEF KernelDies, KernelStep
    <2>2. left' \in [Counted -> Nat]
      BY <1>1, <1>3, UseLaws DEF KernelDies, Counted
    <2> QED
      BY <1>3, <2>1, <2>2, KernelMoves DEF KernelDies
  <1>4. CASE \E c \in Conns : Pass(c)
    <2>1. KernelStep(kernel, kernel')
      BY <1>4 DEF Pass, KernelStep
    <2>2. left' \in [Counted -> Nat]
      BY <1>1, <1>4, UseLaws DEF Pass, Counted
    <2> QED
      BY <1>4, <2>1, <2>2, KernelMoves DEF Pass
  <1>5. CASE \E c \in Conns : Close(c)
    <2>1. KernelStep(kernel, kernel')
      BY <1>5 DEF Close, KernelStep
    <2> QED
      BY <1>1, <1>5, <2>1, KernelMoves DEF Close
  <1> QED
    BY <1>2, <1>3, <1>4, <1>5

\* A step of the panel that reads nothing and leaves kernel, books and clock alone.
LEMMA QuietMoves ==
    ASSUME IInv, ReadingInv', Room(kernel, panel) <= Room(kernel', panel'),
           \A n : RoomOf(kernel, panel, n) <= RoomOf(kernel', panel', n),
           UNCHANGED <<store, due, unseen>>, panel'.pending = panel.pending,
           clock' \in Nat, Day(clock) <= Day(clock'), left' \in [Counted -> Nat], keep' \in Keeps,
           floor' = Larger(floor, Back(Day(clock'), keep'))
    PROVE  IInv'
  <1>1. IsBook(store) /\ floor \in Nat
    BY DEF IInv, BooksInv
  <1>2. Day(clock') \in Nat /\ Back(Day(clock'), keep') \in Nat
    BY ClockLaws, KeepLaws
  <1>3. floor' \in Nat /\ floor <= floor' /\ Back(Day(clock'), keep') <= floor'
    BY <1>1, <1>2 DEF Larger
  <1>4. Pruned(store, store', Firm(floor', Day(clock')))
    BY <1>1, PrunedSame
  <1>5. Move
    BY <1>3, <1>4 DEF Move
  <1> QED
    BY <1>3, <1>5, MoveKept

\* The clock goes on: a day may leave the term, and its detail may end.
LEMMA HourStep == ASSUME IInv, HourPasses PROVE IInv'
  <1>1. /\ ReadingInv /\ clock \in Nat /\ floor \in Nat /\ keep \in Keeps /\ left \in [Counted -> Nat]
    BY DEF IInv, BooksInv
  <1>2. panel' = [panel EXCEPT !.ticked = FALSE] /\ UNCHANGED <<kernel, store, keep, due, unseen>>
        /\ clock' = clock + 1 /\ floor' = Larger(floor, Back(Day(clock'), keep'))
    BY DEF HourPasses
  <1>3. /\ panel'.pc = panel.pc /\ panel'.snap = panel.snap /\ panel'.primed = panel.primed
        /\ panel'.life = panel.life /\ panel'.last = panel.last /\ panel'.seen = panel.seen
        /\ panel'.pending = panel.pending
    BY <1>1, <1>2 DEF ReadingInv, PanelShape
  <1>4. PanelShape'
    <2>1. /\ panel' = [pc |-> panel.pc, snap |-> panel.snap, primed |-> panel.primed, life |-> panel.life,
                       last |-> panel.last, seen |-> panel.seen, pending |-> panel.pending,
                       prunedOn |-> panel.prunedOn, prunedKeep |-> panel.prunedKeep, wide |-> panel.wide,
                       ticked |-> FALSE]
          /\ panel.pc \in {"off", "idle", "got"}
      BY <1>1, <1>2 DEF ReadingInv, PanelShape
    <2>2. ASSUME panel.pc = "off" PROVE panel' = Fresh
      <3>1. panel' = [Fresh EXCEPT !.ticked = FALSE]
        BY <1>1, <1>2, <2>2 DEF ReadingInv, PanelShape
      <3> QED
        BY <3>1 DEF Fresh
    <2> QED
      BY <2>1, <2>2 DEF PanelShape
  <1>5. /\ IsReading(kernel, panel') /\ Room(kernel, panel) = Room(kernel, panel')
        /\ \A n : RoomOf(kernel, panel, n) = RoomOf(kernel, panel', n)
    BY <1>1, <1>3, RoomSame DEF ReadingInv
  <1>6. /\ Room(kernel, panel) \in Int /\ \A n : RoomOf(kernel, panel, n) \in Int
    BY <1>1, RoomType DEF ReadingInv
  <1>7. clock' \in Nat /\ Day(clock) <= Day(clock')
    BY <1>1, <1>2, ClockLaws
  <1>8. left' \in [Counted -> Nat]
    BY <1>1, UseLaws DEF HourPasses, Counted
  <1>9. ReadingInv'
    BY <1>2, <1>4, <1>5 DEF ReadingInv
  <1>10. /\ Room(kernel, panel) <= Room(kernel', panel')
         /\ \A n : RoomOf(kernel, panel, n) <= RoomOf(kernel', panel', n)
    <2>1. kernel' = kernel
      BY <1>2
    <2>2. Room(kernel', panel') = Room(kernel, panel)
      BY <1>5, <2>1
    <2>3. ASSUME NEW n PROVE RoomOf(kernel', panel', n) = RoomOf(kernel, panel, n)
      BY <1>5, <2>1
    <2> QED
      BY <1>6, <2>2, <2>3
  <1> QED
    BY <1>1, <1>2, <1>3, <1>7, <1>8, <1>9, <1>10, QuietMoves

\* The user sets another term.
LEMMA EditStep == ASSUME IInv, EditKeep PROVE IInv'
  <1>1. /\ ReadingInv /\ clock \in Nat /\ left \in [Counted -> Nat]
    BY DEF IInv, BooksInv
  <1>2. UNCHANGED <<kernel, panel, store, clock, due, unseen>> /\ keep' \in Keeps
        /\ floor' = Larger(floor, Back(Day(clock'), keep'))
    BY DEF EditKeep
  <1>3. /\ Room(kernel, panel) \in Int /\ \A n : RoomOf(kernel, panel, n) \in Int
    BY <1>1, RoomType DEF ReadingInv
  <1>4. ReadingInv'
    BY <1>1, <1>2 DEF ReadingInv, PanelShape
  <1>5. left' \in [Counted -> Nat]
    BY <1>1, UseLaws DEF EditKeep, Counted
  <1>6. clock' \in Nat /\ Day(clock) <= Day(clock')
    BY <1>1, <1>2, ClockLaws
  <1>7. /\ Room(kernel, panel) <= Room(kernel', panel')
        /\ \A n : RoomOf(kernel, panel, n) <= RoomOf(kernel', panel', n)
    BY <1>2, <1>3
  <1>8. panel'.pending = panel.pending
    BY <1>2
  <1> QED
    BY <1>2, <1>4, <1>5, <1>6, <1>7, <1>8, QuietMoves

\* A reading is taken, and what it will add is set apart from the room.
LEMMA PollStep == ASSUME IInv, Poll PROVE IInv'
  <1>1. /\ ReadingInv /\ IsBook(store) /\ clock \in Nat /\ floor \in Nat /\ keep \in Keeps
        /\ left \in [Counted -> Nat] /\ Back(Day(clock), keep) <= floor
    BY DEF IInv, BooksInv
  <1>2. /\ panel.pc = "idle" /\ UNCHANGED <<kernel, store, clock, keep, left, due, floor, unseen>>
        /\ panel' = [panel EXCEPT !.pc = "got",
               !.snap = [life |-> kernel.life, total |-> kernel.total, conn |-> Reading(kernel)]]
    BY DEF Poll, Reading
  <1>3. /\ panel'.pc = "got" /\ panel'.primed = panel.primed
        /\ panel'.snap = [life |-> kernel.life, total |-> kernel.total, conn |-> Reading(kernel)]
        /\ panel'.life = panel.life /\ panel'.last = panel.last /\ panel'.seen = panel.seen
        /\ panel'.pending = panel.pending
    BY <1>1, <1>2 DEF ReadingInv, PanelShape
  <1>4. PanelShape'
    BY <1>1, <1>2 DEF ReadingInv, PanelShape
  <1>5. \A n : /\ IsReading(kernel, panel') /\ Room(kernel, panel') = Room(kernel, panel)
               /\ RoomOf(kernel, panel', n) = RoomOf(kernel, panel, n)
    <2> DEFINE q == panel'
    <2>1. /\ IsReading(kernel, panel) /\ q.pc = "got" /\ q.primed = panel.primed
          /\ q.snap = [life |-> kernel.life, total |-> kernel.total, conn |-> Reading(kernel)]
          /\ q.life = panel.life /\ q.last = panel.last /\ q.seen = panel.seen
      BY <1>1, <1>3 DEF ReadingInv
    <2> HIDE DEF q
    <2>2. \A n : /\ IsReading(kernel, q) /\ Room(kernel, q) = Room(kernel, panel)
                 /\ RoomOf(kernel, q, n) = RoomOf(kernel, panel, n)
      BY <1>2, <2>1, RoomPoll
    <2> QED
      BY <2>2 DEF q
  <1>6. /\ Room(kernel, panel) \in Int /\ \A n : RoomOf(kernel, panel, n) \in Int
    BY <1>1, RoomType DEF ReadingInv
  <1>7. ReadingInv'
    BY <1>2, <1>4, <1>5 DEF ReadingInv
  <1>8. /\ Room(kernel, panel) <= Room(kernel', panel')
        /\ \A n : RoomOf(kernel, panel, n) <= RoomOf(kernel', panel', n)
    BY <1>2, <1>5, <1>6
  <1>9. Day(clock) \in Nat
    BY <1>1, ClockLaws
  <1>10. Pruned(store, store', Firm(floor', Day(clock')))
    BY <1>1, <1>2, PrunedSame
  <1>11. Move
    BY <1>1, <1>2, <1>3, <1>9, <1>10 DEF Move
  <1>12. left' \in [Counted -> Nat] /\ keep' \in Keeps /\ Back(Day(clock'), keep') <= floor'
    BY <1>1, <1>2
  <1> QED
    BY <1>7, <1>8, <1>11, <1>12, MoveKept

\* A prune deletes no firm row.
LEMMA PruneFirm ==
    ASSUME clock \in Nat, floor \in Nat, keep \in Keeps, Back(Day(clock), keep) <= floor,
           NEW book, IsBook(book), NEW p, NEW done, Prune(book, p, done)
    PROVE  Pruned(book, store', Firm(floor, Day(clock)))
  <1> DEFINE F == Firm(floor, Day(clock))
  <1>1. Day(clock) \in Nat /\ Back(Day(clock), keep) \in Nat
    BY ClockLaws, KeepLaws
  <1>2. DetailKeep \in Nat
    BY TrafficAssumption DEF TrafficAssumption
  <1>3. \A row \in F : row.day \in Nat /\ row.day >= floor /\ (IsDetail(row) => row.day + DetailKeep > Day(clock))
    BY DEF Firm, Entries
  <1>4. OutOfTerm(book) \cap F = {}
    BY <1>1, <1>3 DEF OutOfTerm
  <1>5. OldDetail(book) \cap F = {}
    BY <1>1, <1>2, <1>3 DEF OldDetail
  <1> HIDE DEF F
  <1>6. Pruned(book, book, F)
    BY PrunedSame
  <1>7. Pruned(book, Without(book, OutOfTerm(book)), F)
    BY <1>4, PrunedWithout
  <1>8. Pruned(book, Without(book, OutOfTerm(book) \cup OldDetail(book)), F)
    <2>1. (OutOfTerm(book) \cup OldDetail(book)) \cap F = {}
      BY <1>4, <1>5
    <2> QED
      BY <2>1, PrunedWithout
  <1> QED
    BY <1>6, <1>7, <1>8 DEF Prune, F

\* A process starts, without a base line, and prunes.
LEMMA PanelStartStep == ASSUME IInv, PanelStarts PROVE IInv'
  <1>1. /\ ReadingInv /\ IsBook(store) /\ clock \in Nat /\ floor \in Nat /\ keep \in Keeps
        /\ left \in [Counted -> Nat] /\ Back(Day(clock), keep) <= floor
    BY DEF IInv, BooksInv
  <1>2. PICK done \in BOOLEAN :
          /\ IF done THEN UNCHANGED left ELSE May("faults") /\ Use("faults")
          /\ Prune(store, [Fresh EXCEPT !.pc = "idle"], done)
    BY DEF PanelStarts
  <1>3. panel = Fresh /\ UNCHANGED <<kernel, clock, keep, due, floor, unseen>>
    BY <1>1 DEF PanelStarts, ReadingInv, PanelShape
  <1>4. panel' = [[Fresh EXCEPT !.pc = "idle"] EXCEPT !.prunedOn = Day(clock), !.prunedKeep = keep, !.wide = FALSE]
    BY <1>2 DEF Prune
  <1>5. /\ panel'.pc = "idle" /\ panel'.primed = FALSE /\ panel'.life = 0 /\ panel'.last = 0
        /\ panel'.seen = Empty /\ panel'.pending = Empty
    BY <1>4 DEF Fresh
  <1>6. PanelShape'
    BY <1>4, <1>5 DEF PanelShape, Fresh
  <1>7. \A n : /\ IsReading(kernel, panel') /\ Room(kernel, panel) <= Room(kernel, panel')
               /\ RoomOf(kernel, panel, n) <= RoomOf(kernel, panel', n)
    <2> DEFINE q == panel'
    <2>1. /\ IsReading(kernel, panel) /\ q.pc # "got" /\ q.primed \in BOOLEAN /\ ~q.primed
          /\ q.life = 0 /\ q.last = 0 /\ q.seen = Empty
      BY <1>1, <1>5 DEF ReadingInv
    <2> HIDE DEF q
    <2>2. \A n : /\ IsReading(kernel, q) /\ Room(kernel, panel) <= Room(kernel, q)
                 /\ RoomOf(kernel, panel, n) <= RoomOf(kernel, q, n)
      BY <2>1, RoomFresh
    <2> QED
      BY <2>2 DEF q
  <1>8. ReadingInv'
    BY <1>3, <1>6, <1>7 DEF ReadingInv
  <1>9. left' \in [Counted -> Nat]
    BY <1>1, <1>2, UseLaws DEF Counted
  <1>10. Pruned(store, store', Firm(floor, Day(clock)))
    BY <1>1, <1>2, PruneFirm
  <1>11. panel.pending = Empty
    BY <1>3 DEF Fresh
  <1>12. Day(clock) \in Nat
    BY <1>1, ClockLaws
  <1>13. Move
    BY <1>1, <1>3, <1>5, <1>10, <1>11, <1>12 DEF Move
  <1> QED
    BY <1>1, <1>3, <1>7, <1>8, <1>9, <1>13, MoveKept

\* A process dies with what was pending, which is no longer due.
LEMMA PanelDeathStep == ASSUME IInv, PanelDies PROVE IInv'
  <1>1. /\ ReadingInv /\ IsBook(store) /\ clock \in Nat /\ floor \in Nat /\ keep \in Keeps
        /\ left \in [Counted -> Nat] /\ Back(Day(clock), keep) <= floor
    BY DEF IInv, BooksInv
  <1>2. /\ panel' = Fresh /\ due' = Lose(panel.pending)
        /\ UNCHANGED <<kernel, store, clock, keep, floor, unseen>>
    BY DEF PanelDies
  <1>3. /\ panel'.pc = "off" /\ panel'.primed = FALSE /\ panel'.life = 0 /\ panel'.last = 0
        /\ panel'.seen = Empty /\ panel'.pending = Empty
    BY <1>2 DEF Fresh
  <1>4. PanelShape'
    BY <1>2, <1>3 DEF PanelShape, Fresh
  <1>5. \A n : /\ IsReading(kernel, panel') /\ Room(kernel, panel) <= Room(kernel, panel')
               /\ RoomOf(kernel, panel, n) <= RoomOf(kernel, panel', n)
    <2> DEFINE q == panel'
    <2>1. /\ IsReading(kernel, panel) /\ q.pc # "got" /\ q.primed \in BOOLEAN /\ ~q.primed
          /\ q.life = 0 /\ q.last = 0 /\ q.seen = Empty
      BY <1>1, <1>3 DEF ReadingInv
    <2> HIDE DEF q
    <2>2. \A n : /\ IsReading(kernel, q) /\ Room(kernel, panel) <= Room(kernel, q)
                 /\ RoomOf(kernel, panel, n) <= RoomOf(kernel, q, n)
      BY <2>1, RoomFresh
    <2> QED
      BY <2>2 DEF q
  <1>6. ReadingInv'
    BY <1>2, <1>4, <1>5 DEF ReadingInv
  <1>7. left' \in [Counted -> Nat]
    BY <1>1, UseLaws DEF PanelDies, Counted
  <1>8. Pruned(store, store', Firm(floor', Day(clock')))
    BY <1>1, <1>2, PrunedSame
  <1>9. Day(clock) \in Nat
    BY <1>1, ClockLaws
  <1>10. Move
    BY <1>1, <1>2, <1>3, <1>8, <1>9 DEF Move
  <1> QED
    BY <1>1, <1>2, <1>5, <1>6, <1>7, <1>10, MoveKept

\* The timer writes, loses or keeps what was pending, and a prune may follow.
LEMMA TickStep == ASSUME IInv, Tick PROVE IInv'
  <1>1. /\ ReadingInv /\ IsBook(store) /\ IsBook(panel.pending) /\ clock \in Nat /\ floor \in Nat /\ keep \in Keeps
        /\ left \in [Counted -> Nat] /\ Back(Day(clock), keep) <= floor
    BY DEF IInv, BooksInv
  <1>2. panel.pc # "off" /\ UNCHANGED <<kernel, clock, keep, floor, unseen>>
    BY DEF Tick
  <1> DEFINE Faults(written, done) == Cardinality({i \in {1} : ~written}) + Cardinality({i \in {1} : ~done})
             Book(written) == IF written THEN Plus(store, panel.pending) ELSE store
             Later(written) == [panel EXCEPT !.ticked = TRUE, !.pending = IF written THEN Empty ELSE PutBack]
  <1>3. PICK written \in BOOLEAN, done \in BOOLEAN :
          /\ Faults(written, done) <= left.faults /\ left' = [left EXCEPT !.faults = @ - Faults(written, done)]
          /\ due' = IF written \/ Cardinality(DOMAIN panel.pending) <= MaxPending THEN due
                    ELSE Lose(panel.pending)
          /\ \/ Prune(Book(written), Later(written), done)
             \/ panel' = Later(written) /\ store' = Book(written)
    BY DEF Tick
  <1>4. left' \in [Counted -> Nat]
    <2> DEFINE f == Faults(written, done)
    <2>1. f \in Nat
      <3>1. IsFiniteSet({i \in {1} : ~written}) /\ IsFiniteSet({i \in {1} : ~done})
        <4>1. IsFiniteSet({1})
          BY FS_Singleton
        <4> QED
          BY <4>1, FS_Subset
      <3>2. Cardinality({i \in {1} : ~written}) \in Nat
        BY <3>1, FS_CardinalityType
      <3>3. Cardinality({i \in {1} : ~done}) \in Nat
        BY <3>1, FS_CardinalityType
      <3> QED
        BY <3>2, <3>3
    <2>2. f <= left.faults /\ left' = [left EXCEPT !.faults = @ - f]
      BY <1>3
    <2> HIDE DEF f
    <2> QED
      BY <1>1, <2>1, <2>2 DEF Counted
  <1>5. IsBook(Book(written))
    BY <1>1, PlusLaws
  <1>6. Pruned(Book(written), store', Firm(floor, Day(clock)))
    <2> HIDE DEF Book, Later
    <2>1. CASE Prune(Book(written), Later(written), done)
      BY <1>1, <1>5, <2>1, PruneFirm
    <2>2. CASE store' = Book(written)
      BY <1>5, <2>2, PrunedSame
    <2> QED
      BY <1>3, <2>1, <2>2
  <1>7. /\ panel' = [pc |-> panel'.pc, snap |-> panel'.snap, primed |-> panel'.primed, life |-> panel'.life,
                     last |-> panel'.last, seen |-> panel'.seen, pending |-> panel'.pending,
                     prunedOn |-> panel'.prunedOn, prunedKeep |-> panel'.prunedKeep, wide |-> panel'.wide,
                     ticked |-> panel'.ticked]
        /\ panel'.pc = panel.pc /\ panel'.snap = panel.snap /\ panel'.primed = panel.primed
        /\ panel'.life = panel.life /\ panel'.last = panel.last /\ panel'.seen = panel.seen
        /\ panel'.pending = IF written THEN Empty ELSE PutBack
    <2> DEFINE rows == IF written THEN Empty ELSE PutBack
               q == panel'
    <2>1. panel = [pc |-> panel.pc, snap |-> panel.snap, primed |-> panel.primed, life |-> panel.life,
                   last |-> panel.last, seen |-> panel.seen, pending |-> panel.pending,
                   prunedOn |-> panel.prunedOn, prunedKeep |-> panel.prunedKeep, wide |-> panel.wide,
                   ticked |-> panel.ticked]
      BY <1>1 DEF ReadingInv, PanelShape
    <2>2. \/ q = [panel EXCEPT !.ticked = TRUE, !.pending = rows]
          \/ q = [[panel EXCEPT !.ticked = TRUE, !.pending = rows]
                     EXCEPT !.prunedOn = Day(clock), !.prunedKeep = keep, !.wide = FALSE]
      BY <1>3 DEF Prune
    <2> HIDE DEF rows, q
    <2>3. /\ q = [pc |-> q.pc, snap |-> q.snap, primed |-> q.primed, life |-> q.life, last |-> q.last,
                  seen |-> q.seen, pending |-> q.pending, prunedOn |-> q.prunedOn,
                  prunedKeep |-> q.prunedKeep, wide |-> q.wide, ticked |-> q.ticked]
          /\ q.pc = panel.pc /\ q.snap = panel.snap /\ q.primed = panel.primed /\ q.life = panel.life
          /\ q.last = panel.last /\ q.seen = panel.seen /\ q.pending = rows
      <3> DEFINE Fields == {"pc", "snap", "primed", "life", "last", "seen", "pending", "prunedOn",
                            "prunedKeep", "wide", "ticked"}
      <3>1. panel = [i \in Fields |-> panel[i]]
        BY <2>1
      <3>2. /\ q = [i \in Fields |-> q[i]]
            /\ q.pc = panel.pc /\ q.snap = panel.snap /\ q.primed = panel.primed /\ q.life = panel.life
            /\ q.last = panel.last /\ q.seen = panel.seen /\ q.pending = rows
        <4>1. CASE q = [panel EXCEPT !.ticked = TRUE, !.pending = rows]
          BY <3>1, <4>1
        <4>2. CASE q = [[panel EXCEPT !.ticked = TRUE, !.pending = rows]
                           EXCEPT !.prunedOn = Day(clock), !.prunedKeep = keep, !.wide = FALSE]
          BY <3>1, <4>2
        <4> QED
          BY <2>2, <4>1, <4>2
      <3>3. q = [pc |-> q.pc, snap |-> q.snap, primed |-> q.primed, life |-> q.life, last |-> q.last,
                 seen |-> q.seen, pending |-> q.pending, prunedOn |-> q.prunedOn,
                 prunedKeep |-> q.prunedKeep, wide |-> q.wide, ticked |-> q.ticked]
        BY <3>2
      <3> QED
        BY <3>2, <3>3
    <2> QED
      BY <2>3, Zenon DEF rows, q
  <1>8. PanelShape'
    <2>1. panel.pc \in {"off", "idle", "got"}
      BY <1>1 DEF ReadingInv, PanelShape
    <2>2. panel'.pc \in {"off", "idle", "got"} /\ panel'.pc # "off"
      BY <1>2, <1>7, <2>1
    <2> QED
      BY <1>7, <2>2, Zenon DEF PanelShape
  <1>9. /\ IsReading(kernel, panel') /\ Room(kernel, panel') = Room(kernel, panel)
         /\ \A n : RoomOf(kernel, panel', n) = RoomOf(kernel, panel, n)
    BY <1>1, <1>7, RoomSame DEF ReadingInv
  <1>10. /\ Room(kernel, panel) \in Int /\ \A n : RoomOf(kernel, panel, n) \in Int
    BY <1>1, RoomType DEF ReadingInv
  <1>11. /\ Room(kernel, panel) <= Room(kernel', panel')
         /\ \A n : RoomOf(kernel, panel, n) <= RoomOf(kernel', panel', n)
    <2>1. kernel' = kernel
      BY <1>2
    <2>2. Room(kernel', panel') = Room(kernel, panel)
      BY <1>9, <2>1
    <2>3. ASSUME NEW n PROVE RoomOf(kernel', panel', n) = RoomOf(kernel, panel, n)
      BY <1>9, <2>1
    <2> QED
      BY <1>10, <2>2, <2>3
  <1>12. ReadingInv'
    BY <1>2, <1>8, <1>9 DEF ReadingInv
  <1>13. \/ Book(written) = Plus(store, panel.pending) /\ panel'.pending = Empty /\ UNCHANGED due
         \/ Book(written) = store /\ panel'.pending = panel.pending /\ UNCHANGED due
         \/ Book(written) = store /\ panel'.pending = Empty /\ due' = Lose(panel.pending)
    <2>1. CASE written
      BY <1>3, <1>7, <2>1
    <2>2. CASE ~written /\ Cardinality(DOMAIN panel.pending) <= MaxPending
      BY <1>3, <1>7, <2>2 DEF PutBack
    <2>3. CASE ~written /\ ~(Cardinality(DOMAIN panel.pending) <= MaxPending)
      BY <1>3, <1>7, <2>3 DEF PutBack
    <2> QED
      BY <2>1, <2>2, <2>3
  <1>14. Move
    <2> HIDE DEF Book, Later
    <2>1. Day(clock) \in Nat
      BY <1>1, ClockLaws
    <2>2. Pruned(Book(written), store', Firm(floor', Day(clock')))
      BY <1>2, <1>6
    <2> QED
      BY <1>1, <1>2, <1>13, <2>1, <2>2 DEF Move
  <1>15. keep' \in Keeps /\ Back(Day(clock'), keep') <= floor'
    BY <1>1, <1>2
  <1> QED
    BY <1>4, <1>11, <1>12, <1>14, <1>15, MoveKept

\* What taking up a reading does to the panel.
LEMMA ApplyShape ==
    ASSUME ReadingInv, Apply
    PROVE  /\ panel.pc = "got" /\ TakesUp(panel, panel')
           /\ panel.primed => panel'.pending = Plus(panel.pending, Booked)
           /\ ~panel.primed => panel'.pending = panel.pending
           /\ PanelShape'
  <1>1. /\ panel = [pc |-> panel.pc, snap |-> panel.snap, primed |-> panel.primed, life |-> panel.life,
                    last |-> panel.last, seen |-> panel.seen, pending |-> panel.pending,
                    prunedOn |-> panel.prunedOn, prunedKeep |-> panel.prunedKeep, wide |-> panel.wide,
                    ticked |-> panel.ticked]
        /\ panel.primed \in BOOLEAN
    BY DEF ReadingInv, PanelShape, IsReading
  <1> DEFINE rows == IF panel.primed THEN Plus(panel.pending, Booked) ELSE panel.pending
             q == panel'
  <1>2. q = [panel EXCEPT !.pc = "idle", !.snap = None, !.primed = TRUE,
                          !.life = panel.snap.life, !.last = panel.snap.total,
                          !.seen = panel.snap.conn, !.pending = rows]
    <2>1. panel' = [panel EXCEPT !.pc = "idle", !.snap = None, !.primed = TRUE,
                     !.life = panel.snap.life, !.last = panel.snap.total,
                     !.seen = panel.snap.conn,
                     !.pending = IF panel.primed THEN Plus(@, Booked) ELSE @]
      BY DEF Apply
    <2>2. panel.pending = [panel EXCEPT !.pc = "idle", !.snap = None, !.primed = TRUE,
                     !.life = panel.snap.life, !.last = panel.snap.total, !.seen = panel.snap.conn].pending
      BY <1>1
    <2> QED
      BY <2>1, <2>2
  <1> HIDE DEF rows, q
  <1> DEFINE Fields == {"pc", "snap", "primed", "life", "last", "seen", "pending", "prunedOn", "prunedKeep",
                        "wide", "ticked"}
  <1>3. panel = [i \in Fields |-> panel[i]]
    BY <1>1
  <1>4. /\ q = [i \in Fields |-> q[i]]
        /\ q.pc = "idle" /\ q.primed = TRUE /\ q.life = panel.snap.life /\ q.last = panel.snap.total
        /\ q.seen = panel.snap.conn /\ q.pending = rows
    BY <1>2, <1>3
  <1>5. q = [pc |-> q.pc, snap |-> q.snap, primed |-> q.primed, life |-> q.life, last |-> q.last,
             seen |-> q.seen, pending |-> q.pending, prunedOn |-> q.prunedOn,
             prunedKeep |-> q.prunedKeep, wide |-> q.wide, ticked |-> q.ticked]
    BY <1>4
  <1>6. q.primed \in BOOLEAN /\ q.primed
    BY <1>4
  <1>7. panel'.pc = "idle"
    BY <1>4 DEF q
  <1>8. panel'.pc \in {"off", "idle", "got"} /\ panel'.pc # "off"
    BY <1>7
  <1>9. PanelShape'
    BY <1>5, <1>8, Zenon DEF PanelShape, q
  <1>10. panel.pc = "got"
    BY DEF Apply
  <1>11. /\ panel'.life = panel.snap.life /\ panel'.last = panel.snap.total /\ panel'.seen = panel.snap.conn
         /\ panel'.primed \in BOOLEAN /\ panel'.primed
    BY <1>4, <1>6, Zenon DEF q
  <1>12. /\ panel.primed => panel'.pending = Plus(panel.pending, Booked)
         /\ ~panel.primed => panel'.pending = panel.pending
    BY <1>4, Zenon DEF q, rows
  <1>13. TakesUp(panel, panel')
    BY <1>7, <1>10, <1>11, Zenon DEF TakesUp
  <1> QED
    BY <1>9, <1>10, <1>12, <1>13, Zenon

\* The room after it.
LEMMA ApplyRoom ==
    ASSUME ReadingInv, Apply
    PROVE  /\ ReadingInv' /\ Room(kernel', panel') = Room(kernel, panel) + Coming(panel)
           /\ \A n : /\ RoomOf(kernel', panel', n) = RoomOf(kernel, panel, n) + ComingTo(panel, n)
                     /\ Room(kernel, panel) \in Int /\ RoomOf(kernel, panel, n) \in Int
                     /\ Coming(panel) \in Nat /\ ComingTo(panel, n) \in Nat
  <1> DEFINE q == panel'
  <1>1. panel.pc = "got" /\ TakesUp(panel, q)
    BY ApplyShape
  <1>2. kernel' = kernel
    BY DEF Apply
  <1>3. IsReading(kernel, panel)
    BY DEF ReadingInv
  <1> HIDE DEF q
  <1>4. \A n : /\ IsReading(kernel, q) /\ Room(kernel, q) = Room(kernel, panel) + Coming(panel)
               /\ RoomOf(kernel, q, n) = RoomOf(kernel, panel, n) + ComingTo(panel, n)
    BY <1>1, <1>3, RoomApply
  <1>5. \A n : Room(kernel, panel) \in Int /\ RoomOf(kernel, panel, n) \in Int
    BY <1>3, RoomType
  <1>6. \A n : Coming(panel) \in Nat /\ ComingTo(panel, n) \in Nat
    BY <1>1, <1>3, ComingType
  <1>7. PanelShape'
    BY ApplyShape
  <1>8. IsReading(kernel', q)
    BY <1>2, <1>4
  <1>9. ReadingInv'
    BY <1>7, <1>8, Zenon DEF ReadingInv, q
  <1>10. Room(kernel', q) = Room(kernel, panel) + Coming(panel)
    BY <1>2, <1>4
  <1>11. \A n : RoomOf(kernel', q, n) = RoomOf(kernel, panel, n) + ComingTo(panel, n)
    BY <1>2, <1>4
  <1> QED
    BY <1>5, <1>6, <1>9, <1>10, <1>11, Zenon DEF q

\* The first reading of a process is its base line.
LEMMA ApplyFirst == ASSUME IInv, Apply, ~panel.primed PROVE IInv'
  <1>1. /\ ReadingInv /\ IsBook(store) /\ clock \in Nat /\ floor \in Nat /\ keep \in Keeps
        /\ left \in [Counted -> Nat] /\ Back(Day(clock), keep) <= floor /\ unseen \in BOOLEAN
    BY DEF IInv, BooksInv
  <1>2. /\ UNCHANGED <<kernel, store, clock, keep, left, floor>>
        /\ due' = IF panel.primed THEN Plus(due, [d \in {Day(clock)} |-> Truth]) ELSE due
        /\ unseen' = (unseen \/ (panel.primed /\ panel.snap.life # panel.life
                                              /\ panel.snap.total >= panel.last))
    BY DEF Apply
  <1>3. due' = due /\ unseen' = unseen
    BY <1>1, <1>2
  <1>4. panel'.pending = panel.pending
    BY <1>1, ApplyShape
  <1>5. ReadingInv' /\ Room(kernel, panel) <= Room(kernel', panel')
    BY <1>1, ApplyRoom
  <1>6. ASSUME NEW n PROVE RoomOf(kernel, panel, n) <= RoomOf(kernel', panel', n)
    BY <1>1, ApplyRoom
  <1>7. Day(clock) \in Nat
    BY <1>1, ClockLaws
  <1>8. Pruned(store, store', Firm(floor', Day(clock')))
    BY <1>1, <1>2, PrunedSame
  <1>9. Move
    BY <1>1, <1>2, <1>3, <1>4, <1>7, <1>8 DEF Move
  <1>10. left' \in [Counted -> Nat] /\ keep' \in Keeps /\ Back(Day(clock'), keep') <= floor'
    BY <1>1, <1>2
  <1> QED
    BY <1>5, <1>6, <1>9, <1>10, MoveKept

\* What a later reading books, and what is due after it.
LEMMA ApplyBooks ==
    ASSUME IInv, Apply, panel.primed
    PROVE  /\ Old /\ New /\ Day(clock) \in Nat
           /\ UNCHANGED <<kernel, store, clock, keep, left, floor>>
           /\ IsBook(panel'.pending) /\ DOMAIN panel'.pending \subseteq DOMAIN panel.pending \cup Slots
           /\ panel'.pending = Plus(panel.pending, Booked)
           /\ \A row : In(panel'.pending, row) = In(panel.pending, row) + In(Booked, row)
           /\ IsBook(due') /\ DOMAIN due' \subseteq Nat
           /\ \A d \in Nat : In(due', d) = In(due, d) + (IF d = Day(clock) THEN Truth ELSE 0)
           /\ unseen' \in BOOLEAN /\ (unseen => unseen') /\ (Overtaken => unseen')
           /\ (unseen' => unseen \/ Overtaken)
  <1>1. /\ ReadingInv /\ IsBook(panel.pending) /\ clock \in Nat /\ unseen \in BOOLEAN
        /\ IsBook(due) /\ DOMAIN due \subseteq Nat
    BY DEF IInv, BooksInv, DueInv
  <1>2. /\ UNCHANGED <<kernel, store, clock, keep, left, floor>>
        /\ due' = IF panel.primed THEN Plus(due, [d \in {Day(clock)} |-> Truth]) ELSE due
        /\ unseen' = (unseen \/ (panel.primed /\ panel.snap.life # panel.life
                                              /\ panel.snap.total >= panel.last))
    BY DEF Apply
  <1>3. panel.pc = "got" /\ panel'.pending = Plus(panel.pending, Booked)
    BY <1>1, ApplyShape
  <1>4. Old /\ New
    BY <1>1, <1>3 DEF ReadingInv, IsReading, Old, New
  <1>5. Day(clock) \in Nat
    BY <1>1, ClockLaws
  <1>6. IsBook(Booked) /\ DOMAIN Booked \subseteq Slots
    BY <1>1, <1>4, BookedLaws
  <1>7. /\ IsBook(Plus(panel.pending, Booked))
        /\ DOMAIN Plus(panel.pending, Booked) = DOMAIN panel.pending \cup DOMAIN Booked
        /\ \A row : In(Plus(panel.pending, Booked), row) = In(panel.pending, row) + In(Booked, row)
    BY <1>1, <1>6, PlusLaws
  <1>8. /\ IsBook(panel'.pending) /\ DOMAIN panel'.pending \subseteq DOMAIN panel.pending \cup Slots
        /\ \A row : In(panel'.pending, row) = In(panel.pending, row) + In(Booked, row)
    BY <1>3, <1>6, <1>7
  <1> DEFINE today == [d \in {Day(clock)} |-> Truth]
             D == Day(clock)
  <1>9. Truth \in Nat
    BY <1>4, GrowthLaws
  <1>10. DOMAIN today = {D} /\ IsBook(today)
    BY <1>9 DEF IsBook
  <1>11. \A d : In(today, d) = IF d = D THEN Truth ELSE 0
    BY DEF In
  <1>12. due' = Plus(due, today)
    BY <1>2
  <1> HIDE DEF today
  <1>13. /\ IsBook(Plus(due, today)) /\ DOMAIN Plus(due, today) = DOMAIN due \cup DOMAIN today
         /\ \A row : In(Plus(due, today), row) = In(due, row) + In(today, row)
    BY <1>1, <1>10, PlusLaws
  <1>14. IsBook(due') /\ DOMAIN due' \subseteq Nat
    BY <1>1, <1>5, <1>10, <1>12, <1>13
  <1>15. \A d \in Nat : In(due', d) = In(due, d) + (IF d = Day(clock) THEN Truth ELSE 0)
    BY <1>11, <1>12, <1>13
  <1>16. /\ unseen' \in BOOLEAN /\ (unseen => unseen') /\ (Overtaken => unseen')
         /\ (unseen' => unseen \/ Overtaken)
    BY <1>1, <1>2 DEF Overtaken
  <1> QED
    BY <1>2, <1>3, <1>4, <1>5, <1>8, <1>14, <1>15, <1>16

\* A later reading is booked: the books stay what they are, and what it books was not held before.
LEMMA ApplyLater == ASSUME IInv, Apply, panel.primed PROVE IInv'
  <1>1. /\ ReadingInv /\ BooksInv /\ DueInv /\ AccountInv /\ TwiceInv
        /\ IsBook(store) /\ IsBook(panel.pending) /\ clock \in Nat /\ floor \in Nat /\ unseen \in BOOLEAN
    BY DEF IInv, BooksInv
  <1>2. /\ Old /\ New /\ Day(clock) \in Nat
        /\ UNCHANGED <<kernel, store, clock, keep, left, floor>>
        /\ IsBook(panel'.pending) /\ DOMAIN panel'.pending \subseteq DOMAIN panel.pending \cup Slots
        /\ panel'.pending = Plus(panel.pending, Booked)
        /\ \A row : In(panel'.pending, row) = In(panel.pending, row) + In(Booked, row)
        /\ IsBook(due') /\ DOMAIN due' \subseteq Nat
        /\ unseen' \in BOOLEAN /\ (unseen => unseen') /\ (Overtaken => unseen')
    BY ApplyBooks
  <1>3. \A d \in Nat : In(due', d) = In(due, d) + (IF d = Day(clock) THEN Truth ELSE 0)
    BY ApplyBooks
  <1>4. /\ \A n : NodeGrowth(n) = SumOf(G, Of(n)) /\ NodeGrowth(n) \in Nat
        /\ TotalGrowth \in Nat /\ Truth \in Nat /\ TotalGrowth <= Truth
        /\ Truth <= panel.snap.total - From(panel.life, panel.last, panel.snap.life)
        /\ ~Overtaken => TotalGrowth = Truth
    BY <1>2, GrowthLaws
  <1>5. \A row : In(Booked, row) =
                 IF row \notin Slots THEN 0
                 ELSE IF row.what \in Real THEN NodeGrowth(row.what) ELSE TotalGrowth
    BY <1>1, <1>2, BookedLaws
  <1>6. ReadingInv'
    BY <1>1, ApplyRoom
  <1>7. BooksInv'
    <2>1. Slots \subseteq Entries /\ \A row \in Slots : row.day = Day(clock)
      BY <1>1, SlotLaws
    <2>2. DOMAIN panel'.pending \subseteq Entries /\ Dated(panel'.pending, Day(clock))
      BY <1>1, <1>2, <2>1 DEF BooksInv, Dated
    <2>3. /\ IsBook(store') /\ DOMAIN store' \subseteq Entries /\ Dated(store', Day(clock'))
          /\ clock' \in Nat /\ floor' \in Nat /\ keep' \in Keeps /\ left' \in [Counted -> Nat]
          /\ Back(Day(clock'), keep') <= floor'
      BY <1>1, <1>2 DEF BooksInv
    <2>4. Dated(panel'.pending, Day(clock'))
      BY <1>2, <2>2
    <2> QED
      BY <1>2, <2>2, <2>3, <2>4, Zenon DEF BooksInv, Entries
  <1>8. \A d \in Nat : In(Booked, Total(d)) = IF d = Day(clock) THEN TotalGrowth ELSE 0
    BY <1>1, <1>5, SlotLaws, EntryLaws DEF Total
  <1>9. \A d \in Nat, n \in Real : In(Booked, OfNode(d, n)) = IF d = Day(clock) THEN NodeGrowth(n) ELSE 0
    BY <1>1, <1>5, SlotLaws DEF OfNode
  <1>10. \A row : In(store, row) \in Nat
    BY <1>1, InType
  <1>11. \A row : In(panel.pending, row) \in Nat
    BY <1>1, InType
  <1>12. \A d : In(due, d) \in Nat
    BY <1>1, InType DEF DueInv
  <1>13. DueInv'
    <2>1. \A d \in Nat : Held(Total(d)) <= In(due, d) /\ Held(Total(d)) \in Nat
      BY <1>1, <1>10, <1>11 DEF DueInv, Held
    <2>2. ASSUME NEW d \in Nat
          PROVE  Held(Total(d))' = Held(Total(d)) + (IF d = Day(clock) THEN TotalGrowth ELSE 0)
      <3>1. In(panel'.pending, Total(d)) = In(panel.pending, Total(d)) + (IF d = Day(clock) THEN TotalGrowth ELSE 0)
        BY <1>2, <1>8
      <3>2. Held(Total(d))' = In(store, Total(d)) + In(panel'.pending, Total(d))
        BY <1>2 DEF Held
      <3> QED
        BY <1>4, <1>10, <1>11, <3>1, <3>2 DEF Held
    <2>3. ASSUME NEW d \in Nat PROVE Held(Total(d))' <= In(due', d)
      <3>1. In(due', d) = In(due, d) + (IF d = Day(clock) THEN Truth ELSE 0)
        BY <1>3
      <3>2. Held(Total(d)) <= In(due, d) /\ Held(Total(d)) \in Nat /\ In(due, d) \in Nat
        BY <1>12, <2>1
      <3> QED
        BY <1>4, <2>2, <3>1, <3>2
    <2>4. ASSUME ~unseen', NEW d \in Nat, d >= floor' PROVE Held(Total(d))' = In(due', d)
      <3>1. In(due', d) = In(due, d) + (IF d = Day(clock) THEN Truth ELSE 0)
        BY <1>3
      <3>2. Held(Total(d)) = In(due, d)
        BY <1>1, <1>2, <2>4 DEF DueInv
      <3>3. TotalGrowth = Truth
        BY <1>2, <1>4, <2>4
      <3> QED
        BY <2>2, <3>1, <3>2, <3>3
    <2> QED
      BY <1>2, <2>3, <2>4 DEF DueInv
  <1>14. AccountInv'
    <2> DEFINE free2 == unseen'
               p2 == panel'.pending
               D == Day(clock)
    <2>1. Account(store, floor, D, unseen) /\ Account(panel.pending, floor, D, unseen)
      BY <1>1 DEF AccountInv
    <2>2. Pruned(store, store, Firm(floor, D)) /\ Pruned(panel.pending, panel.pending, Firm(floor, D))
      BY <1>1, PrunedSame
    <2>3. (unseen => free2) /\ (free2 \/ ~Overtaken) /\ D \in Nat /\ p2 = Plus(panel.pending, Booked)
      BY <1>2
    <2>4. IsBook(Booked)
      BY <1>1, <1>2, BookedLaws
    <2> HIDE DEF free2, p2
    <2>5. Account(Booked, floor, D, free2)
      BY <1>1, <1>2, <2>3, AccountBooked
    <2> HIDE DEF D
    <2>6. Account(store, floor, D, free2)
      BY <1>1, <2>1, <2>2, <2>3, AccountPruned
    <2>7. Account(panel.pending, floor, D, free2)
      BY <1>1, <2>1, <2>2, <2>3, AccountPruned
    <2>8. Account(p2, floor, D, free2)
      BY <1>1, <2>3, <2>4, <2>5, <2>7, AccountPlus
    <2>9. store' = store /\ floor' = floor /\ Day(clock') = D
      BY <1>2 DEF D
    <2> QED
      BY <2>6, <2>8, <2>9, Zenon DEF AccountInv, free2, p2
  <1>15. TwiceInv'
    <2> DEFINE p2 == panel'.pending
               D == Day(clock)
               Before1(w) == AllHeld(store, panel.pending, w, D)
               After1(w) == AllHeld(store, p2, w, D)
    <2>1. IsBook(p2) /\ \A row : In(p2, row) = In(panel.pending, row) + In(Booked, row)
      BY <1>2
    <2>2. store' = store /\ Day(clock') = D /\ D \in Nat
      BY <1>2
    <2>3. \A d \in Nat : Entry(d, "total") = Total(d) /\ \A n : Entry(d, n) = OfNode(d, n)
      BY DEF Entry, Total, OfNode
    <2>4. \A d \in Nat :
             In(p2, Entry(d, "total")) = In(panel.pending, Entry(d, "total")) + (IF d = D THEN TotalGrowth ELSE 0)
      BY <1>8, <2>1, <2>3
    <2>5. \A n \in Real, d \in Nat :
             In(p2, Entry(d, n)) = In(panel.pending, Entry(d, n)) + (IF d = D THEN NodeGrowth(n) ELSE 0)
      BY <1>9, <2>1, <2>3
    <2> HIDE DEF p2, D
    <2>6. After1("total") = Before1("total") + TotalGrowth
      BY <1>1, <1>4, <2>1, <2>2, <2>4, HeldMore
    <2>7. ASSUME NEW n \in Real PROVE After1(n) = Before1(n) + NodeGrowth(n)
      BY <1>1, <1>4, <2>1, <2>2, <2>5, HeldMore
    <2>8. \A w : Before1(w) \in Nat
      BY <1>1, <2>2, HeldType
    <2>9. Before1("total") <= Room(kernel, panel) /\ \A n \in Real : Before1(n) <= RoomOf(kernel, panel, n)
      BY <1>1 DEF TwiceInv, D
    <2> HIDE DEF Before1, After1
    <2>10. Room(kernel', panel') = Room(kernel, panel) + Coming(panel)
      BY <1>1, ApplyRoom
    <2>11. Room(kernel, panel) \in Int /\ Coming(panel) \in Nat
      BY <1>1, ApplyRoom
    <2>12. Coming(panel) = panel.snap.total - From(panel.life, panel.last, panel.snap.life)
      BY DEF Coming
    <2>13. After1("total") <= Room(kernel', panel')
      <3>1. TotalGrowth <= Coming(panel)
        BY <1>4, <2>11, <2>12
      <3> QED
        BY <1>4, <2>6, <2>8, <2>9, <2>10, <2>11, <3>1
    <2>14. ASSUME NEW n \in Real PROVE After1(n) <= RoomOf(kernel', panel', n)
      <3>1. /\ RoomOf(kernel', panel', n) = RoomOf(kernel, panel, n) + ComingTo(panel, n)
            /\ RoomOf(kernel, panel, n) \in Int /\ ComingTo(panel, n) \in Nat
        BY <1>1, ApplyRoom
      <3>2. ComingTo(panel, n) = NodeGrowth(n)
        BY <1>4 DEF ComingTo, G
      <3> QED
        BY <2>7, <2>8, <2>9, <3>1, <3>2
    <2>15. /\ AllHeld(store', panel'.pending, "total", Day(clock')) <= Room(kernel', panel')
           /\ \A n \in Real : AllHeld(store', panel'.pending, n, Day(clock')) <= RoomOf(kernel', panel', n)
      BY <2>2, <2>13, <2>14 DEF After1, p2
    <2> QED
      BY <2>15, Zenon DEF TwiceInv, Real, Nodes
  <1> QED
    BY <1>6, <1>7, <1>13, <1>14, <1>15 DEF IInv

\* Nothing has passed and nothing is held.
LEMMA InitIInv == Init => IInv
  <1> SUFFICES ASSUME Init PROVE IInv
    OBVIOUS
  <1>1. /\ kernel = [on |-> FALSE, life |-> 0, total |-> 0, conn |-> [c \in Conns |-> "new"],
                     bytes |-> [c \in Conns |-> 0]]
        /\ panel = Fresh /\ store = Empty /\ clock = 0 /\ keep = DefaultKeep /\ left \in Budgets
        /\ due = Empty /\ floor = 0 /\ unseen = FALSE
    BY DEF Init
  <1>2. IsBook(Empty) /\ DOMAIN Empty = {} /\ \A row : In(Empty, row) = 0
    BY EmptyLaws
  <1>3. IsKernel(kernel)
    BY <1>1 DEF IsKernel
  <1>4. Behind(kernel, 0, 0, Empty)
    <2> DEFINE R == Rest(kernel, Empty)
    <2>1. \A c \in Conns : R[c] = 0
      BY <1>1 DEF Rest
    <2> HIDE DEF R
    <2>2. SumOf(R, Conns) = 0
      BY <2>1, ConnsFinite, SumNone
    <2> QED
      BY <1>1, <1>2, <2>2 DEF Behind, From, R
  <1>5. /\ panel.pc = "off" /\ panel.primed = FALSE /\ panel.life = 0 /\ panel.last = 0 /\ panel.seen = Empty
        /\ panel.pending = Empty
    BY <1>1 DEF Fresh
  <1>6. ReadingInv
    <2>1. IsReading(kernel, panel)
      BY <1>3, <1>4, <1>5 DEF IsReading
    <2>2. PanelShape
      BY <1>1, <1>5 DEF PanelShape, Fresh
    <2> QED
      BY <2>1, <2>2 DEF ReadingInv
  <1>7. BooksInv
    <2>1. keep \in Keeps /\ left \in [Counted -> Nat]
      BY <1>1, TrafficAssumption DEF TrafficAssumption
    <2>2. Day(clock) = 0
      BY <1>1, TrafficAssumption DEF TrafficAssumption, Day
    <2>3. Back(Day(clock), keep) <= floor
      BY <1>1, <2>1, <2>2, KeepLaws DEF Back
    <2> QED
      BY <1>1, <1>2, <1>5, <2>1, <2>3 DEF BooksInv, Dated
  <1>8. DueInv
    BY <1>1, <1>2, <1>5 DEF DueInv, Held
  <1>9. AccountInv
    BY <1>1, <1>5, AccountEmpty DEF AccountInv
  <1>10. TwiceInv
    <2>1. ASSUME NEW w PROVE AllHeld(Empty, Empty, w, Day(clock)) = 0
      <3> DEFINE f == HeldOf(Empty, Empty, w)
      <3>1. Day(clock) \in Nat
        BY <1>1, ClockLaws
      <3>2. IsFiniteSet(0 .. Day(clock)) /\ 0 .. Day(clock) \subseteq Nat
        BY <1>2, <3>1, HeldType
      <3>3. \A d \in 0 .. Day(clock) : f[d] = 0
        BY <1>2, <3>2 DEF HeldOf
      <3> HIDE DEF f
      <3>4. SumOf(f, 0 .. Day(clock)) = 0
        BY <3>2, <3>3, SumNone
      <3> QED
        BY <3>4 DEF AllHeld, f
    <2>2. \A n : SumOf(kernel.bytes, Conns) \in Nat /\ SumOf(kernel.bytes, Of(n)) \in Nat
      BY <1>3, BytesType
    <2>3. Room(kernel, panel) = SumOf(kernel.bytes, Conns)
      BY <1>5 DEF Room
    <2>4. \A n : RoomOf(kernel, panel, n) = SumOf(kernel.bytes, Of(n))
      BY <1>5 DEF RoomOf
    <2>5. store = Empty /\ panel.pending = Empty
      BY <1>1, <1>5
    <2> QED
      BY <2>1, <2>2, <2>3, <2>4, <2>5 DEF TwiceInv
  <1> QED
    BY <1>6, <1>7, <1>8, <1>9, <1>10 DEF IInv

\* Every step keeps the invariant.
LEMMA StepIInv == IInv /\ [Next]_vars => IInv'
  <1> SUFFICES ASSUME IInv, [Next]_vars PROVE IInv'
    OBVIOUS
  <1>1. CASE KernelStarts \/ KernelDies \/ \E c \in Conns : Pass(c) \/ Close(c)
    BY <1>1, KernelSteps
  <1>2. CASE HourPasses
    BY <1>2, HourStep
  <1>3. CASE EditKeep
    BY <1>3, EditStep
  <1>4. CASE Poll
    BY <1>4, PollStep
  <1>5. CASE Apply
    <2>1. panel.primed \in BOOLEAN
      BY DEF IInv, ReadingInv, IsReading
    <2> QED
      BY <1>5, <2>1, ApplyFirst, ApplyLater
  <1>6. CASE Tick
    BY <1>6, TickStep
  <1>7. CASE PanelStarts
    BY <1>7, PanelStartStep
  <1>8. CASE PanelDies
    BY <1>8, PanelDeathStep
  <1>9. CASE UNCHANGED vars
    BY <1>9 DEF vars, IInv, ReadingInv, PanelShape, IsReading, IsKernel, BooksInv, DueInv, Held, AccountInv, TwiceInv
  <1> QED
    BY <1>1, <1>2, <1>3, <1>4, <1>5, <1>6, <1>7, <1>8, <1>9 DEF Next

\* The invariant holds always.
LEMMA Always == Spec => []IInv
  BY InitIInv, StepIInv, PTL DEF Spec

-----------------------------------------------------------------------------
(* How long the detail is kept.                                            *)

\* A prune reaches what is to be deleted: the first of a process what was left while none
\* ran, a later one what was refused by the database in between.
InReach ==
    /\ panel.pc = "off" => \A row \in DOMAIN store :
          IsDetail(row) => row.day + DetailKeep + Wide > Day(clock)
    /\ \A row \in DOMAIN panel.pending :
          IsDetail(row) => row.day + DetailKeep + Span > Day(clock) + 1

\* The last prune was today, or yesterday when the timer has not come round since.
Tidy ==
    panel.pc # "off" /\ ~neglected =>
        /\ ~panel.wide /\ panel.prunedOn \in Nat
        /\ \/ Day(clock) = panel.prunedOn
           \/ ~panel.ticked /\ Day(clock) = panel.prunedOn + 1
        /\ \A row \in DOMAIN store :
              IsDetail(row) => row.day + DetailKeep + Span > panel.prunedOn + 1

\* An hour later it is the same day or the next.
LEMMA NextDay == ASSUME NEW t \in Nat PROVE Day(t + 1) \in {Day(t), Day(t) + 1}
  <1>1. HoursPerDay \in Nat /\ HoursPerDay > 0
    BY TrafficAssumption DEF TrafficAssumption
  <1>2. Day(t) \in Nat /\ Day(t + 1) \in Nat /\ Day(t) <= Day(t + 1)
    BY ClockLaws
  <1>3. /\ t = HoursPerDay * Day(t) + Hour(t) /\ Hour(t) \in 0 .. HoursPerDay - 1
        /\ t + 1 = HoursPerDay * Day(t + 1) + Hour(t + 1) /\ Hour(t + 1) \in 0 .. HoursPerDay - 1
    BY <1>1 DEF Day, Hour
  <1>4. ASSUME NEW h \in Nat, NEW d \in Nat, NEW e \in Nat, d > e + 1 PROVE h * d >= h * e + h + h
    <2>1. PICK x \in Nat : d = e + 2 + x
      <3>1. d - (e + 2) \in Nat /\ d = e + 2 + (d - (e + 2))
        BY <1>4
      <3> QED
        BY <3>1
    <2>2. h * d = h * e + h + h + h * x /\ h * x \in Nat /\ h * e \in Nat
      BY <1>4, <2>1
    <2> QED
      BY <1>4, <2>2
  <1>5. ASSUME Day(t + 1) > Day(t) + 1 PROVE FALSE
    <2> DEFINE m == HoursPerDay * Day(t)
               w == HoursPerDay * Day(t + 1)
    <2>1. w >= m + HoursPerDay + HoursPerDay
      BY <1>1, <1>2, <1>4, <1>5
    <2>2. m \in Nat /\ w \in Nat
      BY <1>1, <1>2
    <2>3. t + 1 >= w /\ t < m + HoursPerDay
      BY <1>1, <1>3, <2>2
    <2> HIDE DEF m, w
    <2> QED
      BY <1>1, <2>1, <2>2, <2>3
  <1> QED
    BY <1>2, <1>5

\* What a whole prune leaves, where it reached what there was.
LEMMA TidyPrune ==
    ASSUME clock \in Nat, Span > 0, NEW book, IsBook(book), NEW p, Prune(book, p, TRUE),
           \A row \in DOMAIN book : row.day \in Nat,
           \A row \in DOMAIN book : IsDetail(row) =>
              row.day + DetailKeep + (IF panel.wide THEN Wide ELSE Span) > Day(clock)
    PROVE  \A row \in DOMAIN store' :
              IsDetail(row) => row.day + DetailKeep + Span > Day(clock) + 1
  <1>1. DetailKeep \in Nat /\ Span \in Nat /\ Wide \in Nat /\ Day(clock) \in Nat
    BY TrafficAssumption, ClockLaws DEF TrafficAssumption
  <1>2. DOMAIN store' = DOMAIN book \ (OutOfTerm(book) \cup OldDetail(book))
    BY WithoutLaws DEF Prune
  <1>3. ASSUME NEW row \in DOMAIN store', IsDetail(row)
        PROVE  row.day + DetailKeep + Span > Day(clock) + 1
    <2>1. row \in DOMAIN book /\ row \notin OldDetail(book) /\ row.day \in Nat
      BY <1>2, <1>3
    <2>2. row.day + DetailKeep > Day(clock)
      BY <1>1, <1>3, <2>1 DEF OldDetail
    <2> QED
      BY <1>1, <2>1, <2>2
  <1> QED
    BY <1>3

\* What flush and prune set of the panel.
Rounded(rows) == [panel EXCEPT !.ticked = TRUE, !.pending = rows]
Swept(rows, day, n) == [Rounded(rows) EXCEPT !.prunedOn = day, !.prunedKeep = n, !.wide = FALSE]

LEMMA TidyShape ==
    ASSUME PanelShape, NEW rows, NEW day, NEW n
    PROVE  /\ Rounded(rows).prunedOn = panel.prunedOn /\ Rounded(rows).wide = panel.wide
           /\ Swept(rows, day, n).prunedOn = day /\ Swept(rows, day, n).wide = FALSE
  <1> DEFINE Fields == {"pc", "snap", "primed", "life", "last", "seen", "pending", "prunedOn", "prunedKeep",
                        "wide", "ticked"}
             p == Rounded(rows)
  <1>1. panel = [i \in Fields |-> panel[i]]
    BY DEF PanelShape
  <1>2. p = [i \in Fields |-> p[i]] /\ p.prunedOn = panel.prunedOn /\ p.wide = panel.wide
    BY <1>1 DEF Rounded
  <1> HIDE DEF p
  <1>3. Swept(rows, day, n) = [p EXCEPT !.prunedOn = day, !.prunedKeep = n, !.wide = FALSE]
    BY DEF Swept, p
  <1> QED
    BY <1>2, <1>3 DEF p

\* The detail is tidy when a process has started,
LEMMA TidyStart == ASSUME IInv, InReach, Span > 0, PanelStarts PROVE Tidy'
  <1>1. clock \in Nat /\ IsBook(store) /\ DOMAIN store \subseteq Entries /\ panel = Fresh
    BY DEF IInv, BooksInv, ReadingInv, PanelShape, PanelStarts
  <1>2. PICK done \in BOOLEAN : Prune(store, [Fresh EXCEPT !.pc = "idle"], done)
    BY DEF PanelStarts
  <1>3. /\ panel' = [[Fresh EXCEPT !.pc = "idle"] EXCEPT !.prunedOn = Day(clock), !.prunedKeep = keep,
                        !.wide = FALSE]
        /\ clock' = clock
    BY <1>2 DEF Prune, PanelStarts
  <1>4. panel'.wide = FALSE /\ panel'.prunedOn = Day(clock)
    BY <1>3 DEF Fresh
  <1>5. CASE done
    <2>1. panel.wide /\ panel.pc = "off"
      BY <1>1 DEF Fresh
    <2>2. \A row \in DOMAIN store : row.day \in Nat
      BY <1>1 DEF Entries
    <2>3. \A row \in DOMAIN store' : IsDetail(row) => row.day + DetailKeep + Span > Day(clock) + 1
      BY <1>1, <1>2, <1>5, <2>1, <2>2, TidyPrune DEF InReach
    <2> QED
      BY <1>1, <1>3, <1>4, <2>3, ClockLaws DEF Tidy
  <1>6. CASE ~done
    <2>1. neglected'
      BY <1>2, <1>6 DEF Prune
    <2> QED
      BY <2>1 DEF Tidy
  <1> QED
    BY <1>5, <1>6

\* and after every round of the timer,
LEMMA TidyTick == ASSUME IInv, InReach, Tidy, Span > 0, Tick PROVE Tidy'
  <1>1. /\ clock \in Nat /\ IsBook(store) /\ IsBook(panel.pending) /\ PanelShape
        /\ DOMAIN store \subseteq Entries /\ DOMAIN panel.pending \subseteq Entries
    BY DEF IInv, BooksInv, ReadingInv
  <1>2. DetailKeep \in Nat /\ Span \in Nat /\ Day(clock) \in Nat
    BY <1>1, TrafficAssumption, ClockLaws DEF TrafficAssumption
  <1> DEFINE Book(written) == IF written THEN Plus(store, panel.pending) ELSE store
             Refused(written) == IF written THEN Empty ELSE PutBack
             Later(written) == [panel EXCEPT !.ticked = TRUE, !.pending = Refused(written)]
             dueNow == panel.prunedOn # Day(clock) \/ panel.prunedKeep # keep
  <1>3. PICK written \in BOOLEAN, done \in BOOLEAN :
          IF dueNow THEN Prune(Book(written), Later(written), done)
          ELSE panel' = Later(written) /\ store' = Book(written) /\ UNCHANGED neglected
    BY Zenon DEF Tick
  <1>4. clock' = clock /\ panel.pc # "off"
    BY DEF Tick
  <1>5. IsBook(Book(written)) /\ DOMAIN Book(written) \subseteq DOMAIN store \cup DOMAIN panel.pending
    BY <1>1, PlusLaws
  <1>6. \A row \in DOMAIN Book(written) : row.day \in Nat
    BY <1>1, <1>5 DEF Entries
  <1>7. /\ Later(written).prunedOn = panel.prunedOn /\ Later(written).wide = panel.wide
        /\ Prune(Book(written), Later(written), done) => panel'.prunedOn = Day(clock) /\ ~panel'.wide
    <2> DEFINE rows == Refused(written)
    <2>1. Later(written) = Rounded(rows)
      BY DEF Rounded
    <2>2. Prune(Book(written), Later(written), done) => panel' = Swept(rows, Day(clock), keep)
      BY <2>1 DEF Prune, Swept
    <2> HIDE DEF rows, Later
    <2>3. /\ Rounded(rows).prunedOn = panel.prunedOn /\ Rounded(rows).wide = panel.wide
          /\ Swept(rows, Day(clock), keep).prunedOn = Day(clock)
          /\ Swept(rows, Day(clock), keep).wide = FALSE
      BY <1>1, TidyShape
    <2> QED
      BY <2>1, <2>2, <2>3
  <1> HIDE DEF Book, Later
  <1>8. CASE neglected
    <2>1. neglected'
      BY <1>3, <1>8 DEF Prune
    <2> QED
      BY <2>1 DEF Tidy
  <1>9. CASE ~neglected
    <2>1. /\ ~panel.wide /\ panel.prunedOn \in Nat
          /\ panel.prunedOn \in {Day(clock), Day(clock) - 1}
          /\ \A row \in DOMAIN store :
                IsDetail(row) => row.day + DetailKeep + Span > panel.prunedOn + 1
      BY <1>2, <1>4, <1>9 DEF Tidy
    <2>2. ASSUME NEW row \in DOMAIN Book(written), IsDetail(row)
          PROVE  /\ row.day + DetailKeep + Span > Day(clock)
                 /\ panel.prunedOn = Day(clock) => row.day + DetailKeep + Span > Day(clock) + 1
      <3>1. row.day \in Nat
        BY <1>6, <2>2
      <3>2. CASE row \in DOMAIN store
        BY <1>2, <2>1, <2>2, <3>1, <3>2
      <3>3. CASE row \in DOMAIN panel.pending
        BY <1>2, <2>2, <3>1, <3>3 DEF InReach
      <3> QED
        BY <1>5, <3>2, <3>3
    <2>3. CASE dueNow /\ done
      <3>1. Prune(Book(written), Later(written), TRUE)
        BY <1>3, <2>3
      <3>2. \A row \in DOMAIN store' : IsDetail(row) => row.day + DetailKeep + Span > Day(clock) + 1
        BY <1>1, <1>5, <1>6, <2>1, <2>2, <3>1, TidyPrune
      <3>3. panel'.prunedOn = Day(clock) /\ ~panel'.wide
        BY <1>7, <2>3, <3>1
      <3> QED
        BY <1>2, <1>4, <3>2, <3>3 DEF Tidy
    <2>4. CASE dueNow /\ ~done
      <3>1. neglected'
        BY <1>3, <2>4 DEF Prune
      <3> QED
        BY <3>1 DEF Tidy
    <2>5. CASE ~dueNow
      <3>1. panel' = Later(written) /\ store' = Book(written) /\ panel.prunedOn = Day(clock)
        BY <1>3, <2>5
      <3>2. panel'.prunedOn = Day(clock) /\ ~panel'.wide
        BY <1>7, <2>1, <3>1
      <3>3. \A row \in DOMAIN store' : IsDetail(row) => row.day + DetailKeep + Span > Day(clock) + 1
        BY <2>2, <3>1
      <3> QED
        BY <1>2, <1>4, <3>2, <3>3 DEF Tidy
    <2> QED
      BY <2>3, <2>4, <2>5
  <1> QED
    BY <1>8, <1>9 DEF Tidy

\* and nothing else ages it: no hour passes without a round while the panel is on.
LEMMA TidyStep == ASSUME IInv, InReach, Tidy, Span > 0, [Next]_vars PROVE Tidy'
  <1>1. clock \in Nat /\ PanelShape
    BY DEF IInv, BooksInv, ReadingInv
  <1>2. CASE KernelStarts \/ KernelDies \/ (\E c \in Conns : Pass(c) \/ Close(c)) \/ EditKeep \/ UNCHANGED vars
    <2>1. UNCHANGED <<panel, store, clock, neglected>>
      <3>1. CASE KernelStarts \/ KernelDies \/ EditKeep
        BY <3>1 DEF KernelStarts, KernelDies, EditKeep
      <3>2. CASE \E c \in Conns : Pass(c) \/ Close(c)
        BY <3>2 DEF Pass, Close
      <3>3. CASE UNCHANGED vars
        BY <3>3 DEF vars
      <3> QED
        BY <1>2, <3>1, <3>2, <3>3
    <2> QED
      BY <2>1 DEF Tidy
  <1>3. CASE HourPasses
    <2>1. /\ panel' = [panel EXCEPT !.ticked = FALSE] /\ clock' = clock + 1
          /\ panel.pc = "off" \/ panel.ticked
          /\ UNCHANGED <<store, neglected>>
      BY <1>3 DEF HourPasses
    <2>2. panel'.pc = panel.pc /\ panel'.wide = panel.wide /\ panel'.prunedOn = panel.prunedOn /\ ~panel'.ticked
      BY <1>1, <2>1 DEF PanelShape
    <2>3. Day(clock') \in {Day(clock), Day(clock) + 1}
      BY <1>1, <2>1, NextDay
    <2> QED
      BY <2>1, <2>2, <2>3 DEF Tidy
  <1>4. CASE Poll \/ Apply
    <2>1. UNCHANGED <<store, clock, neglected>> /\ panel.pc # "off"
      BY <1>4 DEF Poll, Apply
    <2>2. panel'.wide = panel.wide /\ panel'.prunedOn = panel.prunedOn /\ panel'.ticked = panel.ticked
      <3>1. CASE Poll
        BY <1>1, <3>1 DEF Poll, PanelShape
      <3>2. CASE Apply
        BY <1>1, <3>2 DEF Apply, PanelShape
      <3> QED
        BY <1>4, <3>1, <3>2
    <2> QED
      BY <2>1, <2>2 DEF Tidy
  <1>5. CASE Tick
    BY <1>5, TidyTick
  <1>6. CASE PanelStarts
    BY <1>6, TidyStart
  <1>7. CASE PanelDies
    <2>1. panel'.pc = "off"
      BY <1>7 DEF PanelDies, Fresh
    <2> QED
      BY <2>1 DEF Tidy
  <1> QED
    BY <1>2, <1>3, <1>4, <1>5, <1>6, <1>7 DEF Next

-----------------------------------------------------------------------------
(* The theorems. *)

\* No byte is counted twice, in the total or for a node: no restart of kernel or panel makes
\* applySnapshot book what an earlier process has booked or an earlier kernel has passed.
THEOREM CountedOnce == Spec => []NothingTwice
  <1>1. ASSUME IInv PROVE NothingTwice
    <2>1. /\ IsReading(kernel, panel) /\ IsBook(store) /\ IsBook(panel.pending) /\ Day(clock) \in Nat /\ TwiceInv
      BY <1>1, ClockLaws DEF IInv, ReadingInv, BooksInv
    <2>2. ASSUME NEW w
          PROVE  /\ SumOf([d \in Days |-> Held(Entry(d, w))], Days) = AllHeld(store, panel.pending, w, Day(clock))
                 /\ AllHeld(store, panel.pending, w, Day(clock)) \in Nat
      <3> DEFINE f == HeldOf(store, panel.pending, w)
                 g == [d \in Days |-> Held(Entry(d, w))]
      <3>1. IsFiniteSet(Days) /\ Days \subseteq Nat /\ AllHeld(store, panel.pending, w, Day(clock)) \in Nat
        BY <2>1, HeldType DEF Days
      <3>2. \A d \in Days : g[d] = f[d]
        BY <3>1 DEF HeldOf, Held
      <3> HIDE DEF f, g
      <3>3. SumOf(g, Days) = SumOf(f, Days)
        BY <3>1, <3>2, SumSame
      <3> QED
        BY <3>1, <3>3 DEF AllHeld, Days, f, g
    <2>3. \A d : Total(d) = Entry(d, "total") /\ \A n : OfNode(d, n) = Entry(d, n)
      BY DEF Total, OfNode, Entry
    <2>4. \A n : /\ Room(kernel, panel) \in Int /\ Room(kernel, panel) <= SumOf(kernel.bytes, Conns)
                 /\ RoomOf(kernel, panel, n) \in Int /\ RoomOf(kernel, panel, n) <= SumOf(kernel.bytes, Of(n))
                 /\ SumOf(kernel.bytes, Conns) \in Nat /\ SumOf(kernel.bytes, Of(n)) \in Nat
      BY <2>1, RoomType, BytesType DEF IsReading
    <2>5. SumOf([d \in Days |-> Held(Total(d))], Days) <= SumBytes(Conns)
      <3>1. [d \in Days |-> Held(Total(d))] = [d \in Days |-> Held(Entry(d, "total"))]
        BY <2>3
      <3>2. AllHeld(store, panel.pending, "total", Day(clock)) <= Room(kernel, panel)
        BY <2>1 DEF TwiceInv
      <3>3. AllHeld(store, panel.pending, "total", Day(clock)) <= SumBytes(Conns)
        <4>1. /\ Room(kernel, panel) \in Int /\ Room(kernel, panel) <= SumOf(kernel.bytes, Conns)
              /\ SumOf(kernel.bytes, Conns) \in Nat
          BY <2>4
        <4>2. AllHeld(store, panel.pending, "total", Day(clock)) \in Nat
          BY <2>2
        <4> DEFINE held == AllHeld(store, panel.pending, "total", Day(clock))
                   room == Room(kernel, panel)
                   sum == SumOf(kernel.bytes, Conns)
        <4> HIDE DEF held, room, sum
        <4>3. held <= sum
          BY <3>2, <4>1, <4>2 DEF held, room, sum
        <4> QED
          BY <4>3 DEF SumBytes, held, sum
      <3> QED
        BY <2>2, <3>1, <3>3
    <2>6. ASSUME NEW n \in Nodes \ {Loop}
          PROVE  SumOf([d \in Days |-> Held(OfNode(d, n))], Days) <= SumBytes({c \in Conns : Node[c] = n})
      <3>1. [d \in Days |-> Held(OfNode(d, n))] = [d \in Days |-> Held(Entry(d, n))]
        BY <2>3
      <3>2. AllHeld(store, panel.pending, n, Day(clock)) <= RoomOf(kernel, panel, n)
        BY <2>1 DEF TwiceInv, Real
      <3>3. AllHeld(store, panel.pending, n, Day(clock)) <= SumBytes({c \in Conns : Node[c] = n})
        <4>1. /\ RoomOf(kernel, panel, n) \in Int /\ RoomOf(kernel, panel, n) <= SumOf(kernel.bytes, Of(n))
              /\ SumOf(kernel.bytes, Of(n)) \in Nat
          BY <2>4
        <4>2. AllHeld(store, panel.pending, n, Day(clock)) \in Nat
          BY <2>2
        <4> DEFINE held == AllHeld(store, panel.pending, n, Day(clock))
                   room == RoomOf(kernel, panel, n)
                   sum == SumOf(kernel.bytes, Of(n))
        <4> HIDE DEF held, room, sum
        <4>3. held <= sum
          BY <3>2, <4>1, <4>2 DEF held, room, sum
        <4> QED
          BY <4>3 DEF SumBytes, Of, held, sum
      <3> QED
        BY <2>2, <3>1, <3>3
    <2> QED
      BY <2>5, <2>6 DEF NothingTwice
  <1> QED
    BY <1>1, Always, PTL

\* A day of the user's term holds exactly what was read on it, whatever flushes fail, prunes run
\* and processes die, up to what a death or the limit of flush took from pending.
THEOREM DaysAreExact == Spec => []Exact
  <1>1. ASSUME IInv PROVE Exact
    <2>1. DueInv /\ \A d \in InTerm : d \in Nat /\ d >= floor
      BY <1>1, ClockLaws DEF IInv, BooksInv, InTerm, Days
    <2> QED
      BY <2>1 DEF Exact, DueInv
  <1> QED
    BY <1>1, Always, PTL

\* The nodes of a day are within its total, the hours of a day and of a node add up to the
\* day, in the database as in what is still pending, whatever was refused, deleted or lost.
THEOREM BooksAgree == Spec => []AccountsAgree
  <1>1. ASSUME IInv PROVE TypeOK
    <2>1. /\ kernel.on \in BOOLEAN /\ kernel.life \in Nat /\ kernel.total \in Nat
          /\ kernel.conn \in [Conns -> {"new", "open", "gone"}] /\ kernel.bytes \in [Conns -> Nat]
      BY <1>1 DEF IInv, ReadingInv, IsReading, IsKernel
    <2>2. panel.pc \in {"off", "idle", "got"}
      BY <1>1 DEF IInv, ReadingInv, PanelShape
    <2>3. /\ panel.last \in Nat /\ IsBook(panel.seen) /\ DOMAIN panel.seen \subseteq Conns
      BY <1>1 DEF IInv, ReadingInv, IsReading, Behind
    <2>4. /\ IsBook(store) /\ IsBook(panel.pending) /\ clock \in Nat /\ keep \in Keeps /\ left \in [Counted -> Nat]
          /\ DOMAIN store \subseteq Entries /\ DOMAIN panel.pending \subseteq Entries
      BY <1>1 DEF IInv, BooksInv
    <2>5. IsBook(due)
      BY <1>1 DEF IInv, DueInv
    <2>6. \A book \in {store, panel.pending, panel.seen, due} : \A k \in DOMAIN book : book[k] \in Nat
      BY <2>3, <2>4, <2>5 DEF IsBook
    <2>7. \A row \in DOMAIN store \cup DOMAIN panel.pending :
             row.day \in Nat /\ row.what \in {"total", "hour"} \cup (Nodes \ {Loop})
      BY <2>4 DEF Entries, Real
    <2> QED
      BY <2>1, <2>2, <2>3, <2>4, <2>6, <2>7 DEF TypeOK
  <1>2. ASSUME IInv PROVE PartsWithinTotal
    <2>1. /\ IsBook(store) /\ IsBook(panel.pending)
          /\ Account(store, floor, Day(clock), unseen) /\ Account(panel.pending, floor, Day(clock), unseen)
      BY <1>2 DEF IInv, BooksInv, AccountInv
    <2> DEFINE p == Plus(store, panel.pending)
    <2>2. Account(p, floor, Day(clock), unseen)
      BY <2>1, AccountPlus
    <2>3. \A row : In(p, row) = Held(row)
      BY <2>1, PlusLaws DEF Held
    <2> HIDE DEF p
    <2>4. \A d \in InTerm : d \in Nat /\ d >= floor
      BY <1>2, ClockLaws DEF IInv, BooksInv, InTerm, Days
    <2>5. ASSUME ~unseen, NEW d \in InTerm
          PROVE  SumOf([n \in Nodes |-> Held(OfNode(d, n))], Nodes \ {Loop}) <= Held(Total(d))
      <3>1. PartsOf(p, d)
        BY <2>2, <2>4, <2>5 DEF Account
      <3>2. [n \in Nodes |-> In(p, OfNode(d, n))] = [n \in Nodes |-> Held(OfNode(d, n))]
        BY <2>3
      <3> QED
        BY <2>3, <3>1, <3>2 DEF PartsOf, Real
    <2> QED
      BY <2>5 DEF PartsWithinTotal
  <1>3. ASSUME IInv PROVE HoursAgree
    <2>1. Account(store, floor, Day(clock), unseen) /\ Account(panel.pending, floor, Day(clock), unseen)
      BY <1>3 DEF IInv, AccountInv
    <2>2. \A d \in InTerm : d \in Nat /\ d >= floor
      BY <1>3, ClockLaws DEF IInv, BooksInv, InTerm, Days
    <2>3. ASSUME NEW d \in InTerm, NEW book \in {store, panel.pending}
          PROVE  /\ HoursOf(book, d)
                 /\ d + DetailKeep > Day(clock) => \A n \in Real : DetailOf(book, d, n)
      BY <2>1, <2>2 DEF Account
    <2> QED
      BY <2>3 DEF HoursAgree, HoursOf, DetailOf, Real
  <1>4. IInv => AccountsAgree
    BY <1>1, <1>2, <1>3 DEF AccountsAgree
  <1> QED
    BY <1>4, Always, PTL

\* The detail by hour of the days past its term is gone after the prune of each day, for any
\* number of hours, absences of the panel and refused rows, as long as every absence is shorter
\* than the first prune of a process looks back and no row is refused until it is past its term:
\* the prune reaches a few days only (prune, hourPruneWide).
THEOREM DetailGoes == Span > 0 => (Spec /\ []InReach => []DetailTerm)
  <1> SUFFICES ASSUME Span > 0 PROVE Spec /\ []InReach => []DetailTerm
    OBVIOUS
  <1>1. Init => Tidy
    BY DEF Init, Tidy, Fresh
  <1>2. IInv /\ InReach /\ Tidy /\ [Next]_vars => Tidy'
    BY TidyStep
  <1>3. Tidy => DetailTerm
    BY DEF Tidy, DetailTerm
  <1> QED
    BY <1>1, <1>2, <1>3, Always, PTL DEF Spec
=============================================================================
