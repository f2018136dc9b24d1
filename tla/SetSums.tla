------------------------------ MODULE SetSums ------------------------------
(***************************************************************************)
(* What the sums the models are built from add up to: MapThenSumSet of a   *)
(* function over a finite set.  The sum of the community modules is an     *)
(* iteration that takes the elements out in the order CHOOSE picks them;   *)
(* here it is shown to exist, to be the only such iteration and not to     *)
(* depend on that order.  Everything is stated for a function F instead of *)
(* an operator, which the provers could not instantiate.                   *)
(*                                                                         *)
(* Then the first of a finite set, its least and greatest number, what a   *)
(* sequence is without one of its elements, and induction over 0..n for a  *)
(* set instead of a predicate.                                             *)
(***************************************************************************)
EXTENDS Integers, Sequences, FiniteSetsExt, FiniteSetTheorems, FunctionTheorems,
        SequenceTheorems, WellFoundedInduction, TLAPS

\* The sum of F[x] for the elements x of S.
Sum(F, S) == MapThenSumSet(LAMBDA x : F[x], S)

Pick(s) == CHOOSE x \in s : TRUE

\* iter holds the sum of F over every subset of S, by taking out elements.
Iterates(iter, F, S) ==
  iter = [s \in SUBSET S |-> IF s = {} THEN 0 ELSE F[Pick(s)] + iter[s \ {Pick(s)}]]

IntOn(F, S) == \A x \in S : F[x] \in Int

\* h names every element of T by one of S, and F gives it the value G gives.
Renames(h, S, T, F, G) ==
  /\ h \in [S -> T]
  /\ \A x, y \in S : h[x] = h[y] => x = y
  /\ \A y \in T : \E x \in S : h[x] = y
  /\ \A x \in S : F[x] = G[h[x]]

\* rest is s without its element at i.
Closes(rest, s, i) ==
  /\ Len(rest) = Len(s) - 1
  /\ \A j \in 1..(Len(s) - 1) : rest[j] = IF j < i THEN s[j] ELSE s[j + 1]

-----------------------------------------------------------------------------
\* Among sets of subsets of a finite set there is one without a smaller one.
LEMMA SmallestSubset ==
  ASSUME NEW S, IsFiniteSet(S), NEW B \in SUBSET SUBSET S, B # {}
  PROVE  \E m \in B : \A s \in B : s \subseteq m => s = m
<1>. DEFINE R == StrictSubsetOrdering(S)
<1>1. IsWellFoundedOn(R, SUBSET S)
  BY FS_StrictSubsetOrderingWellFounded, FS_FiniteSubsetsOfFinite
<1>2. PICK m \in B : \A s \in B : <<s, m>> \notin R
  <2>. HIDE DEF R
  <2>. QED
    BY <1>1, WFMin
<1>3. ASSUME NEW s \in B, s \subseteq m
      PROVE  s = m
  <2>1. <<s, m>> \in (SUBSET S) \X (SUBSET S)
    OBVIOUS
  <2>. QED
    BY <1>2, <1>3, <2>1 DEF StrictSubsetOrdering
<1>. QED
  BY <1>2, <1>3

LEMMA PickMember ==
  ASSUME NEW s, s # {}
  PROVE  Pick(s) \in s
  BY DEF Pick

\* Two iterations agree wherever both are defined.
LEMMA IterationsAgree ==
  ASSUME NEW S, NEW T, IsFiniteSet(S), NEW F, NEW G, NEW i, NEW j,
         \A x \in S \cap T : F[x] = G[x],
         Iterates(i, F, S), Iterates(j, G, T),
         NEW s \in (SUBSET S) \cap (SUBSET T)
  PROVE  i[s] = j[s]
<1>. DEFINE B == {t \in (SUBSET S) \cap (SUBSET T) : i[t] # j[t]}
<1>. SUFFICES ASSUME B # {} PROVE FALSE
  OBVIOUS
<1>1. B \in SUBSET SUBSET S
  OBVIOUS
<1>2. PICK m \in B : \A t \in B : t \subseteq m => t = m
  <2>. HIDE DEF B
  <2>. QED
    BY <1>1, SmallestSubset
<1>3. i[m] = (IF m = {} THEN 0 ELSE F[Pick(m)] + i[m \ {Pick(m)}])
  BY <1>2 DEF Iterates
<1>4. j[m] = (IF m = {} THEN 0 ELSE G[Pick(m)] + j[m \ {Pick(m)}])
  BY <1>2 DEF Iterates
<1>5. m # {}
  BY <1>2, <1>3, <1>4
<1>6. Pick(m) \in m
  BY <1>5, PickMember
<1>7. m \ {Pick(m)} \notin B
  BY <1>2, <1>6
<1>8. i[m \ {Pick(m)}] = j[m \ {Pick(m)}]
  BY <1>2, <1>7
<1>9. F[Pick(m)] = G[Pick(m)]
  BY <1>2, <1>6
<1>. QED
  BY <1>2, <1>3, <1>4, <1>5, <1>8, <1>9

\* The iteration over a finite set exists: where the smaller sets have theirs,
\* the values those give are one for the set.
LEMMA IterationExists ==
  ASSUME NEW S, IsFiniteSet(S), NEW F
  PROVE  \E iter : Iterates(iter, F, S)
<1>. DEFINE B == {s \in SUBSET S : ~\E iter : Iterates(iter, F, s)}
<1>. SUFFICES ASSUME B # {} PROVE FALSE
  <2>1. S \notin B
    OBVIOUS
  <2>. QED
    BY <2>1
<1>1. PICK m \in B : \A t \in B : t \subseteq m => t = m
  <2>1. B \in SUBSET SUBSET S
    OBVIOUS
  <2>. HIDE DEF B
  <2>. QED
    BY <2>1, SmallestSubset
<1>. DEFINE I(s) == CHOOSE iter : Iterates(iter, F, s)
            best == [s \in SUBSET m |->
                       IF s = {} THEN 0
                       ELSE F[Pick(s)] + I(s \ {Pick(s)})[s \ {Pick(s)}]]
<1>2. ASSUME NEW s \in SUBSET m, s # m
      PROVE  Iterates(I(s), F, s) /\ IsFiniteSet(s)
  <2>1. s \notin B /\ s \in SUBSET S
    BY <1>1, <1>2
  <2>2. \E iter : Iterates(iter, F, s)
    BY <2>1
  <2>3. IsFiniteSet(s)
    BY <2>1, FS_Subset
  <2>. QED
    BY <2>2, <2>3
<1>3. ASSUME NEW s \in SUBSET m, s # m
      PROVE  best[s] = I(s)[s]
  <2>. DEFINE rest == s \ {Pick(s)}
  <2>1. Iterates(I(s), F, s) /\ IsFiniteSet(s)
    BY <1>2, <1>3
  <2>2. I(s)[s] = (IF s = {} THEN 0 ELSE F[Pick(s)] + I(s)[rest])
    <3>. HIDE DEF I
    <3>. QED
      BY <2>1 DEF Iterates
  <2>3. best[s] = (IF s = {} THEN 0 ELSE F[Pick(s)] + I(rest)[rest])
    <3>. HIDE DEF I
    <3>. QED
      OBVIOUS
  <2>4. CASE s = {}
    <3>. HIDE DEF I, best
    <3>. QED
      BY <2>2, <2>3, <2>4
  <2>5. CASE s # {}
    <3>1. rest \in SUBSET m /\ rest # m /\ rest \in SUBSET s
      BY <2>5, PickMember
    <3>2. Iterates(I(rest), F, rest) /\ IsFiniteSet(rest)
      BY <1>2, <3>1
    <3>3. rest \in (SUBSET s) \cap (SUBSET rest)
      BY <3>1
    <3>4. I(s)[rest] = I(rest)[rest]
      <4>. HIDE DEF I, rest
      <4>. QED
        BY <2>1, <3>2, <3>3, IterationsAgree
    <3>. HIDE DEF I, best, rest
    <3>. QED
      BY <2>2, <2>3, <2>5, <3>4
  <2>. QED
    BY <2>4, <2>5
<1>4. ASSUME NEW s \in SUBSET m
      PROVE  best[s] = (IF s = {} THEN 0 ELSE F[Pick(s)] + best[s \ {Pick(s)}])
  <2>1. CASE s = {}
    BY <2>1
  <2>2. CASE s # {}
    <3>. DEFINE rest == s \ {Pick(s)}
    <3>1. rest \in SUBSET m /\ rest # m
      BY <2>2, PickMember
    <3>2. best[rest] = I(rest)[rest]
      BY <1>3, <3>1
    <3>3. best[s] = F[Pick(s)] + I(rest)[rest]
      <4>. HIDE DEF I
      <4>. QED
        BY <2>2
    <3>. HIDE DEF I, best
    <3>. QED
      BY <2>2, <3>2, <3>3
  <2>. QED
    BY <2>1, <2>2
<1>5. best = [s \in SUBSET m |-> best[s]]
  OBVIOUS
<1>6. Iterates(best, F, m)
  <2>. HIDE DEF best
  <2>. QED
    BY <1>4, <1>5 DEF Iterates
<1>. QED
  BY <1>1, <1>6

-----------------------------------------------------------------------------
\* Whatever iteration there is over S, its value on a subset is that subset's sum.
LEMMA SumOfIteration ==
  ASSUME NEW S, IsFiniteSet(S), NEW F, NEW iter, Iterates(iter, F, S), NEW T \in SUBSET S
  PROVE  iter[T] = Sum(F, T)
<1>. DEFINE I == CHOOSE it : Iterates(it, F, T)
<1>1. IsFiniteSet(T)
  BY FS_Subset
<1>2. \E it : Iterates(it, F, T)
  BY <1>1, IterationExists
<1>3. Iterates(I, F, T)
  BY <1>2
<1>4. Sum(F, T) = I[T]
  BY DEF Sum, MapThenSumSet, MapThenFoldSet, Iterates, Pick
<1>5. I[T] = iter[T]
  <2>1. T \in (SUBSET T) \cap (SUBSET S) /\ \A x \in T \cap S : F[x] = F[x]
    OBVIOUS
  <2>. HIDE DEF I
  <2>. QED
    BY <1>1, <1>3, <2>1, IterationsAgree
<1>. QED
  BY <1>4, <1>5

\* The sum over nothing is 0, and over something it unfolds at the picked element.
LEMMA SumAtPick ==
  ASSUME NEW S, IsFiniteSet(S), NEW F
  PROVE  Sum(F, S) = IF S = {} THEN 0 ELSE F[Pick(S)] + Sum(F, S \ {Pick(S)})
<1>1. PICK iter : Iterates(iter, F, S)
  BY IterationExists
<1>2. iter[S] = IF S = {} THEN 0 ELSE F[Pick(S)] + iter[S \ {Pick(S)}]
  BY <1>1 DEF Iterates
<1>3. PICK rest : rest = S \ {Pick(S)}
  OBVIOUS
<1>4. iter[S] = Sum(F, S) /\ iter[rest] = Sum(F, rest)
  BY <1>1, <1>3, SumOfIteration
<1>. QED
  BY <1>2, <1>3, <1>4

LEMMA SumEmpty ==
  ASSUME NEW F
  PROVE  Sum(F, {}) = 0
  BY SumAtPick, FS_EmptySet

\* A sum of integers is an integer.
LEMMA SumInt ==
  ASSUME NEW S, IsFiniteSet(S), NEW F, IntOn(F, S)
  PROVE  Sum(F, S) \in Int
<1>. DEFINE B == {s \in SUBSET S : Sum(F, s) \notin Int}
<1>. SUFFICES ASSUME B # {} PROVE FALSE
  OBVIOUS
<1>1. PICK m \in B : \A t \in B : t \subseteq m => t = m
  <2>1. B \in SUBSET SUBSET S
    OBVIOUS
  <2>. HIDE DEF B
  <2>. QED
    BY <2>1, SmallestSubset
<1>2. IsFiniteSet(m)
  BY FS_Subset
<1>3. Sum(F, m) = IF m = {} THEN 0 ELSE F[Pick(m)] + Sum(F, m \ {Pick(m)})
  BY <1>2, SumAtPick
<1>4. m # {}
  BY <1>1, <1>3
<1>5. Pick(m) \in m
  BY <1>4, PickMember
<1>6. m \ {Pick(m)} \notin B
  BY <1>1, <1>5
<1>7. Sum(F, m \ {Pick(m)}) \in Int /\ F[Pick(m)] \in Int
  BY <1>5, <1>6 DEF IntOn
<1>8. Sum(F, m) \in Int
  BY <1>3, <1>4, <1>7
<1>. QED
  BY <1>1, <1>8

\* The order does not matter: the sum unfolds at any element.
LEMMA SumRemove ==
  ASSUME NEW S, IsFiniteSet(S), NEW F, IntOn(F, S), NEW x \in S
  PROVE  Sum(F, S) = F[x] + Sum(F, S \ {x})
<1>. DEFINE B == {s \in SUBSET S : \E y \in s : Sum(F, s) # F[y] + Sum(F, s \ {y})}
<1>. SUFFICES ASSUME B # {} PROVE FALSE
  <2>1. S \notin B
    OBVIOUS
  <2>. QED
    BY <2>1
<1>1. PICK m \in B : \A t \in B : t \subseteq m => t = m
  <2>1. B \in SUBSET SUBSET S
    OBVIOUS
  <2>. HIDE DEF B
  <2>. QED
    BY <2>1, SmallestSubset
<1>2. PICK y \in m : Sum(F, m) # F[y] + Sum(F, m \ {y})
  BY <1>1
<1>3. PICK c : c = Pick(m)
  OBVIOUS
<1>4. c \in m
  BY <1>2, <1>3, PickMember
<1>5. Sum(F, m) = F[c] + Sum(F, m \ {c})
  <2>1. IsFiniteSet(m)
    BY FS_Subset
  <2>. QED
    BY <1>2, <1>3, <2>1, SumAtPick
<1>6. c # y
  BY <1>2, <1>5
<1>7. PICK a : a = m \ {c}
  OBVIOUS
<1>8. PICK b : b = m \ {y}
  OBVIOUS
<1>9. PICK r : r = m \ {c, y}
  OBVIOUS
<1>10. a \notin B /\ b \notin B /\ a \in SUBSET S /\ b \in SUBSET S /\ r \in SUBSET S
  BY <1>1, <1>2, <1>4, <1>7, <1>8, <1>9
<1>11. Sum(F, a) = F[y] + Sum(F, r)
  <2>1. y \in a /\ a \ {y} = r
    BY <1>2, <1>6, <1>7, <1>9
  <2>. QED
    BY <1>10, <2>1
<1>12. Sum(F, b) = F[c] + Sum(F, r)
  <2>1. c \in b /\ b \ {c} = r
    BY <1>4, <1>6, <1>8, <1>9
  <2>. QED
    BY <1>10, <2>1
<1>13. F[c] \in Int /\ F[y] \in Int /\ Sum(F, r) \in Int
  <2>1. IsFiniteSet(r) /\ IntOn(F, r)
    BY <1>10, FS_Subset DEF IntOn
  <2>. QED
    BY <1>1, <1>2, <1>4, <2>1, SumInt DEF IntOn
<1>. HIDE DEF B
<1>14. Sum(F, m) = F[c] + Sum(F, a) /\ Sum(F, m) # F[y] + Sum(F, b)
  BY <1>2, <1>5, <1>7, <1>8
<1>. QED
  BY <1>11, <1>12, <1>13, <1>14

\* One element more.
LEMMA SumAdd ==
  ASSUME NEW S, IsFiniteSet(S), NEW x, x \notin S, NEW F, IntOn(F, S), F[x] \in Int
  PROVE  Sum(F, S \cup {x}) = Sum(F, S) + F[x]
<1>1. PICK more : more = S \cup {x}
  OBVIOUS
<1>2. IsFiniteSet(more) /\ IntOn(F, more) /\ x \in more /\ more \ {x} = S
  BY <1>1, FS_AddElement DEF IntOn
<1>3. Sum(F, more) = F[x] + Sum(F, S)
  <2>1. Sum(F, more) = F[x] + Sum(F, more \ {x})
    BY <1>2, SumRemove
  <2>. QED
    BY <1>2, <2>1, Zenon
<1>4. Sum(F, S) \in Int
  BY SumInt
<1>5. Sum(F, more) = Sum(F, S) + F[x]
  BY <1>3, <1>4 DEF IntOn
<1>. QED
  BY <1>1, <1>5

\* The sum depends on the values summed only.
LEMMA SumSame ==
  ASSUME NEW S, IsFiniteSet(S), NEW F, NEW G, \A x \in S : F[x] = G[x]
  PROVE  Sum(F, S) = Sum(G, S)
<1>1. PICK i : Iterates(i, F, S)
  BY IterationExists
<1>2. PICK j : Iterates(j, G, S)
  BY IterationExists
<1>3. i[S] = j[S]
  <2>1. PICK s : s = S
    OBVIOUS
  <2>2. s \in (SUBSET S) \cap (SUBSET S) /\ \A x \in S \cap S : F[x] = G[x]
    BY <2>1
  <2>3. i[s] = j[s]
    BY <1>1, <1>2, <2>2, IterationsAgree
  <2>. QED
    BY <2>1, <2>3
<1>. QED
  BY <1>1, <1>2, <1>3, SumOfIteration

\* Summing larger values gives no less.
LEMMA SumMonotone ==
  ASSUME NEW S, IsFiniteSet(S), NEW F, NEW G, IntOn(F, S), IntOn(G, S),
         \A x \in S : F[x] <= G[x]
  PROVE  Sum(F, S) <= Sum(G, S)
<1>. DEFINE B == {s \in SUBSET S : ~(Sum(F, s) <= Sum(G, s))}
<1>. SUFFICES ASSUME B # {} PROVE FALSE
  <2>1. S \notin B
    OBVIOUS
  <2>. QED
    BY <2>1
<1>1. PICK m \in B : \A t \in B : t \subseteq m => t = m
  <2>1. B \in SUBSET SUBSET S
    OBVIOUS
  <2>. HIDE DEF B
  <2>. QED
    BY <2>1, SmallestSubset
<1>2. IsFiniteSet(m)
  BY FS_Subset
<1>3. PICK rest : rest = m \ {Pick(m)}
  OBVIOUS
<1>4. /\ Sum(F, m) = IF m = {} THEN 0 ELSE F[Pick(m)] + Sum(F, rest)
      /\ Sum(G, m) = IF m = {} THEN 0 ELSE G[Pick(m)] + Sum(G, rest)
  BY <1>2, <1>3, SumAtPick
<1>5. m # {}
  <2>1. ~(Sum(F, m) <= Sum(G, m))
    BY <1>1
  <2>. HIDE DEF B
  <2>. QED
    BY <1>4, <2>1
<1>6. Pick(m) \in m
  BY <1>5, PickMember
<1>7. rest \notin B /\ rest \in SUBSET S
  BY <1>1, <1>3, <1>6
<1>8. Sum(F, rest) \in Int /\ Sum(G, rest) \in Int
  <2>1. IsFiniteSet(rest) /\ IntOn(F, rest) /\ IntOn(G, rest)
    BY <1>7, FS_Subset DEF IntOn
  <2>. QED
    BY <2>1, SumInt
<1>9. /\ F[Pick(m)] \in Int /\ G[Pick(m)] \in Int /\ F[Pick(m)] <= G[Pick(m)]
      /\ Sum(F, rest) <= Sum(G, rest)
      /\ ~(Sum(F, m) <= Sum(G, m))
  BY <1>1, <1>6, <1>7 DEF IntOn
<1>. HIDE DEF B
<1>. QED
  BY <1>4, <1>5, <1>8, <1>9

\* Summing the same values under other names gives the same.
LEMMA SumRename ==
  ASSUME NEW S, IsFiniteSet(S), NEW T, IsFiniteSet(T), NEW F, NEW G, IntOn(G, T),
         NEW h, Renames(h, S, T, F, G)
  PROVE  Sum(F, S) = Sum(G, T)
<1>0. /\ h \in [S -> T]
      /\ \A x, y \in S : h[x] = h[y] => x = y
      /\ \A y \in T : \E x \in S : h[x] = y
      /\ \A x \in S : F[x] = G[h[x]]
  BY DEF Renames
<1>. DEFINE Image(s) == {h[x] : x \in s}
            B == {s \in SUBSET S : Sum(F, s) # Sum(G, Image(s))}
<1>1. Image(S) = T
  BY <1>0
<1>. SUFFICES ASSUME B # {} PROVE FALSE
  <2>1. S \notin B
    OBVIOUS
  <2>2. Sum(F, S) = Sum(G, Image(S))
    <3>. HIDE DEF Image
    <3>. QED
      BY <2>1
  <2>. QED
    BY <1>1, <2>2, Zenon
<1>2. PICK m \in B : \A t \in B : t \subseteq m => t = m
  <2>1. B \in SUBSET SUBSET S
    OBVIOUS
  <2>. HIDE DEF B
  <2>. QED
    BY <2>1, SmallestSubset
<1>3. PICK im : im = Image(m)
  OBVIOUS
<1>4. Sum(F, m) # Sum(G, im)
  BY <1>2, <1>3, Zenon
<1>5. IsFiniteSet(m)
  BY FS_Subset
<1>6. IsFiniteSet(im) /\ im \in SUBSET T
  <2>1. im \in SUBSET T
    BY <1>0, <1>2, <1>3
  <2>. QED
    BY <2>1, FS_Subset
<1>7. CASE m = {}
  <2>1. im = {}
    BY <1>3, <1>7
  <2>. QED
    BY <1>4, <1>7, <2>1, SumEmpty
<1>8. CASE m # {}
  <2>1. PICK x \in m : TRUE
    BY <1>8
  <2>2. PICK rest : rest = m \ {x}
    OBVIOUS
  <2>3. PICK ir : ir = Image(rest)
    OBVIOUS
  <2>4. ir = im \ {h[x]} /\ h[x] \in im
    BY <1>0, <1>2, <1>3, <2>1, <2>2, <2>3
  <2>5. rest \notin B /\ rest \in SUBSET S
    BY <1>2, <2>1, <2>2
  <2>6. Sum(F, rest) = Sum(G, ir)
    BY <2>3, <2>5, Zenon
  <2>7. IntOn(G, im) /\ IntOn(F, m)
    BY <1>0, <1>2, <1>6 DEF IntOn
  <2>8. Sum(G, im) = G[h[x]] + Sum(G, ir)
    BY <1>6, <2>4, <2>7, SumRemove
  <2>9. Sum(F, m) = F[x] + Sum(F, rest)
    BY <1>5, <2>1, <2>2, <2>7, SumRemove
  <2>10. F[x] = G[h[x]]
    BY <1>0, <1>2, <2>1
  <2>. QED
    BY <1>4, <2>6, <2>8, <2>9, <2>10, Zenon
<1>. QED
  BY <1>7, <1>8

LEMMA SumOfZeros ==
  ASSUME NEW S, IsFiniteSet(S), NEW F, \A x \in S : F[x] = 0
  PROVE  Sum(F, S) = 0
<1>1. PICK iter : iter = [s \in SUBSET S |-> 0]
  OBVIOUS
<1>2. ASSUME NEW s \in SUBSET S
      PROVE  iter[s] = IF s = {} THEN 0 ELSE F[Pick(s)] + iter[s \ {Pick(s)}]
  <2>1. CASE s = {}
    BY <1>1, <2>1
  <2>2. CASE s # {}
    <3>1. F[Pick(s)] = 0
      BY <2>2, PickMember
    <3>2. PICK rest : rest = s \ {Pick(s)}
      OBVIOUS
    <3>3. iter[rest] = 0 /\ iter[s] = 0
      BY <1>1, <3>2
    <3>. QED
      BY <2>2, <3>1, <3>2, <3>3
  <2>. QED
    BY <2>1, <2>2
<1>3. iter = [s \in SUBSET S |-> iter[s]]
  BY <1>1
<1>4. Iterates(iter, F, S)
  BY <1>2, <1>3 DEF Iterates
<1>5. S \in SUBSET S /\ iter[S] = 0
  BY <1>1
<1>. QED
  BY <1>4, <1>5, SumOfIteration

\* A sum of naturals is at least 0.
LEMMA SumNat ==
  ASSUME NEW S, IsFiniteSet(S), NEW F, \A x \in S : F[x] \in Nat
  PROVE  Sum(F, S) \in Nat
<1>1. PICK G : G = [x \in S |-> 0]
  OBVIOUS
<1>2. IntOn(F, S) /\ IntOn(G, S) /\ \A x \in S : G[x] <= F[x]
  BY <1>1 DEF IntOn
<1>3. Sum(F, S) \in Int /\ Sum(G, S) <= Sum(F, S)
  BY <1>2, SumInt, SumMonotone
<1>4. Sum(G, S) = 0
  BY <1>1, SumOfZeros
<1>. QED
  BY <1>3, <1>4

-----------------------------------------------------------------------------
\* A finite set that is not empty has an element nothing in it comes before, for
\* any order.
LEMMA FirstOfFinite ==
  ASSUME NEW T, IsFiniteSet(T), T # {}, NEW R,
         \A x \in T : <<x, x>> \notin R,
         \A x, y, z \in T : <<x, y>> \in R /\ <<y, z>> \in R => <<x, z>> \in R
  PROVE  \E x \in T : \A y \in T : <<y, x>> \notin R
<1>1. PICK B : B = {s \in SUBSET T : \E x \in T : s = {y \in T : <<y, x>> \in R}}
  OBVIOUS
<1>2. B # {}
  <2>1. PICK x \in T : TRUE
    OBVIOUS
  <2>2. {y \in T : <<y, x>> \in R} \in B
    BY <1>1
  <2>. QED
    BY <2>2
<1>3. PICK m \in B : \A s \in B : s \subseteq m => s = m
  <2>1. B \in SUBSET SUBSET T
    BY <1>1
  <2>. QED
    BY <1>2, <2>1, SmallestSubset
<1>4. PICK x \in T : m = {y \in T : <<y, x>> \in R}
  BY <1>1
<1>5. ASSUME NEW y \in T, <<y, x>> \in R
      PROVE  FALSE
  <2>1. PICK s : s = {z \in T : <<z, y>> \in R}
    OBVIOUS
  <2>2. s \in B /\ y \notin s /\ y \in m
    BY <1>1, <1>4, <1>5, <2>1
  <2>3. s \subseteq m
    BY <1>4, <1>5, <2>1
  <2>. QED
    BY <1>3, <2>2, <2>3
<1>. QED
  BY <1>5

\* Among finitely many numbers one is the greatest.
LEMMA GreatestNumber ==
  ASSUME NEW T, IsFiniteSet(T), T # {}, T \subseteq Int
  PROVE  \E x \in T : \A y \in T : y <= x
<1>1. PICK R : R = {p \in T \X T : p[1] > p[2]}
  OBVIOUS
<1>2. \A x, y \in T : <<x, y>> \in R <=> x > y
  BY <1>1
<1>3. \A x \in T : <<x, x>> \notin R
  BY <1>2
<1>4. \A x, y, z \in T : <<x, y>> \in R /\ <<y, z>> \in R => <<x, z>> \in R
  BY <1>2
<1>5. PICK x \in T : \A y \in T : <<y, x>> \notin R
  BY <1>3, <1>4, FirstOfFinite
<1>6. ASSUME NEW y \in T
      PROVE  y <= x
  <2>1. x \in Int /\ y \in Int /\ <<y, x>> \notin R
    BY <1>5
  <2>. QED
    BY <1>2, <2>1
<1>. QED
  BY <1>6

\* Among finitely many numbers one is the least.
LEMMA LeastNumber ==
  ASSUME NEW T, IsFiniteSet(T), T # {}, T \subseteq Int
  PROVE  \E x \in T : \A y \in T : x <= y
<1>1. PICK R : R = {p \in T \X T : p[1] < p[2]}
  OBVIOUS
<1>2. \A x, y \in T : <<x, y>> \in R <=> x < y
  BY <1>1
<1>3. \A x \in T : <<x, x>> \notin R
  BY <1>2
<1>4. \A x, y, z \in T : <<x, y>> \in R /\ <<y, z>> \in R => <<x, z>> \in R
  BY <1>2
<1>5. PICK x \in T : \A y \in T : <<y, x>> \notin R
  BY <1>3, <1>4, FirstOfFinite
<1>6. ASSUME NEW y \in T
      PROVE  x <= y
  <2>1. x \in Int /\ y \in Int /\ <<y, x>> \notin R
    BY <1>5
  <2>. QED
    BY <1>2, <2>1
<1>. QED
  BY <1>6

\* The values of a sequence are finitely many.
LEMMA ValuesFinite ==
  ASSUME NEW V, NEW w \in Seq(V)
  PROVE  IsFiniteSet({w[i] : i \in DOMAIN w})
<1>1. PICK T : T = {w[i] : i \in DOMAIN w}
  OBVIOUS
<1>2. IsFiniteSet(DOMAIN w)
  <2>1. DOMAIN w = 1..Len(w) /\ Len(w) \in Int /\ 1 \in Int
    OBVIOUS
  <2>. QED
    BY <2>1, FS_Interval
<1>3. w \in Surjection(DOMAIN w, T)
  BY <1>1 DEF Surjection
<1>. QED
  BY <1>1, <1>2, <1>3, FS_Surjection

\* A sequence that loses the element at i is still one.
LEMMA WithoutOne ==
  ASSUME NEW S, NEW s \in Seq(S), NEW i \in 1..Len(s),
         NEW rest, rest = SubSeq(s, 1, i - 1) \o SubSeq(s, i + 1, Len(s))
  PROVE  rest \in Seq(S) /\ Closes(rest, s, i)
<1>. DEFINE a == SubSeq(s, 1, i - 1)
            b == SubSeq(s, i + 1, Len(s))
<1>1. /\ a \in Seq(S)
      /\ Len(a) = i - 1
      /\ \A j \in 1..(i - 1) : a[j] = s[j]
  BY SubSeqProperties
<1>2. /\ b \in Seq(S)
      /\ Len(b) = Len(s) - i
      /\ \A j \in 1..(Len(s) - i) : b[j] = s[i + j]
  BY SubSeqProperties
<1>3. rest = a \o b
  OBVIOUS
<1>. HIDE DEF a, b
<1>4. /\ a \o b \in Seq(S)
      /\ Len(a \o b) = Len(a) + Len(b)
      /\ \A j \in 1..(Len(a) + Len(b)) :
           (a \o b)[j] = IF j <= Len(a) THEN a[j] ELSE b[j - Len(a)]
  BY <1>1, <1>2, ConcatProperties
<1>5. ASSUME NEW j \in 1..(Len(s) - 1)
      PROVE  (a \o b)[j] = IF j < i THEN s[j] ELSE s[j + 1]
  <2>1. CASE j < i
    BY <1>1, <1>2, <1>4, <2>1
  <2>2. CASE ~(j < i)
    <3>1. j - (i - 1) \in 1..(Len(s) - i) /\ i + (j - (i - 1)) = j + 1
      BY <2>2
    <3>2. (a \o b)[j] = b[j - (i - 1)]
      BY <1>1, <1>2, <1>4, <2>2
    <3>. QED
      BY <1>2, <2>2, <3>1, <3>2
  <2>. QED
    BY <2>1, <2>2
<1>6. rest \in Seq(S) /\ Len(rest) = Len(s) - 1
  <2>1. Len(a) + Len(b) = Len(s) - 1
    BY <1>1, <1>2
  <2>. QED
    BY <1>3, <1>4, <2>1
<1>7. \A j \in 1..(Len(s) - 1) : rest[j] = IF j < i THEN s[j] ELSE s[j + 1]
  BY <1>3, <1>5
<1>. QED
  BY <1>6, <1>7 DEF Closes

\* What holds at zero and is handed upwards holds up to n.
LEMMA Upwards ==
  ASSUME NEW n \in Nat, NEW S, 0 \in S, \A k \in 1..n : k - 1 \in S => k \in S
  PROVE  0..n \subseteq S
<1>1. PICK T : T = {k \in 0..n : k \notin S}
  OBVIOUS
<1>2. IsFiniteSet(T)
  <2>1. 0 \in Int /\ n \in Int
    OBVIOUS
  <2>2. IsFiniteSet(0..n)
    BY <2>1, FS_Interval
  <2>3. T \subseteq 0..n
    BY <1>1
  <2>. QED
    BY <2>2, <2>3, FS_Subset
<1>3. ASSUME T # {}
      PROVE  FALSE
  <2>1. T \subseteq Int
    BY <1>1
  <2>2. PICK m \in T : \A k \in T : m <= k
    BY <1>2, <1>3, <2>1, LeastNumber
  <2>3. m \in 1..n
    BY <1>1, <2>2
  <2>4. m - 1 \notin T
    BY <2>1, <2>2, <2>3
  <2>5. m - 1 \in S
    BY <1>1, <2>3, <2>4
  <2>. QED
    BY <1>1, <2>2, <2>3, <2>5
<1>. QED
  BY <1>1, <1>3
=============================================================================
