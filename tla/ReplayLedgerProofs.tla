-------------------------- MODULE ReplayLedgerProofs --------------------------
(***************************************************************************)
(* Proofs about what a replay job spends and when it is retried: the       *)
(* budget ledger adds up and can always be read back, and no attempt is    *)
(* begun that may not be repeated or cannot finish in time.  Committed,    *)
(* the sums of BudgetIsConserved and the exponential delay are defined by  *)
(* recursion; what is needed of them is proved by induction on their       *)
(* length, size or index.                                                  *)
(***************************************************************************)
EXTENDS ReplayJobProofs, FiniteSetTheorems, WellFoundedInduction

------------------------------------------------------------------------------
(* Induction *)

\* A set of naturals with 0 that is closed under successor is all of them:
\* induction, from the library's theorem that < is well-founded.
LEMMA SetInduction ==
    ASSUME NEW T \in SUBSET Nat, 0 \in T, \A n \in T : n + 1 \in T
    PROVE  \A n \in Nat : n \in T
<1> DEFINE R == OpToRel(<, Nat)
           U == Nat \ T
<1>1. IsWellFoundedOn(R, Nat)
  BY NatLessThanWellFounded DEF OpToRel
<1>2. \A y \in Nat, x \in Nat : y < x => <<y, x>> \in R
  BY DEF OpToRel
<1> HIDE DEF R
<1>3. ASSUME U # {} PROVE FALSE
  <2>1. U \subseteq Nat
    OBVIOUS
  <2>2. PICK x \in U : \A y \in U : ~ (<<y, x>> \in R)
    BY <1>1, <1>3, <2>1, WFMin
  <2>3. x \in Nat /\ x # 0 /\ x - 1 \in Nat /\ x - 1 < x
    BY <2>2
  <2>4. x - 1 \in T
    BY <2>2, <2>3, <1>2
  <2> QED BY <2>3, <2>4, <2>2
<1> QED BY <1>3

------------------------------------------------------------------------------
(* The fold of the ledger *)

\* g holds what is committed after each of the first n entries.
Folds(l, n, g) ==
    g = [i \in 0..n |-> IF i = 0 THEN emptyReplayBudgetAmounts
                        ELSE ApplyEntry(g[i - 1], l[i])]

\* The recursion that defines Committed has a solution.
LEMMA FoldExists ==
    ASSUME NEW l
    PROVE  \A n \in Nat : \E g : Folds(l, n, g)
<1> DEFINE T == {n \in Nat : \E g : Folds(l, n, g)}
<1>1. 0 \in T
  <2> DEFINE g == [i \in 0..0 |-> emptyReplayBudgetAmounts]
  <2>1. Folds(l, 0, g)
    BY DEF Folds
  <2> QED BY <2>1
<1>2. ASSUME NEW n \in T PROVE n + 1 \in T
  <2>1. n \in Nat
    OBVIOUS
  <2>2. PICK g : Folds(l, n, g)
    OBVIOUS
  <2> DEFINE h == [i \in 0..(n + 1) |-> IF i = n + 1 THEN ApplyEntry(g[n], l[n + 1]) ELSE g[i]]
  <2>3. ASSUME NEW i \in 0..(n + 1)
        PROVE  h[i] = IF i = 0 THEN emptyReplayBudgetAmounts ELSE ApplyEntry(h[i - 1], l[i])
    <3>1. CASE i = n + 1
      <4>1. h[i] = ApplyEntry(g[n], l[n + 1]) /\ h[i - 1] = g[n] /\ i # 0
        BY <2>1, <3>1
      <4> QED BY <3>1, <4>1
    <3>2. CASE i # n + 1
      <4>1. i \in 0..n /\ h[i] = g[i] /\ (i # 0 => h[i - 1] = g[i - 1])
        BY <2>1, <3>2
      <4>2. g[i] = IF i = 0 THEN emptyReplayBudgetAmounts ELSE ApplyEntry(g[i - 1], l[i])
        BY <2>2, <4>1 DEF Folds
      <4> QED BY <4>1, <4>2
    <3> QED BY <3>1, <3>2
  <2>4. h = [i \in 0..(n + 1) |-> h[i]]
    OBVIOUS
  <2> HIDE DEF h
  <2>5. Folds(l, n + 1, h)
    BY <2>3, <2>4 DEF Folds
  <2> QED BY <2>1, <2>5
<1> HIDE DEF T
<1>3. \A n \in Nat : n \in T
  <2>1. T \in SUBSET Nat
    BY DEF T
  <2> QED BY <1>1, <1>2, <2>1, SetInduction
<1> QED BY <1>3 DEF T

\* It has only one: two ledgers that agree so far have committed the same.
LEMMA FoldAgrees ==
    ASSUME NEW l, NEW m, NEW j \in Nat, NEW k \in Nat,
           NEW g, Folds(l, j, g), NEW h, Folds(m, k, h),
           NEW n \in Nat, n <= j, n <= k, \A i \in 1..n : l[i] = m[i]
    PROVE  g[n] = h[n]
<1> DEFINE T == {i \in Nat : i <= n => g[i] = h[i]}
<1>1. 0 \in T
  BY DEF Folds
<1>2. ASSUME NEW i \in T PROVE i + 1 \in T
  <2>1. i \in Nat /\ (i <= n => g[i] = h[i])
    OBVIOUS
  <2>2. CASE i + 1 <= n
    <3>1. i + 1 \in 0..j /\ i + 1 \in 0..k /\ i + 1 # 0 /\ (i + 1) - 1 = i /\ i + 1 \in 1..n
      BY <2>1, <2>2
    <3>2. g[i + 1] = ApplyEntry(g[i], l[i + 1])
      BY <3>1 DEF Folds
    <3>3. h[i + 1] = ApplyEntry(h[i], m[i + 1])
      BY <3>1 DEF Folds
    <3>4. g[i] = h[i] /\ l[i + 1] = m[i + 1]
      BY <2>1, <2>2, <3>1
    <3> QED BY <2>1, <3>2, <3>3, <3>4
  <2> QED BY <2>1, <2>2
<1> HIDE DEF T
<1>3. \A i \in Nat : i \in T
  <2>1. T \in SUBSET Nat
    BY DEF T
  <2> QED BY <1>1, <1>2, <2>1, SetInduction
<1> QED BY <1>3 DEF T

\* Committed is that solution's last value.
LEMMA CommittedFolds ==
    ASSUME NEW l, Len(l) \in Nat
    PROVE  \E g : Folds(l, Len(l), g) /\ Committed(l) = g[Len(l)]
<1>1. PICK g : Folds(l, Len(l), g)
  BY FoldExists
<1> QED BY <1>1 DEF Folds, Committed

\* An empty ledger commits nothing; an entry is applied to what is committed
\* before it.
LEMMA CommittedSteps ==
    /\ Committed(<<>>) = emptyReplayBudgetAmounts
    /\ \A S : \A l \in Seq(S), e \in S :
         Committed(Append(l, e)) = ApplyEntry(Committed(l), e)
<1>1. Committed(<<>>) = emptyReplayBudgetAmounts
  <2>1. Len(<<>>) = 0 /\ Len(<<>>) \in Nat
    OBVIOUS
  <2>2. PICK g : Folds(<<>>, 0, g) /\ Committed(<<>>) = g[0]
    BY <2>1, CommittedFolds
  <2> QED BY <2>2 DEF Folds
<1>2. ASSUME NEW S, NEW l \in Seq(S), NEW e \in S
      PROVE  Committed(Append(l, e)) = ApplyEntry(Committed(l), e)
  <2> DEFINE m == Append(l, e)
             n == Len(l)
  <2>1. /\ n \in Nat /\ Len(m) = n + 1 /\ Len(m) \in Nat
        /\ m[n + 1] = e /\ \A i \in 1..n : l[i] = m[i]
    OBVIOUS
  <2> HIDE DEF m, n
  <2>2. PICK g : Folds(l, n, g) /\ Committed(l) = g[n]
    BY <2>1, CommittedFolds DEF n
  <2>3. PICK h : Folds(m, n + 1, h) /\ Committed(m) = h[n + 1]
    BY <2>1, CommittedFolds
  <2>4. g[n] = h[n]
    BY <2>1, <2>2, <2>3, FoldAgrees
  <2>5. h[n + 1] = ApplyEntry(h[n], m[n + 1])
    <3>1. n + 1 \in 0..(n + 1) /\ n + 1 # 0 /\ (n + 1) - 1 = n
      BY <2>1
    <3> QED BY <2>3, <3>1 DEF Folds
  <2> QED BY <2>1, <2>2, <2>3, <2>4, <2>5 DEF m
<1> QED BY <1>1, <1>2

------------------------------------------------------------------------------
(* Sums over finite sets *)

\* The element a sum over a set takes next.
Pick(s) == CHOOSE x \in s : TRUE

\* The subsets of S with at most n elements.
Layer(S, n) == {s \in SUBSET S : Cardinality(s) <= n}

\* total holds the sum of v over each of the sets in C.
Sums(v, C, total) ==
    total = [s \in C |-> IF s = {} THEN 0 ELSE v[Pick(s)] + total[s \ {Pick(s)}]]

\* What is left of a set after one element is taken.
LEMMA PickLeaves ==
    ASSUME NEW S, IsFiniteSet(S), NEW s \in SUBSET S
    PROVE  /\ IsFiniteSet(s) /\ Cardinality(s) \in Nat
           /\ s = {} => Cardinality(s) = 0
           /\ s # {} => /\ Pick(s) \in s
                        /\ Cardinality(s) # 0
           /\ \A x \in s : /\ s \ {x} \in SUBSET S
                           /\ Cardinality(s \ {x}) = Cardinality(s) - 1
<1>1. IsFiniteSet(s)
  BY FS_Subset
<1>2. Cardinality(s) \in Nat
  BY <1>1, FS_CardinalityType
<1>3. s = {} <=> Cardinality(s) = 0
  BY <1>1, FS_EmptySet
<1>4. \A x \in s : Cardinality(s \ {x}) = Cardinality(s) - 1
  BY <1>1, FS_RemoveElement
<1>5. s # {} => Pick(s) \in s
  BY DEF Pick
<1> QED BY <1>1, <1>2, <1>3, <1>4, <1>5

\* The sums exist.
LEMMA SumsExist ==
    ASSUME NEW S, IsFiniteSet(S), NEW v
    PROVE  \E total : Sums(v, SUBSET S, total)
<1> DEFINE T == {n \in Nat : \E total : Sums(v, Layer(S, n), total)}
<1>1. 0 \in T
  <2> DEFINE total == [s \in Layer(S, 0) |-> 0]
  <2>1. \A s \in Layer(S, 0) : s = {}
    BY PickLeaves DEF Layer
  <2>2. Sums(v, Layer(S, 0), total)
    BY <2>1 DEF Sums
  <2> QED BY <2>2
<1>2. ASSUME NEW n \in T PROVE n + 1 \in T
  <2>1. n \in Nat
    OBVIOUS
  <2>2. PICK g : Sums(v, Layer(S, n), g)
    OBVIOUS
  <2> DEFINE h == [s \in Layer(S, n + 1) |->
                     IF s = {} THEN 0 ELSE v[Pick(s)] + g[s \ {Pick(s)}]]
  <2>3. \A s \in Layer(S, n) : s \in Layer(S, n + 1) /\ h[s] = g[s]
    <3>1. \A s \in Layer(S, n) : s \in Layer(S, n + 1)
      BY <2>1, PickLeaves DEF Layer
    <3> QED BY <2>2, <3>1 DEF Sums
  <2>4. ASSUME NEW s \in Layer(S, n + 1), s # {} PROVE s \ {Pick(s)} \in Layer(S, n)
    BY <2>1, <2>4, PickLeaves DEF Layer
  <2>5. Sums(v, Layer(S, n + 1), h)
    <3>1. ASSUME NEW s \in Layer(S, n + 1)
          PROVE  h[s] = IF s = {} THEN 0 ELSE v[Pick(s)] + h[s \ {Pick(s)}]
      BY <2>3, <2>4
    <3>2. h = [s \in Layer(S, n + 1) |-> h[s]]
      OBVIOUS
    <3> HIDE DEF h
    <3> QED BY <3>1, <3>2 DEF Sums
  <2> QED BY <2>1, <2>5
<1> HIDE DEF T
<1>3. \A n \in Nat : n \in T
  <2>1. T \in SUBSET Nat
    BY DEF T
  <2> QED BY <1>1, <1>2, <2>1, SetInduction
<1>4. Cardinality(S) \in Nat /\ Layer(S, Cardinality(S)) = SUBSET S
  <2>1. Cardinality(S) \in Nat
    BY FS_CardinalityType
  <2>2. \A s \in SUBSET S : Cardinality(s) <= Cardinality(S)
    BY FS_Subset
  <2> QED BY <2>1, <2>2 DEF Layer
<1> QED BY <1>3, <1>4 DEF T

\* f sums the naturals v over the subsets of the finite set S.
Totals(S, v, f) == IsFiniteSet(S) /\ v \in [S -> Nat] /\ Sums(v, SUBSET S, f)

\* v and w have the same values on c.
SameOn(v, w, c) == \A x \in c : v[x] = w[x]

\* Sums of the same values are the same, whatever larger set they are part of.
LEMMA TotalsAgree ==
    ASSUME NEW S, NEW v, NEW f, Totals(S, v, f), NEW R, NEW w, NEW g, Totals(R, w, g),
           NEW c, c \in SUBSET S, c \in SUBSET R, SameOn(v, w, c)
    PROVE  f[c] = g[c]
<1>0. IsFiniteSet(S) /\ Sums(v, SUBSET S, f) /\ Sums(w, SUBSET R, g)
  BY DEF Totals
<1> DEFINE Same(s) == s \in SUBSET R /\ \A x \in s : v[x] = w[x]
           T == {n \in Nat : \A s \in SUBSET S : Cardinality(s) <= n /\ Same(s) => f[s] = g[s]}
<1>1. 0 \in T
  <2>1. ASSUME NEW s \in SUBSET S, Cardinality(s) <= 0, Same(s) PROVE f[s] = g[s]
    <3>1. s = {}
      BY <1>0, <2>1, PickLeaves
    <3> QED BY <1>0, <2>1, <3>1 DEF Sums
  <2> QED BY <2>1
<1>2. ASSUME NEW n \in T PROVE n + 1 \in T
  <2>1. n \in Nat /\ \A s \in SUBSET S : Cardinality(s) <= n /\ Same(s) => f[s] = g[s]
    OBVIOUS
  <2>2. ASSUME NEW s \in SUBSET S, Cardinality(s) <= n + 1, Same(s) PROVE f[s] = g[s]
    <3>1. CASE s = {}
      BY <1>0, <2>2, <3>1 DEF Sums
    <3>2. CASE s # {}
      <4> DEFINE r == s \ {Pick(s)}
      <4>1. /\ Pick(s) \in s /\ r \in SUBSET S /\ r \in SUBSET R /\ Same(r)
            /\ Cardinality(r) <= n
        BY <1>0, <2>1, <2>2, <3>2, PickLeaves
      <4>2. f[r] = g[r]
        BY <2>1, <4>1
      <4>3. f[s] = v[Pick(s)] + f[r]
        BY <1>0, <3>2 DEF Sums
      <4>4. g[s] = w[Pick(s)] + g[r]
        BY <1>0, <2>2, <3>2 DEF Sums
      <4> QED BY <2>2, <4>1, <4>2, <4>3, <4>4
    <3> QED BY <3>1, <3>2
  <2> QED BY <2>1, <2>2
<1> HIDE DEF T
<1>3. \A n \in Nat : n \in T
  <2>1. T \in SUBSET Nat
    BY DEF T
  <2> QED BY <1>1, <1>2, <2>1, SetInduction
<1>4. Cardinality(c) \in Nat /\ Same(c)
  BY <1>0, PickLeaves DEF SameOn
<1> QED BY <1>3, <1>4 DEF T

\* A sum of naturals is a natural.
LEMMA SumsType ==
    ASSUME NEW S, IsFiniteSet(S), NEW v \in [S -> Nat], NEW f, Sums(v, SUBSET S, f)
    PROVE  \A s \in SUBSET S : f[s] \in Nat
<1> DEFINE T == {n \in Nat : \A s \in SUBSET S : Cardinality(s) <= n => f[s] \in Nat}
<1>1. 0 \in T
  <2>1. ASSUME NEW s \in SUBSET S, Cardinality(s) <= 0 PROVE f[s] \in Nat
    <3>1. s = {}
      BY <2>1, PickLeaves
    <3> QED BY <2>1, <3>1 DEF Sums
  <2> QED BY <2>1
<1>2. ASSUME NEW n \in T PROVE n + 1 \in T
  <2>1. n \in Nat /\ \A s \in SUBSET S : Cardinality(s) <= n => f[s] \in Nat
    OBVIOUS
  <2>2. ASSUME NEW s \in SUBSET S, Cardinality(s) <= n + 1 PROVE f[s] \in Nat
    <3>1. CASE s = {}
      BY <2>2, <3>1 DEF Sums
    <3>2. CASE s # {}
      <4> DEFINE r == s \ {Pick(s)}
      <4>1. Pick(s) \in S /\ r \in SUBSET S /\ Cardinality(r) <= n
        BY <2>1, <2>2, <3>2, PickLeaves
      <4>2. f[r] \in Nat /\ v[Pick(s)] \in Nat
        BY <2>1, <4>1
      <4>3. f[s] = v[Pick(s)] + f[r]
        BY <3>2 DEF Sums
      <4> QED BY <4>2, <4>3
    <3> QED BY <3>1, <3>2
  <2> QED BY <2>1, <2>2
<1> HIDE DEF T
<1>3. \A n \in Nat : n \in T
  <2>1. T \in SUBSET Nat
    BY DEF T
  <2> QED BY <1>1, <1>2, <2>1, SetInduction
<1>4. ASSUME NEW s \in SUBSET S PROVE f[s] \in Nat
  <2>1. Cardinality(s) \in Nat
    BY PickLeaves
  <2> QED BY <1>3, <2>1 DEF T
<1> QED BY <1>4

\* One more element adds its value, whichever element the sum takes next.
LEMMA SumsAdd ==
    ASSUME NEW S, IsFiniteSet(S), NEW v \in [S -> Nat], NEW f, Sums(v, SUBSET S, f)
    PROVE  \A s \in SUBSET S, x \in S : x \notin s => f[s \cup {x}] = f[s] + v[x]
<1> DEFINE T == {n \in Nat : \A s \in SUBSET S : Cardinality(s) <= n =>
                               \A x \in S \ s : f[s \cup {x}] = f[s] + v[x]}
<1>0. \A s \in SUBSET S : f[s] \in Nat
  BY SumsType
<1>1. ASSUME NEW s \in SUBSET S, NEW x \in S \ s, Pick(s \cup {x}) = x
      PROVE  f[s \cup {x}] = f[s] + v[x]
  <2>1. s \cup {x} \in SUBSET S /\ s \cup {x} # {} /\ (s \cup {x}) \ {x} = s
    OBVIOUS
  <2>2. f[s \cup {x}] = v[x] + f[s]
    BY <1>1, <2>1 DEF Sums
  <2> QED BY <1>0, <2>2
<1>2. 0 \in T
  <2>1. ASSUME NEW s \in SUBSET S, Cardinality(s) <= 0, NEW x \in S \ s
        PROVE  f[s \cup {x}] = f[s] + v[x]
    <3>1. s = {}
      BY <2>1, PickLeaves
    <3>2. Pick(s \cup {x}) = x
      BY <3>1 DEF Pick
    <3> QED BY <1>1, <3>2
  <2> QED BY <2>1
<1>3. ASSUME NEW n \in T PROVE n + 1 \in T
  <2>1. n \in Nat /\ \A s \in SUBSET S : Cardinality(s) <= n =>
                       \A x \in S \ s : f[s \cup {x}] = f[s] + v[x]
    OBVIOUS
  <2>2. ASSUME NEW s \in SUBSET S, Cardinality(s) <= n + 1, NEW x \in S \ s
        PROVE  f[s \cup {x}] = f[s] + v[x]
    <3> DEFINE u == s \cup {x}
               y == Pick(u)
               r == s \ {y}
    <3>1. CASE y = x
      BY <1>1, <3>1
    <3>2. CASE y # x
      <4>1. u \in SUBSET S /\ u # {}
        OBVIOUS
      <4>2. y \in s
        <5>1. y \in u
          BY DEF Pick
        <5> QED BY <3>2, <5>1
      <4>3. /\ r \in SUBSET S /\ Cardinality(r) <= n
            /\ x \in S \ r /\ y \in S \ r
            /\ u \ {y} = r \cup {x} /\ r \cup {y} = s
        <5>0. Cardinality(s) \in Nat /\ \A z \in s : Cardinality(s \ {z}) = Cardinality(s) - 1
          BY PickLeaves
        <5>1. Cardinality(r) = Cardinality(s) - 1
          BY <4>2, <5>0
        <5>2. Cardinality(r) <= n
          BY <2>1, <2>2, <5>0, <5>1
        <5> QED BY <3>2, <4>2, <5>2
      <4>4. f[u] = v[y] + f[u \ {y}]
        BY <4>1 DEF Sums
      <4>5. f[r \cup {x}] = f[r] + v[x]
        BY <2>1, <4>3
      <4>6. f[r \cup {y}] = f[r] + v[y]
        BY <2>1, <4>3
      <4>7. f[r] \in Nat /\ v[x] \in Nat /\ v[y] \in Nat
        BY <1>0, <4>2, <4>3
      <4> HIDE DEF u, y, r
      <4>8. f[u] = v[y] + (f[r] + v[x]) /\ f[s] = f[r] + v[y]
        BY <4>3, <4>4, <4>5, <4>6
      <4>9. f[u] = f[s] + v[x]
        BY <4>7, <4>8
      <4> QED BY <4>9 DEF u
    <3> QED BY <3>1, <3>2
  <2> QED BY <2>1, <2>2
<1> HIDE DEF T
<1>4. \A n \in Nat : n \in T
  <2>1. T \in SUBSET Nat
    BY DEF T
  <2> QED BY <1>2, <1>3, <2>1, SetInduction
<1>5. ASSUME NEW s \in SUBSET S, NEW x \in S \ s PROVE f[s \cup {x}] = f[s] + v[x]
  <2>1. Cardinality(s) \in Nat
    BY PickLeaves
  <2> QED BY <1>4, <2>1 DEF T
<1> QED BY <1>5

\* The facts above about such sums.
LEMMA TotalsRules ==
    ASSUME NEW S, NEW v, NEW f, Totals(S, v, f)
    PROVE  /\ \A s \in SUBSET S : f[s] \in Nat
           /\ \A s \in SUBSET S, x \in S : x \notin s => f[s \cup {x}] = f[s] + v[x]
<1>1. IsFiniteSet(S) /\ v \in [S -> Nat] /\ Sums(v, SUBSET S, f)
  BY DEF Totals
<1>2. \A s \in SUBSET S : f[s] \in Nat
  BY <1>1, SumsType
<1>3. ASSUME NEW s \in SUBSET S, NEW x \in S, x \notin s PROVE f[s \cup {x}] = f[s] + v[x]
  BY <1>1, <1>3, SumsAdd
<1> QED BY <1>2, <1>3

\* A sum over one more element.
LEMMA TotalsGrow ==
    ASSUME NEW S, NEW v, NEW f, Totals(S, v, f), NEW R, NEW w, NEW g, Totals(R, w, g),
           NEW e, e \notin S, R = S \cup {e}, \A x \in S : v[x] = w[x]
    PROVE  g[R] = f[S] + w[e]
<1>1. S \in SUBSET R /\ e \in R /\ S \in SUBSET S /\ SameOn(v, w, S)
  BY DEF SameOn
<1>2. f[S] = g[S]
  BY <1>1, TotalsAgree
<1>3. g[S \cup {e}] = g[S] + w[e]
  BY <1>1, TotalsRules
<1> QED BY <1>2, <1>3

\* A sum of which one value changes.
LEMMA TotalsChange ==
    ASSUME NEW S, NEW v, NEW f, Totals(S, v, f), NEW w, NEW g, Totals(S, w, g),
           NEW e \in S, \A x \in S : x # e => v[x] = w[x]
    PROVE  /\ f[S] \in Nat /\ g[S] \in Nat /\ v[e] \in Nat /\ w[e] \in Nat
           /\ f[S] >= v[e]
           /\ g[S] = (f[S] - v[e]) + w[e]
<1> DEFINE r == S \ {e}
<1>1. r \in SUBSET S /\ e \notin r /\ r \cup {e} = S /\ SameOn(v, w, r)
  BY DEF SameOn
<1> HIDE DEF r
<1>2. f[r] = g[r]
  BY <1>1, TotalsAgree
<1>3. f[S] = f[r] + v[e]
  BY <1>1, TotalsRules
<1>4. g[S] = g[r] + w[e]
  BY <1>1, TotalsRules
<1>5. f[r] \in Nat /\ g[r] \in Nat
  BY <1>1, TotalsRules
<1>6. v[e] \in Nat /\ w[e] \in Nat
  BY DEF Totals
<1> QED BY <1>2, <1>3, <1>4, <1>5, <1>6

------------------------------------------------------------------------------
(* The ledger adds up *)

LedgerEntry == ReservationEntry \cup ReconciliationEntry

\* Held, for any ledger.
SettledIn(l, r, d) ==
    {e \in Reconciliations(l) : e.reservationId = r.reservationId /\ e.actual[d] # None}

HeldIn(l, r, d) ==
    IF SettledIn(l, r, d) = {} THEN r.reserved[d]
    ELSE Pick(SettledIn(l, r, d)).actual[d]

HeldTotal(l, d) == MapThenSumSet(LAMBDA r : HeldIn(l, r, d), Reservations(l))

OverrunTotal(l, d) == MapThenSumSet(LAMBDA e : e.overrun[d], Reconciliations(l))

\* What an append does to the parts of a ledger.
LEMMA AppendEntries ==
    ASSUME NEW l \in Seq(LedgerEntry), NEW e \in LedgerEntry
    PROVE  /\ Entries(Append(l, e)) = Entries(l) \cup {e}
           /\ e \in ReservationEntry =>
                /\ Reservations(Append(l, e)) = Reservations(l) \cup {e}
                /\ Reconciliations(Append(l, e)) = Reconciliations(l)
           /\ e \in ReconciliationEntry =>
                /\ Reservations(Append(l, e)) = Reservations(l)
                /\ Reconciliations(Append(l, e)) = Reconciliations(l) \cup {e}
<1> DEFINE m == Append(l, e)
<1>1. /\ Len(l) \in Nat /\ DOMAIN l = 1..Len(l) /\ DOMAIN m = 1..(Len(l) + 1)
      /\ m[Len(l) + 1] = e /\ \A i \in 1..Len(l) : m[i] = l[i]
  OBVIOUS
<1> HIDE DEF m
<1>2. Entries(m) = Entries(l) \cup {e}
  BY <1>1 DEF Entries
<1>3. /\ e \in ReservationEntry => e.entryType = "reservation"
      /\ e \in ReconciliationEntry => e.entryType = "reconciliation"
  BY DEF ReservationEntry, ReconciliationEntry
<1> QED BY <1>2, <1>3 DEF Reservations, Reconciliations, m

\* A ledger has finitely many entries, of two kinds.
LEMMA LedgerParts ==
    ASSUME NEW l \in Seq(LedgerEntry)
    PROVE  /\ Reservations(l) \subseteq ReservationEntry
           /\ Reconciliations(l) \subseteq ReconciliationEntry
           /\ IsFiniteSet(Reservations(l))
           /\ IsFiniteSet(Reconciliations(l))
<1>1. Entries(l) \subseteq LedgerEntry
  BY DEF Entries
<1>2. IsFiniteSet(Entries(l))
  <2>1. DOMAIN l = 1..Len(l) /\ Len(l) \in Nat
    OBVIOUS
  <2>2. IsFiniteSet(1..Len(l))
    BY <2>1, FS_Interval
  <2>3. l \in [DOMAIN l -> Entries(l)]
    BY <2>1 DEF Entries
  <2>4. \A y \in Entries(l) : \E i \in DOMAIN l : l[i] = y
    BY DEF Entries
  <2>5. l \in Surjection(DOMAIN l, Entries(l))
    BY <2>3, <2>4 DEF Surjection
  <2> QED BY <2>1, <2>2, <2>5, FS_Surjection
<1>3. Reservations(l) \subseteq Entries(l) /\ Reconciliations(l) \subseteq Entries(l)
  BY DEF Reservations, Reconciliations
<1>4. IsFiniteSet(Reservations(l)) /\ IsFiniteSet(Reconciliations(l))
  BY <1>2, <1>3, FS_Subset
<1>5. /\ \A e \in ReservationEntry : e.entryType = "reservation"
      /\ \A e \in ReconciliationEntry : e.entryType = "reconciliation"
  BY DEF ReservationEntry, ReconciliationEntry
<1> QED BY <1>1, <1>3, <1>4, <1>5 DEF Reservations, Reconciliations, LedgerEntry

\* What a reservation holds is an amount.
LEMMA HeldType ==
    ASSUME NEW l \in Seq(LedgerEntry), NEW r \in ReservationEntry, NEW d \in Dimensions
    PROVE  HeldIn(l, r, d) \in Nat
<1>1. r.reserved[d] \in Nat
  BY BudgetAssumption DEF ReservationEntry, Amounts
<1>2. ASSUME NEW e \in SettledIn(l, r, d) PROVE e.actual[d] \in Nat
  <2>1. e \in ReconciliationEntry /\ e.actual[d] # None
    BY LedgerParts DEF SettledIn
  <2>2. e.actual \in [Dimensions -> 0..MaxAccounting \cup {None}]
    BY <2>1 DEF ReconciliationEntry, Usage
  <2>3. e.actual[d] \in 0..MaxAccounting \cup {None}
    BY <2>2
  <2> QED BY <2>1, <2>3, BudgetAssumption
<1>3. SettledIn(l, r, d) # {} => Pick(SettledIn(l, r, d)) \in SettledIn(l, r, d)
  BY DEF Pick
<1> QED BY <1>1, <1>2, <1>3 DEF HeldIn

\* What the entries of a ledger hold, and what they report as overrun.
Holds(l, d) == [r \in Reservations(l) |-> HeldIn(l, r, d)]

Exceeds(l, d) == [e \in Reconciliations(l) |-> e.overrun[d]]

\* The two totals are sums of these.
LEMMA HeldTotalSums ==
    ASSUME NEW l \in Seq(LedgerEntry), NEW d \in Dimensions
    PROVE  \E f : Totals(Reservations(l), Holds(l, d), f) /\ HeldTotal(l, d) = f[Reservations(l)]
<1> DEFINE S == Reservations(l)
           v == Holds(l, d)
           Solves(f) == f = [s \in SUBSET S |->
                               IF s = {} THEN 0
                               ELSE HeldIn(l, CHOOSE x \in s : TRUE, d)
                                      + f[s \ {CHOOSE x \in s : TRUE}]]
<1>1. ASSUME NEW f PROVE Sums(v, SUBSET S, f) <=> Solves(f)
  <2>1. \A s \in SUBSET S : s # {} => Pick(s) \in S /\ v[Pick(s)] = HeldIn(l, Pick(s), d)
    BY DEF Pick, Holds
  <2> HIDE DEF v
  <2>2. ASSUME NEW s \in SUBSET S
        PROVE  (IF s = {} THEN 0 ELSE v[Pick(s)] + f[s \ {Pick(s)}])
                 = IF s = {} THEN 0 ELSE HeldIn(l, Pick(s), d) + f[s \ {Pick(s)}]
    BY <2>1
  <2>3. [s \in SUBSET S |-> IF s = {} THEN 0 ELSE v[Pick(s)] + f[s \ {Pick(s)}]]
          = [s \in SUBSET S |-> IF s = {} THEN 0 ELSE HeldIn(l, Pick(s), d) + f[s \ {Pick(s)}]]
    BY <2>2
  <2> QED BY <2>3 DEF Sums, Pick
<1>2. \E f : Solves(f)
  BY <1>1, SumsExist, LedgerParts
<1>3. PICK f : Solves(f) /\ HeldTotal(l, d) = f[S]
  BY <1>2 DEF HeldTotal, MapThenSumSet, MapThenFoldSet
<1>4. v \in [S -> Nat] /\ IsFiniteSet(S)
  <2>1. \A r \in S : HeldIn(l, r, d) \in Nat
    BY HeldType, LedgerParts
  <2> QED BY <2>1, LedgerParts DEF Holds
<1> QED BY <1>1, <1>3, <1>4 DEF Totals

LEMMA OverrunTotalSums ==
    ASSUME NEW l \in Seq(LedgerEntry), NEW d \in Dimensions,
           \A e \in Reconciliations(l) : e.overrun[d] \in Nat
    PROVE  \E f : /\ Totals(Reconciliations(l), Exceeds(l, d), f)
                  /\ OverrunTotal(l, d) = f[Reconciliations(l)]
<1> DEFINE S == Reconciliations(l)
           v == Exceeds(l, d)
           Solves(f) == f = [s \in SUBSET S |->
                               IF s = {} THEN 0
                               ELSE (CHOOSE x \in s : TRUE).overrun[d]
                                      + f[s \ {CHOOSE x \in s : TRUE}]]
<1>1. ASSUME NEW f PROVE Sums(v, SUBSET S, f) <=> Solves(f)
  <2>1. \A s \in SUBSET S : s # {} => Pick(s) \in S /\ v[Pick(s)] = Pick(s).overrun[d]
    BY DEF Pick, Exceeds
  <2> HIDE DEF v
  <2>2. ASSUME NEW s \in SUBSET S
        PROVE  (IF s = {} THEN 0 ELSE v[Pick(s)] + f[s \ {Pick(s)}])
                 = IF s = {} THEN 0 ELSE Pick(s).overrun[d] + f[s \ {Pick(s)}]
    BY <2>1
  <2>3. [s \in SUBSET S |-> IF s = {} THEN 0 ELSE v[Pick(s)] + f[s \ {Pick(s)}]]
          = [s \in SUBSET S |-> IF s = {} THEN 0 ELSE Pick(s).overrun[d] + f[s \ {Pick(s)}]]
    BY <2>2
  <2> QED BY <2>3 DEF Sums, Pick
<1>2. \E f : Solves(f)
  BY <1>1, SumsExist, LedgerParts
<1>3. PICK f : Solves(f) /\ OverrunTotal(l, d) = f[S]
  BY <1>2 DEF OverrunTotal, MapThenSumSet, MapThenFoldSet
<1>4. v \in [S -> Nat] /\ IsFiniteSet(S)
  BY LedgerParts DEF Exceeds
<1> QED BY <1>1, <1>3, <1>4 DEF Totals

\* What LedgerReadable says of an entry and the ledger before it.
EntryReads(earlier, entry) ==
    LET before == Committed(earlier)
    IN  /\ ApplyEntry(before, entry) \in Amounts
        /\ entry.entryType = "reservation" =>
             /\ entry.committedBefore = before
             /\ \A e \in Reservations(earlier) : e.reservationId # entry.reservationId
        /\ entry.entryType = "reconciliation" =>
             /\ entry.reservationId \in OpenReservations(earlier)
             /\ \E e \in Reservations(earlier) : /\ e.reservationId = entry.reservationId
                                                 /\ sameFence(e.fence, entry.fence)
             /\ \A d \in Dimensions : entry.released[d] <= before[d]

Readable(l) == \A i \in DOMAIN l : EntryReads(SubSeq(l, 1, i - 1), l[i])

\* A ledger: what identifiers occur in it, what it has committed, and that it
\* can be read back.
SoundLedger(l) ==
    /\ \A e, f \in Reservations(l) : e.reservationId = f.reservationId => e = f
    /\ \A e \in Reconciliations(l) : \E r \in Reservations(l) : r.reservationId = e.reservationId
    /\ \A e \in Reconciliations(l) : \A d \in Dimensions : e.overrun[d] \in Nat
    /\ Committed(l) \in Amounts
    /\ \A d \in Dimensions : Committed(l)[d] = HeldTotal(l, d)
    /\ Readable(l)

\* A ledger is readable if it was before its last entry and that entry is.
LEMMA ReadableAppend ==
    ASSUME NEW l \in Seq(LedgerEntry), NEW e \in LedgerEntry, Readable(l), EntryReads(l, e)
    PROVE  Readable(Append(l, e))
<1> DEFINE m == Append(l, e)
           n == Len(l)
<1>1. /\ n \in Nat /\ DOMAIN l = 1..n /\ DOMAIN m = 1..(n + 1)
      /\ m[n + 1] = e /\ \A i \in 1..n : m[i] = l[i]
  OBVIOUS
<1>2. SubSeq(m, 1, n) = l
  OBVIOUS
<1>3. \A i \in 1..n : SubSeq(m, 1, i - 1) = SubSeq(l, 1, i - 1)
  OBVIOUS
<1> HIDE DEF m, n
<1>4. ASSUME NEW i \in 1..(n + 1) PROVE EntryReads(SubSeq(m, 1, i - 1), m[i])
  <2>1. CASE i = n + 1
    <3>1. i - 1 = n
      BY <2>1, <1>1
    <3> QED BY <2>1, <3>1, <1>1, <1>2
  <2>2. CASE i \in 1..n
    BY <2>2, <1>1, <1>3 DEF Readable
  <2> QED BY <1>1, <2>1, <2>2
<1> QED BY <1>1, <1>4 DEF Readable, m

\* An empty ledger is sound.
LEMMA EmptyLedger ==
    /\ SoundLedger(<<>>)
    /\ \A d \in Dimensions : Committed(<<>>)[d] = 0 /\ OverrunTotal(<<>>, d) = 0
<1>1. /\ <<>> \in Seq(LedgerEntry) /\ Entries(<<>>) = {}
      /\ Committed(<<>>) = [d \in Dimensions |-> 0]
  BY CommittedSteps DEF Entries, emptyReplayBudgetAmounts
<1>2. Reservations(<<>>) = {} /\ Reconciliations(<<>>) = {}
  BY <1>1 DEF Reservations, Reconciliations
<1>3. ASSUME NEW d \in Dimensions PROVE HeldTotal(<<>>, d) = 0 /\ OverrunTotal(<<>>, d) = 0
  <2>1. PICK f : Totals({}, Holds(<<>>, d), f) /\ HeldTotal(<<>>, d) = f[{}]
    BY <1>1, <1>2, HeldTotalSums
  <2>2. PICK g : Totals({}, Exceeds(<<>>, d), g) /\ OverrunTotal(<<>>, d) = g[{}]
    BY <1>1, <1>2, OverrunTotalSums
  <2> QED BY <2>1, <2>2 DEF Totals, Sums
<1>4. Committed(<<>>) \in Amounts
  BY <1>1, BudgetAssumption DEF Amounts
<1>5. Readable(<<>>)
  BY DEF Readable
<1> QED BY <1>1, <1>2, <1>3, <1>4, <1>5 DEF SoundLedger

\* reserveReplayBudget keeps a ledger sound: the new reservation holds what it
\* reserves, and no reconciliation is about it yet.
LEMMA ReservedSound ==
    ASSUME NEW l \in Seq(LedgerEntry), SoundLedger(l), NEW e \in ReservationEntry,
           e.committedBefore = Committed(l),
           \A r \in Reservations(l) : r.reservationId # e.reservationId,
           \A d \in Dimensions : Committed(l)[d] + e.reserved[d] <= MaxAccounting
    PROVE  /\ SoundLedger(Append(l, e))
           /\ \A d \in Dimensions :
                /\ Committed(Append(l, e))[d] = Committed(l)[d] + e.reserved[d]
                /\ OverrunTotal(Append(l, e), d) = OverrunTotal(l, d)
<1> DEFINE m == Append(l, e)
           S == Reservations(l)
<1>1. e \in LedgerEntry /\ e.entryType = "reservation" /\ m \in Seq(LedgerEntry)
  BY DEF LedgerEntry, ReservationEntry
<1>2. Reservations(m) = S \cup {e} /\ Reconciliations(m) = Reconciliations(l)
  BY <1>1, AppendEntries
<1>3. /\ S \subseteq ReservationEntry /\ IsFiniteSet(S) /\ IsFiniteSet(Reservations(m)) /\ e \notin S
      /\ IsFiniteSet(Reconciliations(l))
  BY <1>1, LedgerParts
<1>4. Committed(m) = ApplyEntry(Committed(l), e)
  BY <1>1, CommittedSteps
<1>5. ASSUME NEW d \in Dimensions
      PROVE  /\ Committed(l)[d] \in Nat /\ e.reserved[d] \in Nat
             /\ Committed(m)[d] = Committed(l)[d] + e.reserved[d]
             /\ Committed(m)[d] \in 0..MaxAccounting
  <2>1. Committed(l)[d] \in Nat /\ e.reserved[d] \in Nat
    BY BudgetAssumption DEF SoundLedger, ReservationEntry, Amounts
  <2>2. Committed(m)[d] = Committed(l)[d] + e.reserved[d]
    BY <1>1, <1>4 DEF ApplyEntry
  <2> QED BY <2>1, <2>2, BudgetAssumption
<1>6. Committed(m) \in Amounts
  <2>1. Committed(m) = [d \in Dimensions |-> Committed(m)[d]]
    BY <1>4 DEF ApplyEntry
  <2> QED BY <1>5, <2>1 DEF Amounts
<1> HIDE DEF m
<1>7. ASSUME NEW d \in Dimensions
      PROVE  HeldTotal(m, d) = HeldTotal(l, d) + e.reserved[d]
  <2> DEFINE R == Reservations(m)
  <2>1. \A r : SettledIn(m, r, d) = SettledIn(l, r, d)
    BY <1>2 DEF SettledIn
  <2>2. \A r \in S : HeldIn(m, r, d) = HeldIn(l, r, d)
    BY <2>1 DEF HeldIn
  <2>3. SettledIn(l, e, d) = {}
    BY DEF SettledIn, SoundLedger
  <2>4. HeldIn(m, e, d) = e.reserved[d]
    BY <2>1, <2>3 DEF HeldIn
  <2>5. R = S \cup {e}
    BY <1>2
  <2>6. Holds(m, d)[e] = e.reserved[d] /\ \A x \in S : Holds(l, d)[x] = Holds(m, d)[x]
    BY <2>2, <2>4, <2>5 DEF Holds
  <2>7. PICK f : Totals(S, Holds(l, d), f) /\ HeldTotal(l, d) = f[S]
    BY HeldTotalSums
  <2>8. PICK g : Totals(R, Holds(m, d), g) /\ HeldTotal(m, d) = g[R]
    BY <1>1, HeldTotalSums
  <2> HIDE DEF S, R
  <2>9. g[R] = f[S] + Holds(m, d)[e]
    BY <1>3, <2>5, <2>6, <2>7, <2>8, TotalsGrow
  <2> QED BY <2>6, <2>7, <2>8, <2>9
<1>8. ASSUME NEW d \in Dimensions PROVE OverrunTotal(m, d) = OverrunTotal(l, d)
  BY <1>2 DEF OverrunTotal, MapThenSumSet, MapThenFoldSet
<1>9. Readable(m)
  <2>1. EntryReads(l, e)
    BY <1>1, <1>4, <1>6 DEF EntryReads, m
  <2> QED BY <1>1, <2>1, ReadableAppend DEF SoundLedger, m
<1>10. \A d \in Dimensions : Committed(m)[d] = HeldTotal(m, d)
  BY <1>5, <1>7 DEF SoundLedger
<1>11. SoundLedger(m)
  BY <1>2, <1>6, <1>9, <1>10 DEF SoundLedger
<1> QED BY <1>5, <1>8, <1>11 DEF m

\* reconcileReplayBudget in one dimension: what it releases was reserved, and
\* the reservation then holds what was really used.
LEMMA ReconciledAmounts ==
    ASSUME NEW r \in ReservationEntry, NEW at, NEW u \in Usage, NEW d \in Dimensions,
           NEW e, e = reconcileReplayBudget(r, at, u)
    PROVE  /\ r.reserved[d] \in Nat /\ e.actual[d] = u[d]
           /\ e.released[d] \in Nat /\ e.overrun[d] \in Nat
           /\ e.released[d] <= r.reserved[d]
           /\ u[d] = None => e.released[d] = 0 /\ e.overrun[d] = 0
           /\ u[d] # None => /\ u[d] \in Nat
                             /\ u[d] = (r.reserved[d] - e.released[d]) + e.overrun[d]
<1> DEFINE kind == Disposition(r.reserved[d], u[d])
<1>1. r.reserved[d] \in Nat /\ u[d] \in 0..MaxAccounting \cup {None}
  BY BudgetAssumption DEF ReservationEntry, Amounts, Usage
<1>2. /\ e.released[d] = IF kind = "settled" THEN r.reserved[d] - u[d] ELSE 0
      /\ e.overrun[d] = IF kind = "overrun" THEN u[d] - r.reserved[d] ELSE 0
      /\ e.actual = u
  BY DEF reconcileReplayBudget
<1>3. CASE u[d] = None
  <2>1. kind = "disputed"
    BY <1>1, <1>3, BudgetAssumption DEF Disposition
  <2> QED BY <1>1, <1>2, <1>3, <2>1
<1>4. CASE u[d] # None
  <2>1. u[d] \in Nat
    BY <1>1, <1>4, BudgetAssumption
  <2>2. kind = IF u[d] <= r.reserved[d] THEN "settled" ELSE "overrun"
    BY <1>1, <1>4, <2>1 DEF Disposition
  <2> HIDE DEF kind
  <2> QED BY <1>1, <1>2, <1>4, <2>1, <2>2
<1> QED BY <1>3, <1>4

\* It keeps a ledger sound.
LEMMA ReconciledSound ==
    ASSUME NEW l \in Seq(LedgerEntry), SoundLedger(l), NEW r \in Reservations(l),
           r.reservationId \in OpenReservations(l), NEW at \in Nat, NEW u \in Usage,
           NEW e, e = reconcileReplayBudget(r, at, u),
           Representable(ApplyEntry(Committed(l), e))
    PROVE  /\ SoundLedger(Append(l, e))
           /\ \A d \in Dimensions :
                /\ Committed(Append(l, e))[d] = Committed(l)[d] - e.released[d] + e.overrun[d]
                /\ OverrunTotal(Append(l, e), d) = OverrunTotal(l, d) + e.overrun[d]
                /\ e.released[d] \in Nat /\ e.overrun[d] \in Nat
                /\ OverrunTotal(l, d) \in Nat
<1> DEFINE m == Append(l, e)
           S == Reservations(l)
           Q == Reconciliations(l)
<1>1. /\ r \in ReservationEntry /\ e \in ReconciliationEntry /\ e \in LedgerEntry
      /\ m \in Seq(LedgerEntry)
      /\ e.entryType = "reconciliation" /\ e.reservationId = r.reservationId
      /\ e.fence = r.fence
  <2>1. r \in ReservationEntry
    BY LedgerParts
  <2>2. e \in ReconciliationEntry
    BY <2>1, ReconciliationType
  <2> QED BY <2>1, <2>2 DEF LedgerEntry, reconcileReplayBudget
<1>2. Reservations(m) = S /\ Reconciliations(m) = Q \cup {e}
  BY <1>1, AppendEntries
<1>3. \A q \in Q : q.reservationId # r.reservationId
  BY DEF OpenReservations
<1>4. e \notin Q
  BY <1>1, <1>3
<1>5. Committed(m) = ApplyEntry(Committed(l), e)
  BY <1>1, CommittedSteps
<1>6. ASSUME NEW d \in Dimensions
      PROVE  /\ r.reserved[d] \in Nat /\ e.actual[d] = u[d]
             /\ e.released[d] \in Nat /\ e.overrun[d] \in Nat
             /\ e.released[d] <= r.reserved[d]
             /\ u[d] = None => e.released[d] = 0 /\ e.overrun[d] = 0
             /\ u[d] # None => /\ u[d] \in Nat
                               /\ u[d] = (r.reserved[d] - e.released[d]) + e.overrun[d]
  BY <1>1, ReconciledAmounts
<1> HIDE DEF m
<1>7. ASSUME NEW d \in Dimensions
      PROVE  /\ HeldTotal(l, d) \in Nat
             /\ HeldTotal(l, d) >= r.reserved[d]
             /\ HeldTotal(m, d) = HeldTotal(l, d) - e.released[d] + e.overrun[d]
  <2>1. SettledIn(l, r, d) = {}
    BY <1>3 DEF SettledIn
  <2>2. HeldIn(l, r, d) = r.reserved[d]
    BY <2>1 DEF HeldIn
  <2>3. ASSUME NEW x \in S, x # r PROVE HeldIn(m, x, d) = HeldIn(l, x, d)
    <3>1. x.reservationId # e.reservationId
      BY <1>1, <2>3 DEF SoundLedger
    <3>2. SettledIn(m, x, d) = SettledIn(l, x, d)
      BY <1>2, <3>1 DEF SettledIn
    <3> QED BY <3>2 DEF HeldIn
  <2>4. HeldIn(m, r, d) = (r.reserved[d] - e.released[d]) + e.overrun[d]
    <3>1. CASE u[d] = None
      <4>1. SettledIn(m, r, d) = {}
        BY <1>2, <1>6, <2>1, <3>1 DEF SettledIn
      <4>2. HeldIn(m, r, d) = r.reserved[d]
        BY <4>1 DEF HeldIn
      <4> QED BY <1>6, <3>1, <4>2
    <3>2. CASE u[d] # None
      <4>1. SettledIn(m, r, d) = {e}
        BY <1>1, <1>2, <1>6, <2>1, <3>2 DEF SettledIn
      <4>2. Pick(SettledIn(m, r, d)) = e
        BY <4>1 DEF Pick
      <4>3. HeldIn(m, r, d) = u[d]
        BY <1>6, <4>1, <4>2 DEF HeldIn
      <4> QED BY <1>6, <3>2, <4>3
    <3> QED BY <3>1, <3>2
  <2>5. /\ Holds(l, d)[r] = r.reserved[d]
        /\ Holds(m, d)[r] = (r.reserved[d] - e.released[d]) + e.overrun[d]
        /\ \A x \in S : x # r => Holds(l, d)[x] = Holds(m, d)[x]
    BY <1>2, <2>2, <2>3, <2>4 DEF Holds
  <2>6. PICK f : Totals(S, Holds(l, d), f) /\ HeldTotal(l, d) = f[S]
    BY HeldTotalSums
  <2>7. PICK g : Totals(S, Holds(m, d), g) /\ HeldTotal(m, d) = g[S]
    BY <1>1, <1>2, HeldTotalSums
  <2>8. /\ f[S] \in Nat /\ f[S] >= Holds(l, d)[r]
        /\ g[S] = (f[S] - Holds(l, d)[r]) + Holds(m, d)[r]
    BY <2>5, <2>6, <2>7, TotalsChange
  <2> QED BY <1>6, <2>5, <2>6, <2>7, <2>8
<1>8. ASSUME NEW d \in Dimensions
      PROVE  /\ OverrunTotal(l, d) \in Nat
             /\ OverrunTotal(m, d) = OverrunTotal(l, d) + e.overrun[d]
  <2> DEFINE R == Reconciliations(m)
  <2>1. R = Q \cup {e}
    BY <1>2
  <2>2. \A q \in R : q.overrun[d] \in Nat
    BY <1>6, <2>1 DEF SoundLedger
  <2>3. Exceeds(m, d)[e] = e.overrun[d] /\ \A x \in Q : Exceeds(l, d)[x] = Exceeds(m, d)[x]
    BY <2>1 DEF Exceeds
  <2>4. PICK f : Totals(Q, Exceeds(l, d), f) /\ OverrunTotal(l, d) = f[Q]
    BY OverrunTotalSums DEF SoundLedger
  <2>5. PICK g : Totals(R, Exceeds(m, d), g) /\ OverrunTotal(m, d) = g[R]
    BY <1>1, <2>2, OverrunTotalSums
  <2> HIDE DEF Q, R
  <2>6. g[R] = f[Q] + Exceeds(m, d)[e]
    BY <1>4, <2>1, <2>3, <2>4, <2>5, TotalsGrow
  <2>7. f[Q] \in Nat
    <3>1. Q \in SUBSET Q
      OBVIOUS
    <3> QED BY <2>4, <3>1, TotalsRules
  <2> QED BY <2>3, <2>4, <2>5, <2>6, <2>7
<1>9. ASSUME NEW d \in Dimensions
      PROVE  /\ Committed(l)[d] = HeldTotal(l, d)
             /\ Committed(m)[d] = Committed(l)[d] - e.released[d] + e.overrun[d]
             /\ e.released[d] <= Committed(l)[d]
             /\ Committed(m)[d] = HeldTotal(m, d)
             /\ Committed(m)[d] \in 0..MaxAccounting
  <2>1. Committed(l)[d] = HeldTotal(l, d)
    BY DEF SoundLedger
  <2>2. Committed(m)[d] = Committed(l)[d] - e.released[d] + e.overrun[d]
    BY <1>1, <1>5 DEF ApplyEntry
  <2>3. Committed(m)[d] <= MaxAccounting
    BY <1>5 DEF Representable
  <2> QED BY <1>6, <1>7, <2>1, <2>2, <2>3, BudgetAssumption
<1>10. Committed(m) \in Amounts
  <2>1. Committed(m) = [d \in Dimensions |-> Committed(m)[d]]
    BY <1>5 DEF ApplyEntry
  <2> QED BY <1>9, <2>1 DEF Amounts
<1>11. Readable(m)
  <2>1. sameFence(r.fence, e.fence)
    BY <1>1 DEF sameFence
  <2>2. EntryReads(l, e)
    BY <1>1, <1>5, <1>9, <1>10, <2>1 DEF EntryReads
  <2> QED BY <1>1, <2>2, ReadableAppend DEF SoundLedger, m
<1>12. SoundLedger(m)
  BY <1>1, <1>2, <1>6, <1>9, <1>10, <1>11 DEF SoundLedger
<1> QED BY <1>6, <1>8, <1>9, <1>12 DEF m

\* Overruns add up to a natural.
LEMMA OverrunTotalType ==
    ASSUME NEW l \in Seq(LedgerEntry), SoundLedger(l), NEW d \in Dimensions
    PROVE  OverrunTotal(l, d) \in Nat
<1> DEFINE Q == Reconciliations(l)
<1>1. PICK f : Totals(Q, Exceeds(l, d), f) /\ OverrunTotal(l, d) = f[Q]
  BY OverrunTotalSums DEF SoundLedger
<1>2. Q \in SUBSET Q
  OBVIOUS
<1> HIDE DEF Q
<1> QED BY <1>1, <1>2, TotalsRules

\* The inductive invariant of the ledger: it is sound, and what it has
\* committed beyond the plan's limit was reported as overrun.
LedgerInv ==
    /\ SoundLedger(ledger)
    /\ status = "absent" => ledger = <<>>
    /\ plan # None => \A d \in Dimensions :
                        Committed(ledger)[d] <= plan.budget[d] + OverrunTotal(ledger, d)

\* The two calls that write to the ledger keep it.
LEMMA ReserveLedger ==
    ASSUME Inv, LedgerInv, NEW f \in Fence, NEW id \in ReservationIds, NEW q \in Requests,
           Reserve(f, id, q)
    PROVE  LedgerInv'
<1> DEFINE e == reserveReplayBudget(id, f, clock, Committed(ledger), q)
<1>1. /\ status = "running" /\ plan \in Plans /\ clock \in Nat /\ ledger \in Seq(LedgerEntry)
      /\ UNCHANGED <<status, plan>>
  BY DEF Reserve, assertCurrentFence, jobVars, Inv, TypeOK, Ownership, LedgerEntry
<1>2. plan.budget \in Amounts /\ plan # None
  BY <1>1, JobAssumption DEF ValidPlan
<1>3. /\ q \in Amounts /\ Committed(ledger) \in Amounts
      /\ \A d \in Dimensions : Committed(ledger)[d] <= plan.budget[d] - q[d]
      /\ ledger' = Append(ledger, e)
      /\ \A r \in Reservations(ledger) : r.reservationId # id
  BY JobAssumption DEF Reserve, ReservationFits
<1>4. /\ e \in ReservationEntry /\ e.committedBefore = Committed(ledger) /\ e.reserved = q
      /\ e.reservationId = id
  BY <1>1, <1>3 DEF reserveReplayBudget, ReservationEntry
<1> HIDE DEF e
<1>5. ASSUME NEW d \in Dimensions
      PROVE  /\ Committed(ledger)[d] \in Nat /\ q[d] \in Nat /\ plan.budget[d] \in 0..MaxAccounting
             /\ Committed(ledger)[d] + q[d] <= plan.budget[d]
             /\ Committed(ledger)[d] + q[d] <= MaxAccounting
             /\ OverrunTotal(ledger, d) \in Nat
  <2>1. /\ Committed(ledger)[d] \in Nat /\ q[d] \in Nat
        /\ plan.budget[d] \in 0..MaxAccounting /\ MaxAccounting \in Nat
    BY <1>2, <1>3, BudgetAssumption DEF Amounts
  <2>2. OverrunTotal(ledger, d) \in Nat
    BY <1>1, OverrunTotalType DEF LedgerInv
  <2> QED BY <1>3, <2>1, <2>2
<1>6. /\ SoundLedger(ledger')
      /\ \A d \in Dimensions : /\ Committed(ledger')[d] = Committed(ledger)[d] + q[d]
                               /\ OverrunTotal(ledger', d) = OverrunTotal(ledger, d)
  BY <1>1, <1>3, <1>4, <1>5, ReservedSound DEF LedgerInv
<1>7. ASSUME NEW d \in Dimensions
      PROVE  Committed(ledger')[d] <= plan.budget[d] + OverrunTotal(ledger', d)
  BY <1>5, <1>6
<1> QED BY <1>1, <1>6, <1>7 DEF LedgerInv

LEMMA ReconcileLedger ==
    ASSUME Inv, LedgerInv, NEW f, NEW r \in Reservations(ledger), NEW u \in Usages,
           Reconcile(f, r, u)
    PROVE  LedgerInv'
<1> DEFINE e == reconcileReplayBudget(r, clock, u)
<1>1. /\ status = "running" /\ plan \in Plans /\ clock \in Nat /\ ledger \in Seq(LedgerEntry)
      /\ UNCHANGED <<status, plan>> /\ u \in Usage
  BY JobAssumption DEF Reconcile, assertCurrentFence, jobVars, Inv, TypeOK, Ownership, LedgerEntry
<1>2. plan.budget \in Amounts /\ plan # None
  BY <1>1, JobAssumption DEF ValidPlan
<1>3. /\ r.reservationId \in OpenReservations(ledger)
      /\ Representable(ApplyEntry(Committed(ledger), e))
      /\ ledger' = Append(ledger, e)
  BY DEF Reconcile
<1>4. /\ SoundLedger(ledger')
      /\ \A d \in Dimensions :
           /\ Committed(ledger')[d] = Committed(ledger)[d] - e.released[d] + e.overrun[d]
           /\ OverrunTotal(ledger', d) = OverrunTotal(ledger, d) + e.overrun[d]
           /\ e.released[d] \in Nat /\ e.overrun[d] \in Nat
           /\ OverrunTotal(ledger, d) \in Nat
  BY <1>1, <1>3, ReconciledSound DEF LedgerInv
<1> HIDE DEF e
<1>5. ASSUME NEW d \in Dimensions
      PROVE  Committed(ledger')[d] <= plan.budget[d] + OverrunTotal(ledger', d)
  <2>1. Committed(ledger)[d] \in Nat /\ plan.budget[d] \in Nat
    BY <1>2, BudgetAssumption DEF LedgerInv, SoundLedger, Amounts
  <2>2. Committed(ledger)[d] <= plan.budget[d] + OverrunTotal(ledger, d)
    BY <1>2 DEF LedgerInv
  <2> QED BY <1>4, <2>1, <2>2
<1> QED BY <1>1, <1>4, <1>5 DEF LedgerInv

\* Every step keeps it: nothing else writes to the ledger, and the limit is
\* set while it is empty.
LEMMA NextLedger == Inv /\ LedgerInv /\ [Next]_vars => LedgerInv'
<1> SUFFICES ASSUME Inv, LedgerInv, [Next]_vars PROVE LedgerInv'
  OBVIOUS
<1>1. CASE UNCHANGED <<ledger, plan>> /\ (status' = "absent" => status = "absent")
  BY <1>1 DEF LedgerInv
<1>2. CASE UNCHANGED vars \/ Tick \/ CancelQueued \/ CancelRunning
  BY <1>1, <1>2 DEF vars, Tick, CancelQueued, CancelRunning, jobVars, recordVars
<1>3. ASSUME NEW p \in Plans, CreateJob(p, 0) PROVE LedgerInv'
  <2>1. ledger = <<>> /\ ledger' = <<>> /\ plan' = p /\ status' = "queued"
    BY <1>3 DEF CreateJob, LedgerInv
  <2>2. ASSUME NEW d \in Dimensions
        PROVE  Committed(<<>>)[d] <= p.budget[d] + OverrunTotal(<<>>, d)
    <3>1. p.budget[d] \in Nat
      BY JobAssumption, BudgetAssumption DEF ValidPlan, Amounts
    <3> QED BY <3>1, EmptyLedger
  <2> QED BY <2>1, <2>2, EmptyLedger DEF LedgerInv
<1>4. ASSUME NEW w \in Workers, Claim(w, Current + 1, recoveryEpoch) PROVE LedgerInv'
  BY <1>1, <1>4, CloseReasonType DEF Claim, ClaimQueued, ReclaimExpired, Grant, CloseCancelled,
     CloseUnreconciled, CloseBlocked, TerminalizeExpired, CommitTerminal
<1>5. ASSUME NEW f \in IssuedFences, WorkerCall(f) PROVE LedgerInv'
  <2>1. f \in Fence
    BY IssuedFencesType DEF Inv, TypeOK
  <2>2. ASSUME NEW d \in LeaseDurations, Heartbeat(f, d) PROVE LedgerInv'
    BY <1>1, <2>2 DEF Heartbeat, recordVars
  <2>3. ASSUME NEW id \in AcknowledgementIds, Acknowledge(f, id) PROVE LedgerInv'
    BY <1>1, <2>3 DEF Acknowledge, jobVars
  <2>4. ASSUME NEW id \in ObservationIds, NEW k \in ObservationKinds, AppendObservation(f, id, k)
        PROVE  LedgerInv'
    BY <1>1, <2>4 DEF AppendObservation, jobVars
  <2>5. ASSUME NEW s \in TerminalStatuses, NEW c \in TerminalCodes[s], CompleteJob(f, s, c)
        PROVE  LedgerInv'
    BY <1>1, <2>5 DEF CompleteJob, CommitTerminal, TerminalStatuses
  <2> QED BY <1>5, <2>1, <2>2, <2>3, <2>4, <2>5, ReserveLedger, ReconcileLedger DEF WorkerCall
<1> QED BY <1>2, <1>3, <1>4, <1>5 DEF Next

\* The inductive invariant holds in every reachable state.
LEMMA LedgerInvariant == Spec => [](Inv /\ LedgerInv)
<1>1. Init => LedgerInv
  BY EmptyLedger DEF Init, LedgerInv
<1> QED BY <1>1, InitInv, NextInv, NextLedger, PTL DEF Spec

\* BudgetIsConserved: whatever is reserved and reported, by any number of
\* workers, the fold that decides about reservations is the sum of what the
\* distinct reservations hold, never overflows, and exceeds the plan's limit
\* only by overruns that are on record.
THEOREM BudgetAddsUp == Spec => []BudgetIsConserved
<1>1. Inv /\ LedgerInv => BudgetIsConserved
  <2> SUFFICES ASSUME Inv, LedgerInv, NEW d \in Dimensions
               PROVE  /\ Committed(ledger)[d] = MapThenSumSet(LAMBDA r : Held(r, d), Reservations(ledger))
                      /\ Committed(ledger)[d] <= MaxAccounting
                      /\ plan # None => Committed(ledger)[d] <= plan.budget[d]
                           + MapThenSumSet(LAMBDA e : e.overrun[d], Reconciliations(ledger))
    BY DEF BudgetIsConserved
  <2>2. HeldTotal(ledger, d) = MapThenSumSet(LAMBDA r : Held(r, d), Reservations(ledger))
    BY DEF HeldTotal, HeldIn, SettledIn, Pick, Held
  <2>3. OverrunTotal(ledger, d)
          = MapThenSumSet(LAMBDA e : e.overrun[d], Reconciliations(ledger))
    BY DEF OverrunTotal
  <2>4. Committed(ledger)[d] = HeldTotal(ledger, d) /\ Committed(ledger)[d] \in 0..MaxAccounting
    BY DEF LedgerInv, SoundLedger, Amounts
  <2>5. Committed(ledger)[d] <= MaxAccounting
    BY <2>4, BudgetAssumption
  <2> QED BY <2>2, <2>3, <2>4, <2>5 DEF LedgerInv
<1> QED BY <1>1, LedgerInvariant, PTL

\* LedgerReadable: summarizeReplayBudgetLedger never rejects what was stored,
\* so that no ledger can keep a job from completing.
THEOREM LedgerReadsBack == Spec => []LedgerReadable
<1>1. LedgerInv => LedgerReadable
  BY DEF LedgerInv, SoundLedger, Readable, EntryReads, LedgerReadable
<1> QED BY <1>1, LedgerInvariant, PTL

------------------------------------------------------------------------------
(* Retries *)

\* delay holds the exponential delay after each of the first n + 1 attempts.
Delays(b, n, delay) ==
    delay = [i \in 0..n |-> IF i = 0 THEN b.initial
                            ELSE Least(delay[i - 1] * b.multiplier, b.maximum)]

\* The recursion that defines the delay has a solution.
LEMMA DelaysExist ==
    ASSUME NEW b
    PROVE  \A n \in Nat : \E delay : Delays(b, n, delay)
<1> DEFINE T == {n \in Nat : \E delay : Delays(b, n, delay)}
           Step(x) == Least(x * b.multiplier, b.maximum)
<1>1. 0 \in T
  <2> DEFINE delay == [i \in 0..0 |-> b.initial]
  <2>1. Delays(b, 0, delay)
    BY DEF Delays
  <2> QED BY <2>1
<1>2. ASSUME NEW n \in T PROVE n + 1 \in T
  <2>1. n \in Nat
    OBVIOUS
  <2>2. PICK delay : Delays(b, n, delay)
    OBVIOUS
  <2> DEFINE h == [i \in 0..(n + 1) |-> IF i = n + 1 THEN Step(delay[n]) ELSE delay[i]]
  <2>3. ASSUME NEW i \in 0..n
        PROVE  delay[i] = IF i = 0 THEN b.initial ELSE Step(delay[i - 1])
    BY <2>2 DEF Delays
  <2> HIDE DEF Step
  <2>4. ASSUME NEW i \in 0..(n + 1)
        PROVE  h[i] = IF i = 0 THEN b.initial ELSE Step(h[i - 1])
    <3>1. CASE i = n + 1
      <4>1. h[i] = Step(delay[n]) /\ h[i - 1] = delay[n] /\ i # 0
        BY <2>1, <3>1
      <4> QED BY <3>1, <4>1
    <3>2. CASE i # n + 1
      <4>1. i \in 0..n /\ h[i] = delay[i] /\ (i # 0 => h[i - 1] = delay[i - 1])
        BY <2>1, <3>2
      <4> QED BY <2>3, <4>1
    <3> QED BY <3>1, <3>2
  <2>5. h = [i \in 0..(n + 1) |-> h[i]]
    OBVIOUS
  <2> HIDE DEF h
  <2>6. Delays(b, n + 1, h)
    BY <2>4, <2>5 DEF Delays, Step
  <2> QED BY <2>1, <2>6
<1> HIDE DEF T
<1>3. \A n \in Nat : n \in T
  <2>1. T \in SUBSET Nat
    BY DEF T
  <2> QED BY <1>1, <1>2, <2>1, SetInduction
<1> QED BY <1>3 DEF T

\* Every delay is a natural number.
LEMMA DelaysType ==
    ASSUME NEW b, b.initial \in Nat, b.multiplier \in Nat, b.maximum \in Nat,
           NEW n \in Nat, NEW delay, Delays(b, n, delay)
    PROVE  delay[n] \in Nat
<1> DEFINE T == {i \in Nat : i <= n => delay[i] \in Nat}
<1>1. 0 \in T
  BY DEF Delays
<1>2. ASSUME NEW i \in T PROVE i + 1 \in T
  <2>1. i \in Nat /\ (i <= n => delay[i] \in Nat)
    OBVIOUS
  <2>2. CASE i + 1 <= n
    <3>1. i + 1 \in 0..n /\ i + 1 # 0 /\ (i + 1) - 1 = i /\ delay[i] \in Nat
      BY <2>1, <2>2
    <3>2. delay[i + 1] = Least(delay[i] * b.multiplier, b.maximum)
      BY <3>1 DEF Delays
    <3>3. delay[i] * b.multiplier \in Nat
      BY <3>1
    <3> QED BY <2>1, <3>2, <3>3 DEF Least
  <2> QED BY <2>1, <2>2
<1> HIDE DEF T
<1>3. \A i \in Nat : i \in T
  <2>1. T \in SUBSET Nat
    BY DEF T
  <2> QED BY <1>1, <1>2, <2>1, SetInduction
<1> QED BY <1>3 DEF T

\* So is what retryDelay answers for a valid policy.
LEMMA RetryDelayType ==
    ASSUME NEW policy, ValidRetryPolicy(policy), NEW n \in Nat
    PROVE  retryDelay(policy, n) \in Nat
<1> DEFINE b == policy.backoff
<1>1. b \in Backoffs
  BY DEF ValidRetryPolicy
<1> HIDE DEF b
<1>2. CASE b \in [kind : {"none"}]
  BY <1>2 DEF retryDelay, b
<1>3. CASE b \in [kind : {"fixed"}, delay : Nat \ {0}]
  BY <1>3 DEF retryDelay, b
<1>4. CASE b \in [kind : {"exponential"}, initial : Nat \ {0}, maximum : Nat \ {0},
                  multiplier : Nat \ {0, 1}]
  <2>1. /\ b.kind = "exponential" /\ b.initial \in Nat /\ b.multiplier \in Nat
        /\ b.maximum \in Nat
    BY <1>4
  <2>2. \E delay : Delays(b, n, delay)
    BY DelaysExist
  <2>3. \E delay : Delays(b, n, delay) /\ retryDelay(policy, n) = delay[n]
    BY <2>1, <2>2 DEF retryDelay, Delays, b
  <2> QED BY <2>1, <2>3, DelaysType
<1> QED BY <1>1, <1>2, <1>3, <1>4 DEF Backoffs

\* What an eligible decision has established: the effect may be repeated, and
\* an attempt begun once the delay is over can still run its full time within
\* the job's deadline.
LEMMA EligibleRetry ==
    ASSUME NEW policy, ValidRetryPolicy(policy), NEW code, NEW effect, NEW n \in Nat,
           NEW started \in Nat, NEW failed \in Nat, NEW now \in Nat,
           NEW decision, decision = decideReplayRetry(policy, code, effect, n, started, failed, now),
           decision.eligible, now >= decision.notBefore
    PROVE  /\ effectRetrySafe(effect)
           /\ now + policy.perAttemptTimeout <= started + policy.totalDeadline
<1> DEFINE notBefore == failed + retryDelay(policy, n)
           startsAt == Greatest(notBefore, now)
<1>1. notBefore \in Nat
  BY RetryDelayType
<1>2. policy.perAttemptTimeout \in Nat /\ policy.totalDeadline \in Nat
  BY DEF ValidRetryPolicy
<1>3. /\ decision.notBefore = notBefore
      /\ effectRetrySafe(effect)
      /\ ~(startsAt + policy.perAttemptTimeout > started + policy.totalDeadline)
  BY DEF decideReplayRetry, blocked
<1>4. startsAt = now
  <2> HIDE DEF notBefore
  <2> QED BY <1>1, <1>3 DEF Greatest
<1> HIDE DEF notBefore, startsAt
<1> QED BY <1>2, <1>3, <1>4

\* RetriesAreSafe, for one attempt.
SafeAttempt(i) ==
    /\ i <= plan.retryPolicy.maxAttempts
    /\ effectRetrySafe(plan.effect)
    /\ \A e \in Reservations(ledger) :
          e.fence.token < i => e.reservationId \notin OpenReservations(ledger)
    /\ cancellationRequest # None => cancellationRequest >= attempts[i].startedAt
    /\ attempts[i].startedAt + plan.retryPolicy.perAttemptTimeout
          <= startedAt + plan.retryPolicy.totalDeadline

\* A step that keeps the attempts' beginnings and the ledger keeps the
\* attempts safe.
LEMMA SafeFrame ==
    ASSUME RetriesAreSafe, UNCHANGED <<plan, startedAt, ledger, cancellationRequest>>,
           Len(attempts') = Len(attempts),
           \A i \in 1..Len(attempts) : attempts'[i].startedAt = attempts[i].startedAt,
           Len(attempts) \in Nat
    PROVE  RetriesAreSafe'
<1>1. ASSUME NEW i \in 2..Len(attempts) PROVE SafeAttempt(i)'
  <2>1. SafeAttempt(i)
    BY DEF RetriesAreSafe, SafeAttempt
  <2>2. i \in 1..Len(attempts)
    OBVIOUS
  <2> QED BY <2>1, <2>2 DEF SafeAttempt
<1> QED BY <1>1 DEF RetriesAreSafe, SafeAttempt

\* A terminal commit changes how the last attempt ended, not when it began.
LEMMA SafeCommit ==
    ASSUME Inv, RetriesAreSafe, status = "running",
           NEW s, NEW code, NEW at \in Nat, NEW as \in AttemptStatuses,
           CommitTerminal(s, code, EndedAttempt(attempts[Current], at, as, "not_retryable"))
    PROVE  RetriesAreSafe'
<1> DEFINE ended == EndedAttempt(attempts[Current], at, as, "not_retryable")
<1>1. /\ attempts \in Seq(Attempt) /\ Current = Len(attempts) /\ Current \in DOMAIN attempts
      /\ attempts[Current] \in Attempt
  BY RunningJob DEF Inv, TypeOK, Current
<1>2. ended \in Attempt
  BY <1>1, EndedAttemptType
<1>3. ended.startedAt = attempts[Current].startedAt
  BY <1>1 DEF EndedAttempt, Attempt
<1> HIDE DEF ended
<1>4. /\ Len(attempts') = Len(attempts) /\ Len(attempts) \in Nat
      /\ attempts'[Current] = ended
      /\ \A i \in 1..Len(attempts) : i # Current => attempts'[i] = attempts[i]
      /\ UNCHANGED <<plan, startedAt, ledger, cancellationRequest>>
  <2>1. /\ attempts' = [attempts EXCEPT ![Current] = ended]
        /\ UNCHANGED <<plan, startedAt, ledger, cancellationRequest>>
    BY DEF CommitTerminal, ended
  <2> QED BY <1>1, <1>2, <2>1
<1>5. \A i \in 1..Len(attempts) : attempts'[i].startedAt = attempts[i].startedAt
  BY <1>3, <1>4
<1> QED BY <1>1, <1>4, <1>5, SafeFrame

\* The retry of an expired attempt is safe, and leaves the earlier ones safe.
LEMMA SafeReclaim ==
    ASSUME Inv, RetriesAreSafe, NEW worker, NEW id, NEW duration, NEW epoch,
           ReclaimExpired(worker, id, duration, epoch)
    PROVE  RetriesAreSafe'
<1> DEFINE n == Len(attempts)
           ended == EndedAttempt(attempts[n], clock, "lease_expired", "retry_scheduled")
           earlier == [attempts EXCEPT ![n] = ended]
           policy == plan.retryPolicy
<1>1. status = "running" /\ clock \in Nat /\ attempts \in Seq(Attempt)
  BY DEF ReclaimExpired, LeaseExpired, Inv, TypeOK
<1>2. /\ n \in Nat \ {0} /\ n \in DOMAIN attempts /\ attempts[n] \in Attempt /\ plan \in Plans
      /\ startedAt \in Nat /\ lease.expiresAt \in Nat /\ Current = n
  BY <1>1, RunningJob DEF Current
<1>3. ended.startedAt = attempts[n].startedAt /\ ended \in Attempt
  BY <1>1, <1>2, EndedAttemptType DEF EndedAttempt, Attempt, AttemptStatuses
<1> HIDE DEF ended
<1>4. /\ earlier \in Seq(Attempt) /\ Len(earlier) = n
      /\ \A i \in 1..n : earlier[i].startedAt = attempts[i].startedAt
  BY <1>1, <1>2, <1>3
<1>5. Grant(worker, id, duration, epoch, earlier)
  BY <1>2 DEF ReclaimExpired, Current, ended
<1> HIDE DEF earlier
<1>7. /\ Len(attempts') = n + 1
      /\ \A i \in 1..n : attempts'[i].startedAt = attempts[i].startedAt
      /\ attempts'[n + 1].startedAt = clock
  <2>1. PICK new : attempts' = Append(earlier, new) /\ new.startedAt = clock
    BY <1>5 DEF Grant
  <2>2. /\ Len(attempts') = n + 1 /\ attempts'[n + 1] = new
        /\ \A i \in 1..n : attempts'[i] = earlier[i]
    BY <1>2, <1>4, <2>1
  <2> QED BY <1>4, <2>1, <2>2
<1>8. /\ UNCHANGED <<plan, startedAt, ledger, cancellationRequest>>
      /\ cancellationRequest = None /\ OpenReservations(ledger) = {}
      /\ n + 1 <= policy.maxAttempts
  <2>1. policy.maxAttempts \in Nat /\ startedAt # None
    BY <1>2, JobAssumption, BudgetAssumption DEF ValidPlan, ValidRetryPolicy
  <2> QED BY <1>2, <1>4, <1>5, <2>1 DEF Grant, ReclaimExpired
<1>9. /\ effectRetrySafe(plan.effect)
      /\ clock + policy.perAttemptTimeout <= startedAt + policy.totalDeadline
  <2>1. ValidRetryPolicy(policy)
    BY <1>2, JobAssumption DEF ValidPlan
  <2>2. n - 1 \in Nat
    BY <1>2
  <2>3. RetryDecision = decideReplayRetry(policy, "lease_expired", plan.effect, n - 1,
                                          startedAt, lease.expiresAt, clock)
    BY <1>2 DEF RetryDecision
  <2>4. RetryDecision.eligible /\ clock >= RetryDecision.notBefore
    BY DEF ReclaimExpired
  <2> HIDE DEF n, policy
  <2> QED BY <1>1, <1>2, <2>1, <2>2, <2>3, <2>4, EligibleRetry
<1>10. ASSUME NEW i \in 2..(n + 1) PROVE SafeAttempt(i)'
  <2>1. CASE i = n + 1
    BY <1>7, <1>8, <1>9, <2>1 DEF SafeAttempt
  <2>2. CASE i # n + 1
    <3>1. i \in 2..n /\ i \in 1..n
      BY <1>2, <2>2
    <3>2. SafeAttempt(i)
      BY <3>1 DEF RetriesAreSafe, SafeAttempt
    <3> QED BY <1>7, <1>8, <3>1, <3>2 DEF SafeAttempt
  <2> QED BY <2>1, <2>2
<1> QED BY <1>7, <1>10 DEF RetriesAreSafe, SafeAttempt

\* A worker that reserves, reserves for the last attempt, under a new id; one
\* that reconciles, opens nothing.
LEMMA SafeLedger ==
    ASSUME Inv, RetriesAreSafe, NEW f \in Fence,
           \/ \E id \in ReservationIds, q \in Requests : Reserve(f, id, q)
           \/ \E q \in Reservations(ledger), u \in Usages : Reconcile(f, q, u)
    PROVE  RetriesAreSafe'
<1>1. /\ assertCurrentFence(f) /\ status = "running"
      /\ UNCHANGED <<plan, startedAt, attempts, cancellationRequest>>
      /\ ledger \in Seq(LedgerEntry) /\ Inv'
      /\ clock \in Nat
  <2>1. Inv'
    BY RecordingInv
  <2> QED BY <2>1 DEF Reserve, Reconcile, assertCurrentFence, jobVars, Inv, TypeOK, LedgerEntry
<1>2. f.token = Len(attempts) /\ Len(attempts) \in Nat
  <2>1. /\ Current \in DOMAIN attempts /\ lease \in Lease /\ Current = Len(attempts)
        /\ lease.fence = attempts[Current].fence
    BY <1>1, RunningJob DEF Current
  <2>2. AttemptInPlace(Current)
    BY <2>1 DEF Inv, Ownership
  <2> QED BY <1>1, <2>1, <2>2 DEF AttemptInPlace, assertCurrentFence, sameFence, Inv, TypeOK
<1>3. ASSUME NEW i \in 2..Len(attempts), NEW e \in Reservations(ledger'), e.fence.token < i
      PROVE  e.reservationId \notin OpenReservations(ledger')
  <2>1. \A r \in Reservations(ledger) :
            r.fence.token < i => r.reservationId \notin OpenReservations(ledger)
    BY DEF RetriesAreSafe
  <2>2. ASSUME NEW id \in ReservationIds, NEW q \in Requests, Reserve(f, id, q)
        PROVE  e.reservationId \notin OpenReservations(ledger')
    <3> DEFINE new == reserveReplayBudget(id, f, clock, Committed(ledger), q)
    <3>1. new.fence = f /\ new.reservationId = id
      BY DEF reserveReplayBudget
    <3>2. new \in ReservationEntry
      <4>1. Committed(ledger) \in Amounts /\ q \in Amounts
        BY <2>2, JobAssumption DEF Reserve, ReservationFits
      <4> QED BY <1>1, <4>1 DEF reserveReplayBudget, ReservationEntry
    <3> HIDE DEF new
    <3>3. ledger' = Append(ledger, new)
      BY <2>2 DEF Reserve, new
    <3>4. /\ Reservations(ledger') = Reservations(ledger) \cup {new}
          /\ Reconciliations(ledger') = Reconciliations(ledger)
      BY <1>1, <3>2, <3>3, AppendEntries DEF LedgerEntry
    <3>5. e # new
      BY <1>2, <1>3, <3>1
    <3>6. e \in Reservations(ledger) /\ e.reservationId # id
      BY <2>2, <3>4, <3>5 DEF Reserve
    <3>7. e.reservationId \notin OpenReservations(ledger)
      BY <1>3, <2>1, <3>6
    <3> QED BY <3>1, <3>4, <3>6, <3>7 DEF OpenReservations
  <2>3. ASSUME NEW q \in Reservations(ledger), NEW u \in Usages, Reconcile(f, q, u)
        PROVE  e.reservationId \notin OpenReservations(ledger')
    <3> DEFINE new == reconcileReplayBudget(q, clock, u)
    <3>1. new \in ReconciliationEntry
      BY <1>1, LedgerParts, ReconciliationType, JobAssumption
    <3> HIDE DEF new
    <3>2. ledger' = Append(ledger, new)
      BY <2>3 DEF Reconcile, new
    <3>3. /\ Reservations(ledger') = Reservations(ledger)
          /\ Reconciliations(ledger') = Reconciliations(ledger) \cup {new}
      BY <1>1, <3>1, <3>2, AppendEntries DEF LedgerEntry
    <3>4. e.reservationId \notin OpenReservations(ledger)
      BY <1>3, <2>1, <3>3
    <3> QED BY <3>3, <3>4 DEF OpenReservations
  <2> QED BY <2>2, <2>3
<1>4. ASSUME NEW i \in 2..Len(attempts) PROVE SafeAttempt(i)'
  <2>1. SafeAttempt(i)
    BY DEF RetriesAreSafe, SafeAttempt
  <2> QED BY <1>1, <1>3, <2>1 DEF SafeAttempt
<1> QED BY <1>1, <1>4 DEF RetriesAreSafe, SafeAttempt

\* A request that comes in now comes after every attempt there is.
LEMMA SafeCancel ==
    ASSUME Inv, RetriesAreSafe, CancelRunning
    PROVE  RetriesAreSafe'
<1>1. attempts \in Seq(Attempt) /\ Len(attempts) \in Nat
  BY DEF Inv, TypeOK
<1>2. /\ cancellationRequest' = clock
      /\ UNCHANGED <<plan, startedAt, ledger, attempts>>
  BY DEF CancelRunning, jobVars
<1>3. ASSUME NEW i \in 2..Len(attempts) PROVE SafeAttempt(i)'
  <2>1. SafeAttempt(i)
    BY DEF RetriesAreSafe, SafeAttempt
  <2>2. AttemptInPlace(i) /\ attempts[i].startedAt \in Nat /\ clock \in Nat
    <3>1. i \in DOMAIN attempts /\ attempts[i] \in Attempt
      BY <1>1
    <3> QED BY <3>1 DEF Inv, TypeOK, Ownership, Attempt
  <2> QED BY <1>2, <2>1, <2>2 DEF SafeAttempt, AttemptInPlace
<1> QED BY <1>2, <1>3 DEF RetriesAreSafe, SafeAttempt

\* Every step keeps the attempts safe.
LEMMA NextSafe == Inv /\ RetriesAreSafe /\ [Next]_vars => RetriesAreSafe'
<1> SUFFICES ASSUME Inv, RetriesAreSafe, [Next]_vars PROVE RetriesAreSafe'
  OBVIOUS
<1>1. attempts \in Seq(Attempt) /\ Len(attempts) \in Nat
  BY DEF Inv, TypeOK
<1>2. CASE UNCHANGED <<plan, startedAt, ledger, cancellationRequest, attempts>>
  BY <1>1, <1>2, SafeFrame
<1>3. CASE UNCHANGED vars \/ Tick
  BY <1>2, <1>3 DEF vars, Tick, jobVars, recordVars
<1>4. CASE Len(attempts') < 2
  BY <1>4 DEF RetriesAreSafe
<1>5. CASE (\E p \in Plans : CreateJob(p, 0)) \/ CancelQueued
  <2>1. attempts = <<>> /\ attempts' = attempts
    BY <1>5 DEF CreateJob, CancelQueued, Inv, Ownership
  <2> QED BY <1>4, <2>1
<1>6. CASE CancelRunning
  BY <1>6, SafeCancel
<1>7. ASSUME NEW w \in Workers, Claim(w, Current + 1, recoveryEpoch) PROVE RetriesAreSafe'
  <2>1. ASSUME NEW d, ClaimQueued(w, Current + 1, d, recoveryEpoch) PROVE RetriesAreSafe'
    <3>1. attempts = <<>> /\ Len(attempts') = Len(attempts) + 1
      BY <1>1, <2>1 DEF ClaimQueued, Grant, Inv, Ownership
    <3> QED BY <1>4, <3>1
  <2>2. ASSUME NEW s, NEW code, LeaseExpired, TerminalizeExpired(s, code) PROVE RetriesAreSafe'
    <3>1. status = "running" /\ lease.expiresAt \in Nat /\ "lease_expired" \in AttemptStatuses
      BY <2>2, RunningJob DEF LeaseExpired, AttemptStatuses
    <3> QED BY <2>2, <3>1, SafeCommit DEF TerminalizeExpired
  <2>3. CASE CloseCancelled \/ CloseUnreconciled \/ CloseBlocked
    BY <2>2, <2>3 DEF CloseCancelled, CloseUnreconciled, CloseBlocked
  <2> QED BY <1>7, <2>1, <2>3, SafeReclaim DEF Claim
<1>8. ASSUME NEW f \in IssuedFences, WorkerCall(f) PROVE RetriesAreSafe'
  <2>1. f \in Fence
    BY IssuedFencesType DEF Inv, TypeOK
  <2>2. CASE \/ \E d \in LeaseDurations : Heartbeat(f, d)
             \/ \E id \in AcknowledgementIds : Acknowledge(f, id)
             \/ \E id \in ObservationIds, k \in ObservationKinds : AppendObservation(f, id, k)
    BY <1>2, <2>2 DEF Heartbeat, Acknowledge, AppendObservation, jobVars, recordVars
  <2>3. ASSUME NEW s \in TerminalStatuses, NEW c \in TerminalCodes[s], CompleteJob(f, s, c)
        PROVE  RetriesAreSafe'
    <3>1. clock \in Nat /\ s \in AttemptStatuses
      BY DEF Inv, TypeOK, AttemptStatuses
    <3> QED BY <2>3, <3>1, SafeCommit DEF CompleteJob, assertCurrentFence
  <2> QED BY <1>8, <2>1, <2>2, <2>3, SafeLedger DEF WorkerCall
<1> QED BY <1>3, <1>5, <1>6, <1>7, <1>8 DEF Next

\* RetriesAreSafe: an attempt after the first is within the plan's limit, has
\* an effect that may be repeated, follows attempts whose reservations are all
\* reconciled and no cancellation request, and can still run its full time
\* within the job's deadline.
THEOREM RetriesStaySafe == Spec => []RetriesAreSafe
<1>1. Init => RetriesAreSafe
  BY DEF Init, RetriesAreSafe
<1> QED BY <1>1, OwnershipInvariant, NextSafe, PTL DEF Spec

==============================================================================
