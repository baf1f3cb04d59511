--------------------------- MODULE DecisionProofs ---------------------------
(***************************************************************************)
(* Facts about the operators of Detection and Decisions, for any machine   *)
(* and any configuration: sorted lists, positions, scans, recommendations, *)
(* validation and plans.  WizardProofs and PlannerProofs rest on them.     *)
(***************************************************************************)
EXTENDS Decisions, FunctionTheorems, FiniteSetTheorems, SequenceTheorems, WellFoundedInduction, TLAPS

-----------------------------------------------------------------------------
(* Numbers and positions *)

\* Every set of numbers has a least one: the form of induction used here.
LEMMA LeastNumber ==
  ASSUME NEW S \in SUBSET Nat, S # {}
  PROVE  \E x \in S : \A y \in S : x <= y
<1> DEFINE less == {ss \in Nat \X Nat : ss[1] < ss[2]}
<1>1. IsWellFoundedOn(less, Nat)
  BY NatLessThanWellFounded, Zenon DEF OpToRel
<1>2. \A x, y \in Nat : <<y, x>> \notin less => x <= y
  OBVIOUS
<1> HIDE DEF less
<1> QED BY <1>1, <1>2, WFMin

\* First is the smallest position of a set of positions, 0 if there is none.
LEMMA FirstIsLeast ==
  ASSUME NEW S \in SUBSET (Nat \ {0})
  PROVE  /\ First({}) = 0
         /\ S = {} <=> First(S) = 0
         /\ S # {} => First(S) \in S /\ \A j \in S : First(S) <= j
<1>1. First({}) = 0
  BY DEF First
<1>2. CASE S # {}
  <2>1. PICK x \in S : \A y \in S : x <= y
    BY <1>2, LeastNumber
  <2>2. First(S) \in S /\ \A j \in S : First(S) <= j
    BY <1>2, <2>1 DEF First
  <2> QED BY <1>1, <1>2, <2>2
<1> QED BY <1>1, <1>2

\* The only position of a set.
LEMMA FirstOfOne ==
  ASSUME NEW k \in Nat \ {0} PROVE First({k}) = k
BY FirstIsLeast

\* What is before a in S, in the order R.
Below(R, S, a) == {b \in S : <<b, a>> \in R}

\* R orders S strictly and totally.
Orders(R, S) ==
  /\ \A a, b, c \in S : <<a, b>> \in R /\ <<b, c>> \in R => <<a, c>> \in R
  /\ \A a \in S : <<a, a>> \notin R
  /\ \A a, b \in S : a = b \/ <<a, b>> \in R \/ <<b, a>> \in R

\* The number of predecessors numbers the elements from 0, without gaps and in order.
Numbered(R, S) ==
  /\ Cardinality(S) \in Nat
  /\ \A a \in S : Cardinality(Below(R, S, a)) \in 0..(Cardinality(S) - 1)
  /\ \A a, b \in S : <<a, b>> \in R => Cardinality(Below(R, S, a)) < Cardinality(Below(R, S, b))
  /\ \A n \in 0..(Cardinality(S) - 1) : \E a \in S : Cardinality(Below(R, S, a)) = n

\* Every finite total order is numbered by its predecessors.
LEMMA Ranks ==
  ASSUME NEW S, IsFiniteSet(S), NEW R, Orders(R, S)
  PROVE  Numbered(R, S)
<1> DEFINE n == Cardinality(S)
           f == [a \in S |-> Cardinality(Below(R, S, a))]
<1>1. n \in Nat
  BY FS_CardinalityType
<1>2. ASSUME NEW T \in SUBSET S, NEW U \in SUBSET T, T # U
      PROVE  Cardinality(U) \in Nat /\ Cardinality(T) \in Nat /\ Cardinality(U) < Cardinality(T)
  <2>1. IsFiniteSet(T) /\ IsFiniteSet(U)
    BY FS_Subset
  <2>2. Cardinality(U) <= Cardinality(T) /\ Cardinality(U) # Cardinality(T)
    BY <1>2, <2>1, FS_Subset
  <2> QED BY <2>1, <2>2, FS_CardinalityType
<1>3. ASSUME NEW a \in S PROVE Cardinality(Below(R, S, a)) \in 0..(n - 1)
  <2>1. Below(R, S, a) \in SUBSET S /\ Below(R, S, a) # S
    BY DEF Below, Orders
  <2>2. Cardinality(Below(R, S, a)) \in Nat /\ Cardinality(Below(R, S, a)) < n
    BY <1>2, <2>1
  <2> QED BY <1>1, <2>2
<1>4. ASSUME NEW a \in S, NEW b \in S, <<a, b>> \in R
      PROVE  Cardinality(Below(R, S, a)) < Cardinality(Below(R, S, b))
  <2>1. Below(R, S, b) \in SUBSET S /\ Below(R, S, a) \in SUBSET Below(R, S, b) /\ Below(R, S, a) # Below(R, S, b)
    BY <1>4 DEF Below, Orders
  <2> QED BY <1>2, <2>1
<1>5. IsFiniteSet(0..(n - 1)) /\ Cardinality(0..(n - 1)) = n
  <2>1. 0 \in Int /\ n - 1 \in Int /\ (IF 0 > n - 1 THEN 0 ELSE (n - 1) - 0 + 1) = n
    BY <1>1
  <2> HIDE DEF n
  <2> QED BY <2>1, FS_Interval
<1>6. f \in [S -> 0..(n - 1)]
  BY <1>3
<1>7. \A a, b \in S : a # b => f[a] # f[b]
  <2> SUFFICES ASSUME NEW a \in S, NEW b \in S, a # b PROVE f[a] # f[b]
    OBVIOUS
  <2>1. f[a] \in Nat /\ f[b] \in Nat
    BY <1>6
  <2>2. f[a] < f[b] \/ f[b] < f[a]
    BY <1>4 DEF Orders
  <2> QED BY <2>1, <2>2
<1>8. f \in Injection(S, 0..(n - 1))
  BY <1>6, <1>7 DEF Injection, IsInjective
<1>9. f \in Surjection(S, 0..(n - 1))
  BY <1>5, <1>8, FS_Injection
<1>10. \A m \in 0..(n - 1) : \E a \in S : f[a] = m
  BY <1>9 DEF Surjection
<1> QED BY <1>1, <1>3, <1>4, <1>10 DEF Numbered

\* A sorted list has the elements of the set, in order and once each.
LEMMA SortedList ==
  ASSUME NEW S \in SUBSET Int, IsFiniteSet(S), NEW s, s = Ascending(S)
  PROVE  /\ Cardinality(S) \in Nat
         /\ s \in Seq(S) /\ Len(s) = Cardinality(S) /\ DOMAIN s = 1..Cardinality(S)
         /\ \A i \in 1..Cardinality(S) : s[i] \in S
         /\ ToSet(s) = S
         /\ s = <<>> <=> S = {}
         /\ \A i, j \in 1..Cardinality(S) : i < j => s[i] < s[j]
<1> DEFINE R == {p \in S \X S : p[1] < p[2]}
           n == Cardinality(S)
           Rank(a) == Cardinality({b \in S : b < a})
<1>0. \A a, b \in S : a = b \/ a < b \/ b < a
  <2> SUFFICES ASSUME NEW a \in S, NEW b \in S PROVE a = b \/ a < b \/ b < a
    OBVIOUS
  <2>1. a \in Int /\ b \in Int
    OBVIOUS
  <2> QED BY <2>1
<1>1. \A a, b \in S : <<a, b>> \in R <=> a < b
  OBVIOUS
<1> HIDE DEF R
<1>2. \A a \in S : Below(R, S, a) = {b \in S : b < a}
  BY <1>1 DEF Below
<1>3. /\ n \in Nat
      /\ \A a \in S : Rank(a) \in 0..(n - 1)
      /\ \A a, b \in S : a < b => Rank(a) < Rank(b)
      /\ \A m \in 0..(n - 1) : \E a \in S : Rank(a) = m
  <2>1. \A a, b, c \in S : <<a, b>> \in R /\ <<b, c>> \in R => <<a, c>> \in R
    BY <1>1
  <2>2. \A a \in S : <<a, a>> \notin R
    BY <1>1
  <2>3. \A a, b \in S : a = b \/ <<a, b>> \in R \/ <<b, a>> \in R
    BY <1>0, <1>1
  <2>4. Orders(R, S)
    BY <2>1, <2>2, <2>3, Zenon DEF Orders
  <2>5. Numbered(R, S)
    BY <2>4, Ranks
  <2> QED BY <1>1, <1>2, <2>5 DEF Numbered
<1>4. s = [i \in 1..n |-> CHOOSE a \in S : Rank(a) = i - 1]
  BY DEF Ascending
<1> HIDE DEF Rank, n
<1>5. DOMAIN s = 1..n /\ \A i \in 1..n : s[i] \in S /\ Rank(s[i]) = i - 1
  <2> SUFFICES ASSUME NEW i \in 1..n PROVE s[i] \in S /\ Rank(s[i]) = i - 1
    BY <1>4
  <2>1. \E a \in S : Rank(a) = i - 1
    BY <1>3
  <2> QED BY <1>4, <2>1
<1>6. s \in [1..n -> S]
  BY <1>4, <1>5
<1>7. s \in Seq(S) /\ Len(s) = n
  BY <1>3, <1>6, SeqDef, LenProperties
<1>8. \A i, j \in 1..n : i < j => s[i] < s[j]
  <2> SUFFICES ASSUME NEW i \in 1..n, NEW j \in 1..n, i < j, ~(s[i] < s[j]) PROVE FALSE
    OBVIOUS
  <2>1. s[i] \in S /\ s[j] \in S /\ Rank(s[i]) = i - 1 /\ Rank(s[j]) = j - 1
    BY <1>5
  <2>2. s[i] = s[j] \/ s[j] < s[i]
    BY <1>0, <2>1
  <2>3. s[j] < s[i] => j - 1 < i - 1
    BY <1>3, <2>1
  <2> QED BY <1>3, <2>1, <2>2, <2>3
<1>9. ASSUME NEW a \in S PROVE \E i \in 1..n : s[i] = a
  <2>1. Rank(a) \in 0..(n - 1)
    BY <1>3
  <2>2. PICK i \in 1..n : i = Rank(a) + 1
    BY <1>3, <2>1
  <2>3. s[i] \in S /\ Rank(s[i]) = Rank(a)
    BY <1>5, <2>1, <2>2
  <2>4. PICK t \in S : t = s[i] /\ Rank(t) = Rank(a)
    BY <2>3
  <2>5. Rank(a) \in Int /\ (t < a => Rank(t) < Rank(a)) /\ (a < t => Rank(a) < Rank(t))
    BY <1>3, <2>1
  <2>6. ~(t < a) /\ ~(a < t)
    BY <2>4, <2>5
  <2> QED BY <1>0, <2>4, <2>6
<1>10. ToSet(s) = S
  BY <1>5, <1>9 DEF ToSet
<1>11. s = <<>> <=> S = {}
  <2>1. S = {} <=> n = 0
    BY FS_EmptySet DEF n
  <2>2. s = <<>> <=> Len(s) = 0
    BY <1>7, EmptySeq
  <2> QED BY <1>7, <2>1, <2>2
<1> QED BY <1>3, <1>5, <1>7, <1>8, <1>10, <1>11 DEF n

\* A sorted list of numbers is one without repetitions.
LEMMA SortedNumbers ==
  ASSUME NEW S \in SUBSET Nat, IsFiniteSet(S), NEW s, s = Ascending(S)
  PROVE  s \in Seq(Nat) /\ IsInjective(s) /\ ToSet(s) = S
<1>1. PICK n \in Nat : n = Cardinality(S)
  BY FS_CardinalityType
<1>2. /\ s \in Seq(S) /\ DOMAIN s = 1..n /\ ToSet(s) = S
      /\ \A i \in 1..n : s[i] \in S
      /\ \A i, j \in 1..n : i < j => s[i] < s[j]
  <2>1. S \in SUBSET Int
    OBVIOUS
  <2> QED BY <1>1, <2>1, SortedList
<1>3. s \in Seq(Nat)
  <2>1. s \in [DOMAIN s -> S]
    BY <1>2, LenProperties
  <2>2. s \in [1..n -> Nat]
    BY <1>2, <2>1
  <2> QED BY <2>2, SeqDef
<1>4. ASSUME NEW i \in 1..n, NEW j \in 1..n, s[i] = s[j] PROVE i = j
  <2>0. s[i] \in S
    BY <1>2
  <2>1. s[i] \in Nat
    BY <2>0, Zenon
  <2>2. ~(i < j) /\ ~(j < i)
    BY <1>2, <1>4, <2>1
  <2>3. i \in Int /\ j \in Int
    OBVIOUS
  <2> QED BY <2>2, <2>3
<1>5. IsInjective(s)
  BY <1>2, <1>4, Zenon DEF IsInjective
<1> QED BY <1>2, <1>3, <1>5

\* The list q consists of the elements of s at the positions P, which are at[1], at[2] and so on.
Selects(q, s, P, at) ==
  /\ Cardinality(P) \in Nat
  /\ Len(q) = Cardinality(P) /\ DOMAIN q = 1..Cardinality(P)
  /\ \A i \in 1..Cardinality(P) : at[i] \in P /\ q[i] = s[at[i]]
  /\ \A j \in P : \E i \in 1..Cardinality(P) : at[i] = j
  /\ \A i, j \in 1..Cardinality(P) : i < j => at[i] < at[j]

\* The part of a list at some positions.
LEMMA FilteredList ==
  ASSUME NEW T, NEW s \in Seq(T), NEW P \in SUBSET (1..Len(s))
  PROVE  Filtered(s, P) \in Seq(T) /\ Selects(Filtered(s, P), s, P, Ascending(P))
<1> DEFINE n == Cardinality(P)
           at == Ascending(P)
<1>1. Len(s) \in Nat /\ DOMAIN s = 1..Len(s) /\ \A i \in 1..Len(s) : s[i] \in T
  BY LenProperties, ElementOfSeq
<1>2. P \in SUBSET Int /\ IsFiniteSet(P)
  <2>1. IsFiniteSet(1..Len(s))
    BY <1>1, FS_Interval
  <2>2. IsFiniteSet(P)
    BY <2>1, FS_Subset
  <2> QED BY <1>1, <2>2
<1>3. /\ n \in Nat /\ DOMAIN at = 1..n /\ ToSet(at) = P
      /\ \A i \in 1..n : at[i] \in P
      /\ \A i, j \in 1..n : i < j => at[i] < at[j]
  BY <1>2, SortedList
<1> HIDE DEF at
<1>4. \A j \in P : \E i \in 1..n : at[i] = j
  BY <1>3 DEF ToSet
<1>5. Filtered(s, P) = [i \in 1..n |-> s[at[i]]]
  BY DEF Filtered, at
<1>6. Filtered(s, P) \in [1..n -> T]
  BY <1>1, <1>3, <1>5
<1>7. Filtered(s, P) \in Seq(T) /\ Len(Filtered(s, P)) = n
  BY <1>3, <1>6, SeqDef, LenProperties
<1> QED BY <1>3, <1>4, <1>5, <1>6, <1>7 DEF Selects, at

\* The elements of two lists in a row.
LEMMA ElementsOfConcat ==
  ASSUME NEW S, NEW s \in Seq(S), NEW t \in Seq(S)
  PROVE  ToSet(s \o t) = ToSet(s) \cup ToSet(t)
<1>1. /\ s \o t \in Seq(S) /\ Len(s \o t) = Len(s) + Len(t) /\ Len(s) \in Nat /\ Len(t) \in Nat
      /\ \A i \in 1..(Len(s) + Len(t)) : (s \o t)[i] = IF i <= Len(s) THEN s[i] ELSE t[i - Len(s)]
      /\ DOMAIN s = 1..Len(s) /\ DOMAIN t = 1..Len(t) /\ DOMAIN (s \o t) = 1..(Len(s) + Len(t))
  BY ConcatProperties, LenProperties
<1>2. PICK u : u = s \o t
  OBVIOUS
<1>3. \A i \in DOMAIN s : i \in DOMAIN u /\ u[i] = s[i]
  BY <1>1, <1>2
<1>4. \A i \in DOMAIN t : i + Len(s) \in DOMAIN u /\ u[i + Len(s)] = t[i]
  BY <1>1, <1>2
<1>5. \A i \in DOMAIN u : u[i] \in ToSet(s) \cup ToSet(t)
  BY <1>1, <1>2 DEF ToSet
<1>6. ToSet(s) \subseteq ToSet(u)
  BY <1>3, Zenon DEF ToSet
<1>7. ToSet(t) \subseteq ToSet(u)
  BY <1>4, Zenon DEF ToSet
<1>8. ToSet(u) \subseteq ToSet(s) \cup ToSet(t)
  BY <1>5, Zenon DEF ToSet
<1>9. ToSet(u) = ToSet(s) \cup ToSet(t)
  BY <1>6, <1>7, <1>8, Zenon
<1> QED BY <1>2, <1>9

\* Flattening joins the lists one after the other: the recursive function that the
\* library defines it by exists.
Cat(s, t)       == s \o t
Joins(f, ss, m) == f = [i \in 1..m |-> IF i = 1 THEN ss[i] ELSE Cat(f[i - 1], ss[i])]

\* The partial concatenations of a list of lists exist (the last one is what a fold computes).
LEMMA JoinsExists ==
  ASSUME NEW ss, NEW n \in Nat \ {0}
  PROVE  \E f : Joins(f, ss, n)
<1> DEFINE J(f, m) == f = [i \in 1..m |-> IF i = 1 THEN ss[i] ELSE Cat(f[i - 1], ss[i])]
           Bad == {m \in Nat \ {0} : ~\E f : J(f, m)}
<1>1. \A f, m : Joins(f, ss, m) <=> J(f, m)
  BY DEF Joins
<1>2. ASSUME NEW m \in Nat \ {0}, NEW f, J(f, m) PROVE \E g : J(g, m + 1)
  <2> DEFINE g == [i \in 1..(m + 1) |-> IF i = m + 1 THEN Cat(f[m], ss[i]) ELSE f[i]]
  <2>1. \A i \in 1..m : f[i] = IF i = 1 THEN ss[i] ELSE Cat(f[i - 1], ss[i])
    BY <1>2
  <2>2. ASSUME NEW i \in 1..(m + 1) PROVE g[i] = IF i = 1 THEN ss[i] ELSE Cat(g[i - 1], ss[i])
    <3>1. CASE i = m + 1
      BY <3>1
    <3>2. CASE i # m + 1
      BY <3>2, <2>1
    <3> QED BY <3>1, <3>2
  <2>3. g = [i \in 1..(m + 1) |-> g[i]]
    OBVIOUS
  <2> HIDE DEF g
  <2>4. J(g, m + 1)
    BY <2>2, <2>3
  <2> QED BY <2>4
<1>3. \E f : J(f, 1)
  <2>1. J([i \in 1..1 |-> ss[i]], 1)
    OBVIOUS
  <2> QED BY <2>1
<1> HIDE DEF J
<1>4. Bad = {}
  <2> SUFFICES ASSUME Bad # {} PROVE FALSE
    OBVIOUS
  <2>1. PICK x \in Bad : \A y \in Bad : x <= y
    BY LeastNumber
  <2>2. x # 1
    BY <1>3, <2>1
  <2>3. x - 1 \in Nat \ {0} /\ x - 1 \notin Bad /\ (x - 1) + 1 = x
    BY <2>1, <2>2
  <2>4. PICK f : J(f, x - 1)
    BY <2>3
  <2>5. \E g : J(g, x)
    BY <1>2, <2>3, <2>4
  <2> QED BY <2>1, <2>5
<1> QED BY <1>1, <1>4

\* Two lists without repetitions and common elements have none together.
LEMMA InjectiveConcat ==
  ASSUME NEW S, NEW s \in Seq(S), NEW t \in Seq(S), IsInjective(s), IsInjective(t), ToSet(s) \cap ToSet(t) = {}
  PROVE  IsInjective(s \o t)
<1>1. /\ Len(s) \in Nat /\ Len(t) \in Nat
      /\ \A i \in 1..(Len(s) + Len(t)) : (s \o t)[i] = IF i <= Len(s) THEN s[i] ELSE t[i - Len(s)]
      /\ DOMAIN s = 1..Len(s) /\ DOMAIN t = 1..Len(t) /\ DOMAIN (s \o t) = 1..(Len(s) + Len(t))
  BY ConcatProperties, LenProperties
<1>2. PICK u : u = s \o t
  OBVIOUS
<1>3. ASSUME NEW i \in DOMAIN u
      PROVE  \/ i \in DOMAIN s /\ u[i] = s[i]
             \/ i > Len(s) /\ i - Len(s) \in DOMAIN t /\ u[i] = t[i - Len(s)]
  <2>0. i \in 1..(Len(s) + Len(t)) /\ DOMAIN s = 1..Len(s) /\ DOMAIN t = 1..Len(t)
    BY <1>1, <1>2
  <2>1. u[i] = IF i <= Len(s) THEN s[i] ELSE t[i - Len(s)]
    BY <1>1, <1>2, <2>0
  <2> QED BY <1>1, <2>0, <2>1
<1>4. \A i \in DOMAIN s, j \in DOMAIN t : s[i] # t[j]
  BY DEF ToSet
<1>5. ASSUME NEW i \in DOMAIN u, NEW j \in DOMAIN u, u[i] = u[j] PROVE i = j
  <2>1. CASE i \in DOMAIN s /\ u[i] = s[i]
    <3>1. j \in DOMAIN s /\ u[j] = s[j]
      BY <1>3, <1>4, <1>5, <2>1
    <3> QED BY <1>5, <2>1, <3>1 DEF IsInjective
  <2>2. CASE i > Len(s) /\ i - Len(s) \in DOMAIN t /\ u[i] = t[i - Len(s)]
    <3>1. j > Len(s) /\ j - Len(s) \in DOMAIN t /\ u[j] = t[j - Len(s)]
      BY <1>3, <1>4, <1>5, <2>2
    <3>2. i - Len(s) = j - Len(s)
      BY <1>5, <2>2, <3>1 DEF IsInjective
    <3>3. i \in Int /\ j \in Int /\ Len(s) \in Int
      BY <1>1, <1>2
    <3> QED BY <3>2, <3>3
  <2> QED BY <1>3, <2>1, <2>2
<1>6. IsInjective(u)
  BY <1>5, Zenon DEF IsInjective
<1> QED BY <1>2, <1>6

\* The elements of the first m lists; lists without repetitions and common elements.
Elements(ss, m) == UNION {ToSet(ss[i]) : i \in 1..m}
Separate(ss)    == /\ \A i \in 1..Len(ss) : IsInjective(ss[i])
                   /\ \A i, j \in 1..Len(ss) : i # j => ToSet(ss[i]) \cap ToSet(ss[j]) = {}
AllOf(ss, c)    == \A i \in 1..Len(ss) : Len(ss[i]) = c

\* What the first m lists are joined to.
JoinOK(T, ss, u, m) ==
  /\ u \in Seq(T)
  /\ ToSet(u) = Elements(ss, m)
  /\ Separate(ss) => IsInjective(u)
  /\ AllOf(ss, 1) => Len(u) = m
  /\ AllOf(ss, 2) => Len(u) = 2 * m

\* FlattenSeq is that concatenation.
LEMMA Flattened ==
  ASSUME NEW T, NEW ss \in Seq(Seq(T))
  PROVE  JoinOK(T, ss, FlattenSeq(ss), Len(ss))
<1>0. Len(ss) \in Nat /\ \A i \in 1..Len(ss) : ss[i] \in Seq(T)
  BY LenProperties, ElementOfSeq
<1>1. CASE Len(ss) = 0
  <2>1. FlattenSeq(ss) = <<>>
    BY <1>1, EmptySeq DEF FlattenSeq
  <2>2. <<>> \in Seq(T) /\ Len(<<>>) = 0 /\ ToSet(<<>>) = {} /\ IsInjective(<<>>)
    BY DEF ToSet, IsInjective
  <2>3. Elements(ss, 0) = {}
    BY DEF Elements
  <2> QED BY <1>1, <2>1, <2>2, <2>3 DEF JoinOK
<1>2. CASE Len(ss) # 0
  <2> DEFINE n == Len(ss)
  <2>1. n \in Nat \ {0}
    BY <1>0, <1>2
  <2>2. FlattenSeq(ss) = (CHOOSE g : Joins(g, ss, n))[n]
    BY <1>2 DEF FlattenSeq, Joins, Cat
  <2>3. PICK f : Joins(f, ss, n) /\ FlattenSeq(ss) = f[n]
    BY <2>1, <2>2, JoinsExists
  <2> DEFINE Bad == {m \in 1..n : ~JoinOK(T, ss, f[m], m)}
  <2>4. f[1] = ss[1] /\ \A i \in 1..n : i # 1 => f[i] = Cat(f[i - 1], ss[i])
    <3> HIDE DEF n
    <3>1. ASSUME NEW g, Joins(g, ss, n), NEW i \in 1..n PROVE g[i] = IF i = 1 THEN ss[i] ELSE Cat(g[i - 1], ss[i])
      BY <3>1 DEF Joins
    <3>2. \A i \in 1..n : f[i] = IF i = 1 THEN ss[i] ELSE Cat(f[i - 1], ss[i])
      BY <2>3, <3>1
    <3>3. 1 \in 1..n
      BY <2>1
    <3> QED BY <3>2, <3>3
  <2> HIDE DEF n
  <2>5. JoinOK(T, ss, f[1], 1)
    <3>1. f[1] \in Seq(T)
      BY <1>0, <2>1, <2>4 DEF n
    <3>2. ToSet(ss[1]) = Elements(ss, 1)
      BY DEF Elements
    <3> QED BY <1>0, <2>1, <2>4, <3>1, <3>2 DEF JoinOK, Separate, AllOf, n
  <2>6. ASSUME NEW m \in 2..n, JoinOK(T, ss, f[m - 1], m - 1) PROVE JoinOK(T, ss, f[m], m)
    <3> DEFINE u == f[m - 1]
               v == ss[m]
    <3>0. m \in 1..n /\ m # 1
      BY <2>1
    <3>1. u \in Seq(T) /\ v \in Seq(T) /\ f[m] = Cat(u, v)
      BY <1>0, <2>4, <2>6, <3>0 DEF JoinOK, n
    <3> HIDE DEF u, v
    <3>2. u \o v \in Seq(T) /\ Len(u \o v) = Len(u) + Len(v)
      BY <3>1, ConcatProperties
    <3>3. ToSet(u) = Elements(ss, m - 1) /\ (Separate(ss) => IsInjective(u))
          /\ (AllOf(ss, 1) => Len(u) = m - 1) /\ (AllOf(ss, 2) => Len(u) = 2 * (m - 1))
      BY <2>6 DEF JoinOK, u
    <3>4. ToSet(u \o v) = Elements(ss, m)
      <4>1. ToSet(u \o v) = ToSet(u) \cup ToSet(v)
        BY <3>1, ElementsOfConcat
      <4>2. 1..m = 1..(m - 1) \cup {m}
        BY <2>1
      <4>3. Elements(ss, m) = Elements(ss, m - 1) \cup ToSet(v)
        BY <4>2, Zenon DEF Elements, v
      <4> QED BY <3>3, <4>1, <4>3
    <3>5. Separate(ss) => IsInjective(u \o v)
      <4> SUFFICES ASSUME Separate(ss) PROVE IsInjective(u \o v)
        OBVIOUS
      <4>1. \A i \in 1..(m - 1) : i \in 1..n /\ m \in 1..n /\ i # m
        BY <2>1
      <4>2. \A i \in 1..(m - 1) : ToSet(ss[i]) \cap ToSet(v) = {}
        BY <4>1 DEF Separate, n, v
      <4>3. ToSet(u) \cap ToSet(v) = {}
        BY <3>3, <4>2, Zenon DEF Elements
      <4>4. IsInjective(u) /\ IsInjective(v)
        BY <3>0, <3>3 DEF Separate, n, v
      <4> QED BY <3>1, <4>3, <4>4, InjectiveConcat
    <3>6. \A c \in {1, 2} : AllOf(ss, c) => Len(v) = c
      BY <3>0 DEF AllOf, n, v
    <3>7. Len(u) \in Nat /\ Len(v) \in Nat /\ m \in Nat
      BY <2>1, <3>1, LenProperties
    <3>8. (AllOf(ss, 1) => Len(u \o v) = m) /\ (AllOf(ss, 2) => Len(u \o v) = 2 * m)
      <4>1. PICK x, y, z : x = Len(u) /\ y = Len(v) /\ z = Len(u \o v) /\ z = x + y
        BY <3>2
      <4>2. x \in Nat /\ y \in Nat
        BY <3>7, <4>1
      <4>3. AllOf(ss, 1) => x = m - 1 /\ y = 1
        BY <3>3, <3>6, <4>1
      <4>4. AllOf(ss, 2) => x = 2 * (m - 1) /\ y = 2
        BY <3>3, <3>6, <4>1
      <4>5. (AllOf(ss, 1) => z = m) /\ (AllOf(ss, 2) => z = 2 * m)
        <5>1. m \in Nat /\ (x = m - 1 /\ y = 1 => x + y = m) /\ (x = 2 * (m - 1) /\ y = 2 => x + y = 2 * m)
          BY <3>7
        <5> QED BY <4>1, <4>3, <4>4, <5>1
      <4> QED BY <4>1, <4>5
    <3> QED BY <3>1, <3>2, <3>4, <3>5, <3>8 DEF JoinOK, Cat
  <2>7. Bad = {}
    <3> SUFFICES ASSUME Bad # {} PROVE FALSE
      OBVIOUS
    <3>0. Bad \in SUBSET Nat
      BY <2>1
    <3>1. PICK x \in Bad : \A y \in Bad : x <= y
      BY <3>0, LeastNumber
    <3>2. x # 1
      BY <2>5, <3>1
    <3>3. x \in 2..n /\ x - 1 \in 1..n /\ ~(x <= x - 1)
      BY <2>1, <3>1, <3>2
    <3>4. JoinOK(T, ss, f[x - 1], x - 1)
      BY <3>1, <3>3
    <3> QED BY <2>6, <3>1, <3>3, <3>4
  <2>8. n \in 1..n
    BY <2>1
  <2> QED BY <2>3, <2>7, <2>8 DEF n
<1> QED BY <1>1, <1>2

-----------------------------------------------------------------------------
(* Scans *)

\* A scan fills in the profile and leaves the machine alone.
LEMMA ScanKeeps ==
  ASSUME NEW m, IsMachine(m), NEW n, n = scan_system(m)
  PROVE  /\ DOMAIN n = DOMAIN m
         /\ \A x \in Hardware : n[x] = m[x]
         /\ n.gpus = detect_all(m) /\ n.monitors = detect_monitors(m) /\ n.domains = detect_libvirt_domains(m)
         /\ n.cpus = build_core_thread_map(m.cpuinfo) /\ n.cores = Len(n.cpus)
         /\ n.threads = Len(FlattenSeq(n.cpus)) /\ n.ht = (\E c \in DOMAIN n.cpus : Len(n.cpus[c]) > 1)
         /\ IsMachine(n)
<1>1. DOMAIN m = Profile \cup Hardware
  BY DEF IsMachine
<1>2. DOMAIN n = DOMAIN m
  BY DEF scan_system
<1>3. \A x \in Hardware : n[x] = m[x]
  BY <1>1 DEF scan_system, Profile, Hardware
<1>4. /\ n.gpus = detect_all(m) /\ n.monitors = detect_monitors(m) /\ n.domains = detect_libvirt_domains(m)
      /\ n.cpus = build_core_thread_map(m.cpuinfo)
  BY <1>1 DEF scan_system, Profile, Hardware
<1>5. /\ n.cores = Len(n.cpus)
      /\ n.threads = Len(FlattenSeq(n.cpus)) /\ n.ht = (\E c \in DOMAIN n.cpus : Len(n.cpus[c]) > 1)
  BY <1>1, <1>4 DEF scan_system, Profile, Hardware
<1>6. IsMachine(n)
  BY <1>1, <1>2, <1>3 DEF IsMachine, Hardware
<1> QED BY <1>2, <1>3, <1>4, <1>5, <1>6

\* The monitors are a list.
LEMMA MonitorList ==
  ASSUME NEW m, IsMachine(m)
  PROVE  detect_monitors(m) \in Seq(DrmConnector)
<1>1. m.drm \in Seq(DrmConnector)
  BY DEF IsMachine
<1>2. DOMAIN m.drm = 1..Len(m.drm)
  BY <1>1, LenProperties
<1>3. ASSUME NEW P \in SUBSET DOMAIN m.drm PROVE Filtered(m.drm, P) \in Seq(DrmConnector)
  BY <1>1, <1>2, FilteredList
<1> DEFINE P(c, i) == {d \in DOMAIN m.drm : m.drm[d].connected = c /\ m.drm[d].internal = i}
           a == Filtered(m.drm, P(TRUE, FALSE))
           b == Filtered(m.drm, P(TRUE, TRUE))
           c == Filtered(m.drm, P(FALSE, FALSE))
           d == Filtered(m.drm, P(FALSE, TRUE))
<1>4. a \in Seq(DrmConnector) /\ b \in Seq(DrmConnector) /\ c \in Seq(DrmConnector) /\ d \in Seq(DrmConnector)
  BY <1>3
<1>5. detect_monitors(m) = ((a \o b) \o c) \o d
  BY DEF detect_monitors
<1> HIDE DEF a, b, c, d
<1>6. a \o b \in Seq(DrmConnector)
  BY <1>4, ConcatProperties
<1>7. (a \o b) \o c \in Seq(DrmConnector)
  BY <1>4, <1>6, ConcatProperties
<1>8. ((a \o b) \o c) \o d \in Seq(DrmConnector)
  BY <1>4, <1>7, ConcatProperties
<1> QED BY <1>5, <1>8

\* Where the display functions are.
Displays(m) == {j \in DOMAIN m.pci : m.pci[j].class = "display"}

\* The GPUs are the display functions, in their order.
LEMMA GpuList ==
  ASSUME NEW m, IsMachine(m), NEW g, g = detect_all(m), NEW at, at = Ascending(Displays(m))
  PROVE  /\ Cardinality(Displays(m)) \in Nat /\ Len(g) = Cardinality(Displays(m))
         /\ g \in Seq(ToSet(g)) /\ DOMAIN g = 1..Len(g)
         /\ \A i \in DOMAIN g : at[i] \in Displays(m) /\ g[i] = parse_gpu_device(m, m.pci[at[i]])
         /\ \A j \in Displays(m) : \E i \in DOMAIN g : at[i] = j
         /\ \A i, j \in DOMAIN g : at[i] = at[j] => i = j
<1> DEFINE D == Displays(m)
           n == Cardinality(D)
<1>1. m.pci \in Seq(PciFunction) /\ DOMAIN m.pci = 1..Len(m.pci) /\ Len(m.pci) \in Nat
  BY LenProperties DEF IsMachine
<1>2. D \in SUBSET (1..Len(m.pci))
  BY <1>1 DEF Displays
<1>3. /\ n \in Nat /\ DOMAIN Filtered(m.pci, D) = 1..n
      /\ \A i \in 1..n : at[i] \in D /\ Filtered(m.pci, D)[i] = m.pci[at[i]]
      /\ \A j \in D : \E i \in 1..n : at[i] = j
      /\ \A i, j \in 1..n : i < j => at[i] < at[j]
  <2>1. Selects(Filtered(m.pci, D), m.pci, D, at)
    BY <1>1, <1>2, FilteredList
  <2> QED BY <2>1 DEF Selects
<1>4. g = [i \in 1..n |-> parse_gpu_device(m, m.pci[at[i]])]
  BY <1>3, Zenon DEF detect_all, Displays
<1>5. g \in Seq(ToSet(g)) /\ Len(g) = n /\ DOMAIN g = 1..n
  <2>1. g \in [1..n -> ToSet(g)]
    BY <1>4 DEF ToSet
  <2> QED BY <1>3, <2>1, SeqDef, LenProperties
<1>6. ASSUME NEW i \in 1..n, NEW j \in 1..n, at[i] = at[j] PROVE i = j
  <2>1. at[i] \in Int /\ i \in Int /\ j \in Int
    BY <1>1, <1>2, <1>3
  <2>2. ~(i < j) /\ ~(j < i)
    BY <1>3, <1>6, <2>1
  <2> QED BY <2>1, <2>2
<1> QED BY <1>3, <1>4, <1>5, <1>6

\* A list has finitely many elements.
LEMMA FiniteRange ==
  ASSUME NEW T, NEW s \in Seq(T)
  PROVE  IsFiniteSet(ToSet(s))
<1>1. Len(s) \in Nat /\ DOMAIN s = 1..Len(s) /\ s \in [1..Len(s) -> T]
  BY LenProperties
<1>2. s \in Surjection(1..Len(s), ToSet(s))
  BY <1>1 DEF Surjection, ToSet
<1>3. IsFiniteSet(1..Len(s))
  BY <1>1, FS_Interval
<1> QED BY <1>2, <1>3, FS_Surjection

\* The logical CPUs of a core; the order of the cores.
ThreadsOf(info, key) == {p \in 0..(Len(info) - 1) : info[p + 1] = key}
Before(a, b)         == a[1] < b[1] \/ (a[1] = b[1] /\ a[2] < b[2])

\* Every core has a thread, and no two cores share one; the threads of a core stay
\* together.
LEMMA CoreList ==
  ASSUME NEW info \in Seq(Nat \X Nat), NEW cpus, cpus = build_core_thread_map(info)
  PROVE  /\ cpus \in Seq(Seq(Nat)) /\ Separate(cpus)
         /\ \A i \in 1..Len(cpus) : ToSet(cpus[i]) # {}
         /\ \A i \in 1..Len(cpus), p, q \in DOMAIN info :
              info[p] = info[q] /\ p - 1 \in ToSet(cpus[i]) => q - 1 \in ToSet(cpus[i])
<1> DEFINE keys == ToSet(info)
           n == Cardinality(keys)
           R == {x \in keys \X keys : Before(x[1], x[2])}
           Key(i) == CHOOSE a \in keys : Cardinality({b \in keys : Before(b, a)}) = i - 1
<1>1. Len(info) \in Nat /\ DOMAIN info = 1..Len(info)
  BY LenProperties
<1>0. \A p \in 1..Len(info) : (p - 1) + 1 = p /\ p - 1 \in 0..(Len(info) - 1)
  BY <1>1
<1>2. IsFiniteSet(keys)
  BY FiniteRange
<1>3. \A a \in keys : a \in Nat \X Nat /\ a[1] \in Nat /\ a[2] \in Nat /\ a = <<a[1], a[2]>>
  <2>1. \A i \in 1..Len(info) : info[i] \in Nat \X Nat
    BY ElementOfSeq
  <2> QED BY <1>1, <2>1 DEF ToSet
<1>4. cpus = [i \in 1..n |-> Ascending(ThreadsOf(info, Key(i)))]
  BY DEF build_core_thread_map, ThreadsOf, Before
<1> HIDE DEF keys
<1>5. \A a, b \in keys : <<a, b>> \in R <=> Before(a, b)
  OBVIOUS
<1>6. Numbered(R, keys)
  <2> HIDE DEF R
  <2>1. ASSUME NEW a \in keys, NEW b \in keys, NEW c \in keys, <<a, b>> \in R, <<b, c>> \in R PROVE <<a, c>> \in R
    <3>1. Before(a, b) /\ Before(b, c)
      BY <1>5, <2>1
    <3>2. PICK a1, a2, b1, b2, c1, c2 \in Nat : /\ a1 = a[1] /\ a2 = a[2] /\ b1 = b[1] /\ b2 = b[2]
                                                /\ c1 = c[1] /\ c2 = c[2]
      BY <1>3, Zenon
    <3>3. (a1 < b1 \/ (a1 = b1 /\ a2 < b2)) /\ (b1 < c1 \/ (b1 = c1 /\ b2 < c2))
      BY <3>1, <3>2, Zenon DEF Before
    <3>4. a1 < c1 \/ (a1 = c1 /\ a2 < c2)
      BY <3>3
    <3>5. Before(a, c)
      BY <3>2, <3>4, Zenon DEF Before
    <3> QED BY <1>5, <3>5
  <2>2. \A a \in keys : <<a, a>> \notin R
    BY <1>3, <1>5 DEF Before
  <2>3. ASSUME NEW a \in keys, NEW b \in keys PROVE a = b \/ <<a, b>> \in R \/ <<b, a>> \in R
    <3>1. PICK a1, a2, b1, b2 \in Nat : a1 = a[1] /\ a2 = a[2] /\ b1 = b[1] /\ b2 = b[2]
      BY <1>3, Zenon
    <3>2. a = <<a1, a2>> /\ b = <<b1, b2>>
      BY <1>3, <3>1, Zenon
    <3>3. \/ a1 = b1 /\ a2 = b2
          \/ a1 < b1 \/ (a1 = b1 /\ a2 < b2)
          \/ b1 < a1 \/ (b1 = a1 /\ b2 < a2)
      OBVIOUS
    <3>4. a = b \/ Before(a, b) \/ Before(b, a)
      BY <3>1, <3>2, <3>3, Zenon DEF Before
    <3> QED BY <1>5, <3>4
  <2>4. Orders(R, keys)
    BY <2>1, <2>2, <2>3, Zenon DEF Orders
  <2> QED BY <1>2, <2>4, Ranks
<1>7. \A a \in keys : Below(R, keys, a) = {b \in keys : Before(b, a)}
  BY <1>5 DEF Below
<1> HIDE DEF R
<1>8. n \in Nat /\ \A i \in 1..n : Key(i) \in keys /\ Cardinality(Below(R, keys, Key(i))) = i - 1
  <2>1. n \in Nat /\ \A k \in 0..(n - 1) : \E a \in keys : Cardinality(Below(R, keys, a)) = k
    BY <1>6 DEF Numbered
  <2> SUFFICES ASSUME NEW i \in 1..n PROVE Key(i) \in keys /\ Cardinality(Below(R, keys, Key(i))) = i - 1
    BY <2>1
  <2>2. i - 1 \in 0..(n - 1)
    BY <2>1
  <2>3. \E a \in keys : Cardinality({b \in keys : Before(b, a)}) = i - 1
    BY <1>7, <2>1, <2>2
  <2>4. Key(i) \in keys /\ Cardinality({b \in keys : Before(b, Key(i))}) = i - 1
    BY <2>3
  <2> QED BY <1>7, <2>4
<1> HIDE DEF Key
<1>9. \A i, j \in 1..n : Key(i) = Key(j) => i = j
  BY <1>8
<1>10. ASSUME NEW i \in 1..n
       PROVE  /\ cpus[i] \in Seq(Nat) /\ ToSet(cpus[i]) = ThreadsOf(info, Key(i)) /\ IsInjective(cpus[i])
              /\ ThreadsOf(info, Key(i)) # {}
  <2> DEFINE S == ThreadsOf(info, Key(i))
  <2>1. S \in SUBSET Int /\ S \in SUBSET Nat /\ IsFiniteSet(S)
    <3>1. IsFiniteSet(0..(Len(info) - 1))
      BY <1>1, FS_Interval
    <3>2. S \in SUBSET (0..(Len(info) - 1))
      BY DEF ThreadsOf
    <3>3. IsFiniteSet(S)
      BY <3>1, <3>2, FS_Subset
    <3> QED BY <1>1, <3>2, <3>3
  <2> HIDE DEF S
  <2>2. cpus[i] = Ascending(S)
    BY <1>4 DEF S
  <2>3. cpus[i] \in Seq(Nat) /\ ToSet(cpus[i]) = S /\ IsInjective(cpus[i])
    BY <2>1, <2>2, SortedNumbers
  <2>6. S # {}
    <3>1. PICK p \in 1..Len(info) : info[p] = Key(i)
      BY <1>1, <1>8 DEF ToSet, keys
    <3>2. p - 1 \in 0..(Len(info) - 1) /\ (p - 1) + 1 = p
      BY <1>1
    <3> QED BY <3>1, <3>2 DEF S, ThreadsOf
  <2> QED BY <2>3, <2>6 DEF S
<1>11. cpus \in Seq(Seq(Nat)) /\ Len(cpus) = n
  <2> HIDE DEF n
  <2>1. DOMAIN cpus = 1..n /\ cpus = [i \in 1..n |-> cpus[i]]
    BY <1>4
  <2>2. cpus \in [1..n -> Seq(Nat)]
    BY <1>10, <2>1
  <2> QED BY <1>8, <2>2, SeqDef, LenProperties
<1>12. Separate(cpus)
  <2>1. ASSUME NEW i \in 1..n, NEW j \in 1..n, i # j PROVE ToSet(cpus[i]) \cap ToSet(cpus[j]) = {}
    BY <1>9, <1>10, <2>1 DEF ThreadsOf
  <2> QED BY <1>10, <1>11, <2>1 DEF Separate
<1>13. ASSUME NEW i \in 1..n, NEW p \in DOMAIN info, NEW q \in DOMAIN info,
              info[p] = info[q], p - 1 \in ToSet(cpus[i])
       PROVE  q - 1 \in ToSet(cpus[i])
  <2>0. p - 1 \in ThreadsOf(info, Key(i))
    BY <1>10, <1>13
  <2>1. (p - 1) + 1 = p /\ (q - 1) + 1 = q /\ q - 1 \in 0..(Len(info) - 1)
    BY <1>0, <1>1, Zenon
  <2>2. q - 1 \in ThreadsOf(info, Key(i))
    BY <1>13, <2>0, <2>1 DEF ThreadsOf
  <2> QED BY <1>10, <2>2
<1> QED BY <1>10, <1>11, <1>12, <1>13

\* GPUs and monitors depend on functions, connectors and the IOMMU only.
LEMMA SameDevices ==
  ASSUME NEW m, NEW n, n.pci = m.pci, n.lacks = m.lacks, n.drm = m.drm
  PROVE  detect_all(n) = detect_all(m) /\ detect_monitors(n) = detect_monitors(m)
<1>1. ASSUME NEW f PROVE parse_gpu_device(n, f) = parse_gpu_device(m, f)
  BY DEF parse_gpu_device, read_group_devices
<1>2. detect_all(n) = detect_all(m)
  BY <1>1, Zenon DEF detect_all
<1>3. detect_monitors(n) = detect_monitors(m)
  BY Zenon DEF detect_monitors
<1> QED BY <1>2, <1>3

\* A machine whose profile is that of a scan; libvirt may have changed since.
Scanned(h) ==
  /\ IsMachine(h)
  /\ h.gpus = detect_all(h) /\ h.monitors = detect_monitors(h)
  /\ h.domains \in SUBSET (Nat \ {0}) /\ IsFiniteSet(h.domains)
  /\ h.cpus = build_core_thread_map(h.cpuinfo) /\ h.cores = Len(h.cpus)
  /\ h.threads = Len(FlattenSeq(h.cpus)) /\ h.ht = (\E c \in DOMAIN h.cpus : Len(h.cpus[c]) > 1)

\* A scan of a machine gives a scanned host.
LEMMA ScanIsScanned ==
  ASSUME NEW m, IsMachine(m), NEW n, n = scan_system(m)
  PROVE  Scanned(n) /\ n.domains = detect_libvirt_domains(n)
<1>1. /\ \A x \in Hardware : n[x] = m[x]
      /\ n.gpus = detect_all(m) /\ n.monitors = detect_monitors(m) /\ n.domains = detect_libvirt_domains(m)
      /\ n.cpus = build_core_thread_map(m.cpuinfo) /\ n.cores = Len(n.cpus)
      /\ n.threads = Len(FlattenSeq(n.cpus)) /\ n.ht = (\E c \in DOMAIN n.cpus : Len(n.cpus[c]) > 1)
      /\ IsMachine(n)
  BY ScanKeeps
<1>2. /\ n.pci = m.pci /\ n.lacks = m.lacks /\ n.drm = m.drm /\ n.cpuinfo = m.cpuinfo
      /\ n.lists = m.lists /\ n.defined = m.defined
  BY <1>1 DEF Hardware
<1>3. n.gpus = detect_all(n) /\ n.monitors = detect_monitors(n)
  BY <1>1, <1>2, SameDevices
<1>4. n.domains = detect_libvirt_domains(n)
  BY <1>1, <1>2, Zenon DEF detect_libvirt_domains
<1>5. n.domains \in SUBSET (Nat \ {0}) /\ IsFiniteSet(n.domains)
  <2>1. n.domains = {} \/ n.domains = n.defined
    BY <1>4 DEF detect_libvirt_domains
  <2>2. n.defined \subseteq Nat \ {0} /\ IsFiniteSet(n.defined)
    BY <1>1 DEF IsMachine
  <2> QED BY <2>1, <2>2, FS_EmptySet
<1> QED BY <1>1, <1>2, <1>3, <1>4, <1>5 DEF Scanned

\* What a GPU is known by: the function at its place.
LEMMA GpuFields ==
  ASSUME NEW h, Scanned(h), NEW at, at = Ascending(Displays(h))
  PROVE  /\ Len(h.gpus) \in Nat /\ DOMAIN h.gpus = 1..Len(h.gpus) /\ (h.gpus = <<>> <=> Len(h.gpus) = 0)
         /\ \A i \in DOMAIN h.gpus :
              /\ at[i] \in DOMAIN h.pci /\ h.pci[at[i]].class = "display"
              /\ h.gpus[i] = parse_gpu_device(h, h.pci[at[i]])
         /\ \A j \in DOMAIN h.pci : h.pci[j].class = "display" => \E i \in DOMAIN h.gpus : at[i] = j
         /\ \A i, j \in DOMAIN h.gpus : at[i] = at[j] => i = j
<1> DEFINE g == h.gpus
<1>0. IsMachine(h) /\ g = detect_all(h)
  BY DEF Scanned
<1> HIDE DEF g
<1>1. /\ Cardinality(Displays(h)) \in Nat /\ Len(g) = Cardinality(Displays(h))
      /\ g \in Seq(ToSet(g)) /\ DOMAIN g = 1..Len(g)
      /\ \A i \in DOMAIN g : at[i] \in Displays(h) /\ g[i] = parse_gpu_device(h, h.pci[at[i]])
      /\ \A j \in Displays(h) : \E i \in DOMAIN g : at[i] = j
      /\ \A i, j \in DOMAIN g : at[i] = at[j] => i = j
  BY <1>0, GpuList
<1>2. g = <<>> <=> Len(g) = 0
  BY <1>1, EmptySeq
<1>3. \A j : j \in Displays(h) <=> j \in DOMAIN h.pci /\ h.pci[j].class = "display"
  BY DEF Displays
<1>4. Len(g) \in Nat
  BY <1>1
<1> QED BY <1>1, <1>2, <1>3, <1>4, Zenon DEF g

\* Isolation in terms of positions.
LEMMA IsolatedAt ==
  ASSUME NEW m, NEW f
  PROVE  /\ check_gpu_isolation(read_group_devices(m, f)) \in BOOLEAN
         /\ check_gpu_isolation(read_group_devices(m, f)) <=>
              /\ "iommu" \notin m.lacks
              /\ \E j \in DOMAIN m.pci : m.pci[j].group = f.group /\ m.pci[j].class # "bridge"
              /\ \A j \in DOMAIN m.pci :
                   m.pci[j].group = f.group /\ m.pci[j].class # "bridge" => m.pci[j].class \in {"display", "audio"}
<1> DEFINE D == read_group_devices(m, f)
<1>1. \A d : d \in D <=> "iommu" \notin m.lacks /\ \E j \in DOMAIN m.pci : m.pci[j].group = f.group /\ d = m.pci[j]
  BY DEF read_group_devices, ToSet
<1> HIDE DEF D
<1>2. check_gpu_isolation(D) \in BOOLEAN
  BY DEF check_gpu_isolation
<1>3. check_gpu_isolation(D) <=> (\E d \in D : d.class # "bridge") /\ \A d \in D : d.class # "bridge" => d.class \in {"display", "audio"}
  BY DEF check_gpu_isolation
<1>4. (\E d \in D : d.class # "bridge") <=>
        "iommu" \notin m.lacks /\ \E j \in DOMAIN m.pci : m.pci[j].group = f.group /\ m.pci[j].class # "bridge"
  BY <1>1
<1>5. "iommu" \notin m.lacks =>
        ((\A d \in D : d.class # "bridge" => d.class \in {"display", "audio"}) <=>
         \A j \in DOMAIN m.pci :
           m.pci[j].group = f.group /\ m.pci[j].class # "bridge" => m.pci[j].class \in {"display", "audio"})
  BY <1>1
<1> QED BY <1>2, <1>3, <1>4, <1>5, Zenon DEF D

\* Two lists of functions, and two lists of GPUs, that differ in drivers only.
SameButDriver(p, q) ==
  /\ DOMAIN q = DOMAIN p
  /\ \A j \in DOMAIN p : /\ q[j].bus = p[j].bus /\ q[j].dev = p[j].dev /\ q[j].fn = p[j].fn
                         /\ q[j].class = p[j].class /\ q[j].vendor = p[j].vendor /\ q[j].id = p[j].id
                         /\ q[j].group = p[j].group /\ q[j].boot_vga = p[j].boot_vga

Alike(g, e) ==
  /\ DOMAIN e = DOMAIN g
  /\ \A i \in DOMAIN g : /\ e[i].type = g[i].type /\ e[i].id = g[i].id /\ e[i].audio = g[i].audio
                         /\ e[i].isolated = g[i].isolated /\ e[i].boot_vga = g[i].boot_vga
                         /\ e[i].slot = g[i].slot /\ e[i].group = g[i].group

\* A boot changes nothing of a GPU but its driver.
LEMMA AlikeAfterBoot ==
  ASSUME NEW h, Scanned(h), NEW n, Scanned(n), SameButDriver(h.pci, n.pci), n.lacks = h.lacks
  PROVE  Alike(h.gpus, n.gpus)
<1> DEFINE at == Ascending(Displays(h))
<1>1. Displays(n) = Displays(h)
  BY DEF Displays, SameButDriver
<1>2. /\ Len(h.gpus) \in Nat /\ DOMAIN h.gpus = 1..Len(h.gpus)
      /\ \A i \in DOMAIN h.gpus : at[i] \in DOMAIN h.pci /\ h.gpus[i] = parse_gpu_device(h, h.pci[at[i]])
  BY GpuFields
<1>3. /\ Len(n.gpus) \in Nat /\ DOMAIN n.gpus = 1..Len(n.gpus)
      /\ \A i \in DOMAIN n.gpus : n.gpus[i] = parse_gpu_device(n, n.pci[at[i]])
  BY <1>1, GpuFields
<1>4. Len(n.gpus) = Len(h.gpus)
  <2>1. IsMachine(h) /\ IsMachine(n) /\ h.gpus = detect_all(h) /\ n.gpus = detect_all(n)
    BY DEF Scanned
  <2>2. Len(h.gpus) = Cardinality(Displays(h)) /\ Len(n.gpus) = Cardinality(Displays(n))
    BY <2>1, GpuList
  <2> QED BY <1>1, <2>2
<1> HIDE DEF at
<1>5. ASSUME NEW i \in DOMAIN h.gpus
      PROVE  /\ n.gpus[i].type = h.gpus[i].type /\ n.gpus[i].id = h.gpus[i].id
             /\ n.gpus[i].audio = h.gpus[i].audio
             /\ n.gpus[i].isolated = h.gpus[i].isolated /\ n.gpus[i].boot_vga = h.gpus[i].boot_vga
             /\ n.gpus[i].slot = h.gpus[i].slot /\ n.gpus[i].group = h.gpus[i].group
  <2>1. PICK f, e : /\ f = h.pci[at[i]] /\ e = n.pci[at[i]]
                    /\ h.gpus[i] = parse_gpu_device(h, f) /\ n.gpus[i] = parse_gpu_device(n, e)
    BY <1>2, <1>3, <1>4
  <2>2. /\ e.bus = f.bus /\ e.dev = f.dev /\ e.fn = f.fn /\ e.class = f.class /\ e.vendor = f.vendor
        /\ e.id = f.id /\ e.group = f.group /\ e.boot_vga = f.boot_vga
    BY <1>2, <2>1 DEF SameButDriver
  <2>3. Slot(e) = Slot(f) /\ determine_gpu_type(e) = determine_gpu_type(f)
    BY <2>2, Zenon DEF Slot, determine_gpu_type
  <2>4. detect_companion_audio(n.pci, e) = detect_companion_audio(h.pci, f)
    <3> DEFINE A(p, x) == {j \in DOMAIN p : Slot(p[j]) = Slot(x) /\ p[j].fn \in 1..7 /\ p[j].class = "audio"}
    <3>1. \A j \in DOMAIN h.pci : Slot(n.pci[j]) = Slot(h.pci[j])
      BY DEF Slot, SameButDriver
    <3>2. A(n.pci, e) = A(h.pci, f)
      BY <2>3, <3>1, Zenon DEF SameButDriver
    <3>3. PICK j : j = First(A(h.pci, f))
      OBVIOUS
    <3>4. j # 0 => j \in DOMAIN h.pci
      <4>1. A(h.pci, f) \in SUBSET DOMAIN h.pci
        OBVIOUS
      <4>2. DOMAIN h.pci \in SUBSET (Nat \ {0})
        <5>1. h.pci \in Seq(PciFunction)
          BY DEF Scanned, IsMachine
        <5> QED BY <5>1, LenProperties
      <4> HIDE DEF A
      <4>3. A(h.pci, f) \in SUBSET (Nat \ {0})
        BY <4>1, <4>2, Zenon
      <4> QED BY <3>3, <4>1, <4>3, FirstIsLeast
    <3>5. detect_companion_audio(h.pci, f) = (IF j = 0 THEN 0 ELSE h.pci[j].id)
      BY <3>3, Zenon DEF detect_companion_audio
    <3>6. detect_companion_audio(n.pci, e) = (IF j = 0 THEN 0 ELSE n.pci[j].id)
      BY <3>2, <3>3, Zenon DEF detect_companion_audio
    <3> HIDE DEF A
    <3> QED BY <3>4, <3>5, <3>6 DEF SameButDriver
  <2>5. check_gpu_isolation(read_group_devices(n, e)) = check_gpu_isolation(read_group_devices(h, f))
    <3> DEFINE Q(m, x) == /\ "iommu" \notin m.lacks
                          /\ \E j \in DOMAIN m.pci : m.pci[j].group = x.group /\ m.pci[j].class # "bridge"
                          /\ \A j \in DOMAIN m.pci :
                               m.pci[j].group = x.group /\ m.pci[j].class # "bridge" => m.pci[j].class \in {"display", "audio"}
    <3>1. (check_gpu_isolation(read_group_devices(n, e)) <=> Q(n, e))
          /\ (check_gpu_isolation(read_group_devices(h, f)) <=> Q(h, f))
      BY IsolatedAt, Zenon
    <3>2. Q(n, e) <=> Q(h, f)
      BY <2>2 DEF SameButDriver
    <3> HIDE DEF Q
    <3>3. PICK a, b \in BOOLEAN : /\ a = check_gpu_isolation(read_group_devices(n, e))
                                 /\ b = check_gpu_isolation(read_group_devices(h, f))
      BY IsolatedAt, Zenon
    <3>4. a <=> b
      BY <3>1, <3>2, <3>3, Zenon
    <3> QED BY <3>3, <3>4, Zenon
  <2> QED BY <2>1, <2>2, <2>3, <2>4, <2>5 DEF parse_gpu_device
<1> QED BY <1>2, <1>3, <1>4, <1>5 DEF Alike

\* The audio function beside a GPU.
LEMMA Companion ==
  ASSUME NEW pci \in Seq(PciFunction), NEW f, NEW x, x = detect_companion_audio(pci, f)
  PROVE  \/ /\ x = 0
            /\ ~\E j \in DOMAIN pci : Slot(pci[j]) = Slot(f) /\ pci[j].fn \in 1..7 /\ pci[j].class = "audio"
         \/ \E j \in DOMAIN pci : /\ Slot(pci[j]) = Slot(f) /\ pci[j].fn \in 1..7 /\ pci[j].class = "audio"
                                  /\ x = pci[j].id
<1> DEFINE A == {j \in DOMAIN pci : Slot(pci[j]) = Slot(f) /\ pci[j].fn \in 1..7 /\ pci[j].class = "audio"}
<1>1. DOMAIN pci = 1..Len(pci) /\ Len(pci) \in Nat
  BY LenProperties
<1>2. A \in SUBSET (Nat \ {0})
  BY <1>1
<1>3. x = IF First(A) = 0 THEN 0 ELSE pci[First(A)].id
  BY Zenon DEF detect_companion_audio
<1>4. \A j : j \in A <=> /\ j \in DOMAIN pci /\ Slot(pci[j]) = Slot(f) /\ pci[j].fn \in 1..7
                         /\ pci[j].class = "audio"
  OBVIOUS
<1> HIDE DEF A
<1>5. (A = {} <=> First(A) = 0) /\ (A # {} => First(A) \in A)
  BY <1>2, FirstIsLeast
<1>6. CASE A = {}
  BY <1>3, <1>4, <1>5, <1>6, Zenon
<1>7. CASE A # {}
  BY <1>3, <1>4, <1>5, <1>7, Zenon
<1> QED BY <1>6, <1>7

\* The functions of a machine by position.
LEMMA FunctionAt ==
  ASSUME NEW h, IsMachine(h)
  PROVE  /\ h.pci \in Seq(PciFunction) /\ Len(h.pci) \in Nat /\ DOMAIN h.pci = 1..Len(h.pci)
         /\ \A j \in DOMAIN h.pci : h.pci[j] \in PciFunction /\ h.pci[j].id \in Nat \ {0}
<1>1. h.pci \in Seq(PciFunction)
  BY DEF IsMachine
<1>2. Len(h.pci) \in Nat /\ DOMAIN h.pci = 1..Len(h.pci) /\ \A j \in DOMAIN h.pci : h.pci[j] \in PciFunction
  BY <1>1, LenProperties, ElementOfSeq
<1>3. \A f \in PciFunction : f.id \in Nat \ {0}
  BY DEF PciFunction
<1> QED BY <1>1, <1>2, <1>3

\* The ids to pass through are ids of functions, finitely many, and some if a GPU is
\* passed through.
LEMMA PassedIds ==
  ASSUME NEW h, Scanned(h), NEW c, DOMAIN c.roles = DOMAIN h.gpus
  PROVE  /\ pci_ids(h, c) \in SUBSET (Nat \ {0}) /\ IsFiniteSet(pci_ids(h, c))
         /\ \A x \in pci_ids(h, c) : \E j \in DOMAIN h.pci : h.pci[j].id = x
         /\ \A i \in With(c, "Passthrough") : h.gpus[i].id \in pci_ids(h, c)
         /\ \A i \in With(c, "Passthrough") : h.gpus[i].audio # 0 => h.gpus[i].audio \in pci_ids(h, c)
<1> DEFINE at == Ascending(Displays(h))
           I == {h.pci[j].id : j \in DOMAIN h.pci}
<1>0. IsMachine(h)
  BY DEF Scanned
<1>1. /\ h.pci \in Seq(PciFunction) /\ Len(h.pci) \in Nat /\ DOMAIN h.pci = 1..Len(h.pci)
      /\ \A j \in DOMAIN h.pci : h.pci[j] \in PciFunction /\ h.pci[j].id \in Nat \ {0}
  BY <1>0, FunctionAt
<1>2. IsFiniteSet(I) /\ I \in SUBSET (Nat \ {0})
  <2>1. IsFiniteSet(DOMAIN h.pci)
    BY <1>1, FS_Interval
  <2> DEFINE fn == [j \in DOMAIN h.pci |-> h.pci[j].id]
  <2>2. fn \in Surjection(DOMAIN h.pci, I)
    BY DEF Surjection
  <2>3. IsFiniteSet(I)
    BY <2>1, <2>2, FS_Surjection
  <2> QED BY <1>1, <2>3
<1>3. \A i \in DOMAIN h.gpus : at[i] \in DOMAIN h.pci /\ h.gpus[i] = parse_gpu_device(h, h.pci[at[i]])
  BY GpuFields
<1> HIDE DEF at
<1>4. ASSUME NEW i \in DOMAIN h.gpus
      PROVE  h.gpus[i].id \in I /\ (h.gpus[i].audio = 0 \/ h.gpus[i].audio \in I)
  <2>0. PICK j \in DOMAIN h.pci : h.gpus[i] = parse_gpu_device(h, h.pci[j])
    BY <1>3, Zenon
  <2>1. h.gpus[i].id = h.pci[j].id /\ h.gpus[i].audio = detect_companion_audio(h.pci, h.pci[j])
    BY <2>0 DEF parse_gpu_device
  <2>2. h.gpus[i].audio = 0 \/ \E k \in DOMAIN h.pci : h.gpus[i].audio = h.pci[k].id
    BY <1>1, <2>1, Companion
  <2> QED BY <2>1, <2>2, Zenon
<1>5. With(c, "Passthrough") \in SUBSET DOMAIN h.gpus
  BY DEF With
<1>6. \A x : x \in pci_ids(h, c) <=> \/ \E i \in With(c, "Passthrough") : x = h.gpus[i].id
                                     \/ x # 0 /\ \E i \in With(c, "Passthrough") : x = h.gpus[i].audio
  BY DEF pci_ids, Devices
<1>7. pci_ids(h, c) \in SUBSET I
  BY <1>4, <1>5, <1>6
<1>8. IsFiniteSet(pci_ids(h, c))
  BY <1>2, <1>7, FS_Subset
<1>9. \A x \in pci_ids(h, c) : \E j \in DOMAIN h.pci : h.pci[j].id = x
  BY <1>7
<1> HIDE DEF I
<1> QED BY <1>2, <1>6, <1>7, <1>8, <1>9

\* Neither the ids nor the mode depend on drivers.
LEMMA SameDecisions ==
  ASSUME NEW h, NEW n, Alike(h.gpus, n.gpus), NEW c, DOMAIN c.roles = DOMAIN h.gpus
  PROVE  pci_ids(n, c) = pci_ids(h, c) /\ derived_mode(n, c) = derived_mode(h, c)
<1>1. \A role : With(c, role) \in SUBSET DOMAIN h.gpus
  BY DEF With
<1>2. pci_ids(n, c) = pci_ids(h, c)
  BY <1>1 DEF Alike, pci_ids, Devices
<1>3. (\E i \in With(c, "Host") : n.gpus[i].type = "Integrated") <=> (\E i \in With(c, "Host") : h.gpus[i].type = "Integrated")
  BY <1>1 DEF Alike
<1>4. derived_mode(n, c) = derived_mode(h, c)
  BY <1>3, Zenon DEF derived_mode
<1> QED BY <1>2, <1>4

-----------------------------------------------------------------------------
(* Recommended choices *)

\* The processor of a scanned machine.
LEMMA Processor ==
  ASSUME NEW h, Scanned(h)
  PROVE  /\ h.cpus \in Seq(Seq(Nat)) /\ h.cores = Len(h.cpus) /\ h.cores \in Nat
         /\ JoinOK(Nat, h.cpus, FlattenSeq(h.cpus), Len(h.cpus)) /\ h.threads = Len(FlattenSeq(h.cpus))
         /\ h.threads \in Nat
<1>1. h.cpuinfo \in Seq(Nat \X Nat) /\ h.cpus = build_core_thread_map(h.cpuinfo)
  BY DEF Scanned, IsMachine
<1>2. h.cores = Len(h.cpus) /\ h.threads = Len(FlattenSeq(h.cpus))
  BY DEF Scanned
<1>3. h.cpus \in Seq(Seq(Nat))
  BY <1>1, CoreList
<1>4. JoinOK(Nat, h.cpus, FlattenSeq(h.cpus), Len(h.cpus))
  BY <1>3, Flattened
<1>5. FlattenSeq(h.cpus) \in Seq(Nat)
  BY <1>4 DEF JoinOK
<1>6. Len(h.cpus) \in Nat
  BY <1>3, LenProperties
<1>7. Len(FlattenSeq(h.cpus)) \in Nat
  BY <1>5, LenProperties
<1> QED BY <1>2, <1>3, <1>4, <1>6, <1>7

\* There is always a free name.
LEMMA FreeName ==
  ASSUME NEW h, Scanned(h)
  PROVE  default_vm_name(h) \in Nat \ {0} /\ default_vm_name(h) \notin h.domains
<1> DEFINE n == Cardinality(h.domains)
           free == 1..(n + 1) \ h.domains
<1>1. h.domains \in SUBSET (Nat \ {0}) /\ IsFiniteSet(h.domains)
  BY DEF Scanned
<1>2. n \in Nat
  BY <1>1, FS_CardinalityType
<1>3. free # {}
  <2> SUFFICES ASSUME free = {} PROVE FALSE
    OBVIOUS
  <2> HIDE DEF n
  <2>1. 1..(n + 1) \in SUBSET h.domains
    OBVIOUS
  <2>2. Cardinality(1..(n + 1)) = n + 1
    <3>1. 1 \in Int /\ n + 1 \in Int /\ (IF 1 > n + 1 THEN 0 ELSE (n + 1) - 1 + 1) = n + 1
      BY <1>2
    <3> QED BY <3>1, FS_Interval
  <2>3. Cardinality(1..(n + 1)) <= Cardinality(h.domains)
    BY <1>1, <2>1, FS_Subset
  <2>4. n + 1 <= n
    BY <2>2, <2>3 DEF n
  <2> QED BY <1>2, <2>4
<1>4. free \in SUBSET (Nat \ {0})
  BY <1>2
<1>5. First(free) \in free
  BY <1>3, <1>4, FirstIsLeast
<1>6. default_vm_name(h) = First(free)
  BY DEF default_vm_name
<1> HIDE DEF n
<1> QED BY <1>4, <1>5, <1>6

\* The GPUs with a role; Roles gives one GPU to the host, another one to the guest, 0
\* standing for none.
Held(r, role) == {i \in DOMAIN r : r[i] = role}

\* Roles gives each GPU one role: at most one is the host's, at most one the guest's.
LEMMA RolesOf ==
  ASSUME NEW n \in Nat, NEW a \in 0..n, NEW b \in 0..n
  PROVE  /\ Roles(n, a, b) \in [1..n -> Role]
         /\ Held(Roles(n, a, b), "Host") = {a} \ {0}
         /\ Held(Roles(n, a, b), "Passthrough") = {b} \ {0, a}
BY DEF Roles, Role, Held

\* A configuration with one role for each GPU, as validation takes it.
ConfigOK(h, c) ==
  /\ c.vm_name \in Nat \ {0} /\ c.vcpu \in Nat \ {0} /\ c.ram_mb \in Nat
  /\ c.gpu_mode \in Mode /\ c.roles \in [DOMAIN h.gpus -> Role]

\* The recommended configuration has its types.
LEMMA Recommended ==
  ASSUME NEW h, Scanned(h), h.gpus # <<>>
  PROVE  ConfigOK(h, recommended_defaults(h))
<1> DEFINE r == recommend_gpu_assignment(h.gpus)
           d == recommended_defaults(h)
<1>1. /\ d.vm_name = default_vm_name(h) /\ d.gpu_mode = r.mode /\ d.roles = r.roles
      /\ d.ram_mb = recommended_vm_ram_mb(h.ram) /\ d.vcpu = recommend_vcpu_count(h)
  BY DEF recommended_defaults
<1>2. d.vm_name \in Nat \ {0}
  BY <1>1, FreeName
<1>3. d.ram_mb \in Nat
  <2>1. h.ram \in Nat
    BY DEF Scanned, IsMachine
  <2>2. \A t \in Nat : recommended_vm_ram_mb(t) \in Nat
    BY DEF recommended_vm_ram_mb, Largest, Least
  <2> QED BY <1>1, <2>1, <2>2
<1>4. d.vcpu \in Nat \ {0}
  <2>1. h.threads \in Nat /\ h.cores \in Nat
    BY Processor
  <2>2. PICK x, y \in Int : /\ x = Largest((h.cores * 3) \div 4, 1) * (IF h.ht THEN 2 ELSE 1)
                            /\ y = Largest(h.threads - 1, 1)
    BY <2>1 DEF Largest
  <2>3. recommend_vcpu_count(h) = Largest(Least(x, y), 1)
    BY <2>2 DEF recommend_vcpu_count
  <2>4. Largest(Least(x, y), 1) \in Nat \ {0}
    BY DEF Largest, Least
  <2> QED BY <1>1, <2>3, <2>4
<1>5. d.gpu_mode \in Mode /\ d.roles \in [DOMAIN h.gpus -> Role]
  <2>1. Len(h.gpus) \in Nat /\ DOMAIN h.gpus = 1..Len(h.gpus)
    BY GpuFields
  <2>2. \A a, b : Roles(Len(h.gpus), a, b) \in [DOMAIN h.gpus -> Role]
    BY <2>1 DEF Roles, Role
  <2>3. \/ Len(h.gpus) = 1 /\ r = [mode |-> "SingleGpu", roles |-> <<"Passthrough">>]
        \/ \E a, b : r = [mode |-> "IgpuHost", roles |-> Roles(Len(h.gpus), a, b)]
        \/ \E a, b : r = [mode |-> "DualGpu", roles |-> Roles(Len(h.gpus), a, b)]
    BY Zenon DEF recommend_gpu_assignment
  <2>4. Len(h.gpus) = 1 => <<"Passthrough">> \in [DOMAIN h.gpus -> Role]
    BY <2>1 DEF Role
  <2> HIDE DEF r
  <2>5. r.mode \in Mode /\ r.roles \in [DOMAIN h.gpus -> Role]
    BY <2>2, <2>3, <2>4 DEF Mode
  <2> QED BY <1>1, <2>5 DEF r
<1> HIDE DEF d
<1> QED BY <1>2, <1>3, <1>4, <1>5 DEF ConfigOK, d

-----------------------------------------------------------------------------
(* Validation *)

\* An issue is reported exactly when it occurs.
LEMMA NoIssue ==
  ASSUME NEW id, NEW when PROVE Issue(id, when) = {} <=> ~when
BY DEF Issue

\* What validation accepts, each of its parts accepts.
LEMMA ValidParts ==
  ASSUME NEW h, NEW c
  PROVE  validate(h, c) = {} <=>
           /\ build_compatibility_report(h) = {}
           /\ c.vm_name \notin h.domains
           /\ check_gpu_roles(h, c) = {} /\ check_monitors(h, c) = {} /\ check_looking_glass(h, c) = {}
           /\ check_resources(h, c) = {} /\ check_devices(c) = {}
<1>1. check_vm_name(h, c) = {} <=> c.vm_name \notin h.domains
  BY NoIssue DEF check_vm_name
<1>2. Issue("CompatibilityBlocked", build_compatibility_report(h) # {}) = {} <=> build_compatibility_report(h) = {}
  BY NoIssue
<1> QED BY <1>1, <1>2, Zenon DEF validate

\* The roles of an accepted configuration.
LEMMA ValidRoles ==
  ASSUME NEW h, NEW c
  PROVE  check_gpu_roles(h, c) = {} <=>
           /\ With(c, "Passthrough") # {}
           /\ \A i \in With(c, "Passthrough") : h.gpus[i].isolated
           /\ \A i \in With(c, "Host") : h.gpus[i].driver # "vfio-pci"
           /\ derived_mode(h, c) \in {"None", c.gpu_mode} /\ derived_mode(h, c) # "MultiGpu"
<1> DEFINE p1 == With(c, "Passthrough") = {}
           p2 == \E i \in With(c, "Passthrough") : ~h.gpus[i].isolated
           p3 == \E i \in With(c, "Host") : h.gpus[i].driver = "vfio-pci"
           p4 == derived_mode(h, c) \notin {"None", c.gpu_mode}
           p5 == derived_mode(h, c) = "MultiGpu"
<1>1. check_gpu_roles(h, c) = Issue("GpuRoleMissing", p1) \cup Issue("PassthroughGpuNotIsolated", p2)
        \cup Issue("HostGpuPassthroughBound", p3) \cup Issue("GpuModeMismatch", p4)
        \cup Issue("MultiGpuNotImplemented", p5)
  BY Zenon DEF check_gpu_roles
<1>2. ~p2 <=> \A i \in With(c, "Passthrough") : h.gpus[i].isolated
  BY Zenon
<1>3. ~p3 <=> \A i \in With(c, "Host") : h.gpus[i].driver # "vfio-pci"
  BY Zenon
<1> HIDE DEF p2, p3
<1>4. check_gpu_roles(h, c) = {} <=> ~p1 /\ ~p2 /\ ~p3 /\ ~p4 /\ ~p5
  <2> HIDE DEF p1, p4, p5
  <2> QED BY <1>1, NoIssue, Zenon
<1> QED BY <1>2, <1>3, <1>4, Zenon

\* What an accepted configuration may be relied on for.
LEMMA Accepted ==
  ASSUME NEW h, NEW c, c.vcpu \in Nat, validate(h, c) = {}
  PROVE  /\ {"iommu", "virsh"} \cap h.lacks = {} /\ h.kind # "Unknown" /\ h.initramfs # "Unknown"
         /\ c.vm_name \notin h.domains
         /\ With(c, "Passthrough") # {} /\ (\A i \in With(c, "Passthrough") : h.gpus[i].isolated)
         /\ derived_mode(h, c) # "MultiGpu"
         /\ c.monitor.plan = "HookHandoff" => derived_mode(h, c) = "SingleGpu"
         /\ c.vcpu >= 2
<1>1. /\ build_compatibility_report(h) = {} /\ c.vm_name \notin h.domains
      /\ check_gpu_roles(h, c) = {} /\ check_monitors(h, c) = {} /\ check_resources(h, c) = {}
  BY ValidParts
<1>2. {"iommu", "virsh"} \cap h.lacks = {} /\ h.kind # "Unknown" /\ h.initramfs # "Unknown"
  <2>1. push_iommu_state(h) = {} /\ push_bootloader_state(h) = {} /\ push_initramfs_state(h) = {}
        /\ push_virtualization_tools(h) = {}
    BY <1>1, Zenon DEF build_compatibility_report
  <2>2. "iommu" \notin h.lacks /\ "virsh" \notin h.lacks
    BY <2>1, NoIssue DEF push_iommu_state, push_virtualization_tools
  <2>3. h.kind # "Unknown" /\ h.initramfs # "Unknown"
    BY <2>1, NoIssue DEF push_bootloader_state, push_initramfs_state
  <2> QED BY <2>2, <2>3
<1>3. /\ With(c, "Passthrough") # {} /\ (\A i \in With(c, "Passthrough") : h.gpus[i].isolated)
      /\ derived_mode(h, c) # "MultiGpu"
  BY <1>1, ValidRoles
<1>4. c.monitor.plan = "HookHandoff" => derived_mode(h, c) = "SingleGpu"
  <2> SUFFICES ASSUME c.monitor.plan = "HookHandoff" PROVE derived_mode(h, c) = "SingleGpu"
    OBVIOUS
  <2>1. Issue("HookHandoffRequiresSingleGpu", derived_mode(h, c) # "SingleGpu") = {}
    BY <1>1, Zenon DEF check_monitors
  <2> QED BY <2>1, NoIssue
<1>5. c.vcpu >= 2
  <2>1. c.vcpu < 2 => "VcpuTooLow" \in check_resources(h, c)
    BY DEF check_resources, Issue
  <2>2. ~(c.vcpu < 2)
    BY <1>1, <2>1
  <2> QED BY <2>2
<1> QED BY <1>1, <1>2, <1>3, <1>4, <1>5

-----------------------------------------------------------------------------
(* Plans *)

StepKind == PhaseAKinds \cup PhaseBKinds \cup {"Snapshot"}
Touched  == {"grub", "loader", "other", "none", "snippet", "initramfs", "snapshots", "hooks", "xml", "disk"}
PlanStep == [kind : StepKind, touches : Touched, state : {"AlreadySatisfied", "Pending"}]

\* One step as a list.
LEMMA OneStep ==
  ASSUME NEW kind \in StepKind, NEW touches \in Touched, NEW b
  PROVE  \E x \in PlanStep : /\ Step(kind, touches, b) = <<x>> /\ x.kind = kind /\ x.touches = touches
                             /\ x.state = IF b THEN "AlreadySatisfied" ELSE "Pending"
<1> DEFINE x == [kind |-> kind, touches |-> touches, state |-> IF b THEN "AlreadySatisfied" ELSE "Pending"]
<1>1. x \in PlanStep
  BY DEF PlanStep
<1>2. Step(kind, touches, b) = <<x>>
  BY DEF Step
<1> QED BY <1>1, <1>2

\* A step that is not satisfied yet is one step of its kind.
LEMMA PendingStep ==
  ASSUME NEW kind \in StepKind, NEW touches \in Touched
  PROVE  \E x \in PlanStep : Step(kind, touches, FALSE) = <<x>> /\ x.kind = kind
<1> DEFINE x == [kind |-> kind, touches |-> touches, state |-> "Pending"]
<1>1. x \in PlanStep
  BY DEF PlanStep
<1>2. Step(kind, touches, FALSE) = <<x>>
  BY DEF Step
<1> QED BY <1>1, <1>2

\* What Phase A's part of a plan consists of.
LEMMA PhaseAShape ==
  ASSUME NEW h, NEW c, NEW a, a = PhaseASteps(h, c)
  PROVE  /\ a \in Seq(PlanStep)
         /\ \A x \in ToSet(a) : x.kind \in PhaseAKinds
         /\ \A x \in ToSet(a) : x.kind = "BootloaderWrite" =>
              ConfigPath(h.kind) # "none" /\ x.touches = ConfigPath(h.kind)
         /\ ConfigPath(h.kind) # "none" => \E x \in ToSet(a) : x.kind = "BootloaderWrite"
         /\ h.initramfs # "Unknown" => \E x \in ToSet(a) : x.kind = "InitramfsWrite"
         /\ ToSet(a) = ToSet(bootloader_step(h, c)) \cup ToSet(vfio_step(h, c)) \cup ToSet(initramfs_step(h))
<1> DEFINE b == bootloader_step(h, c)
           v == vfio_step(h, c)
           i == initramfs_step(h)
<1>0. PhaseAKinds \subseteq StepKind /\ {"snippet", "initramfs"} \subseteq Touched /\ ConfigPath(h.kind) \in Touched
  BY DEF StepKind, Touched, ConfigPath
<1>1. ToSet(<<>>) = {} /\ <<>> \in Seq(PlanStep) /\ \A x \in PlanStep : ToSet(<<x>>) = {x} /\ <<x>> \in Seq(PlanStep)
  BY DEF ToSet
<1>2. b \in Seq(PlanStep) /\ \/ ConfigPath(h.kind) = "none" /\ ToSet(b) = {}
                             \/ /\ ConfigPath(h.kind) # "none"
                                /\ \E x : ToSet(b) = {x} /\ x.kind = "BootloaderWrite" /\ x.touches = ConfigPath(h.kind)
  <2>1. CASE ConfigPath(h.kind) = "none"
    <3>1. b = <<>>
      BY <2>1 DEF bootloader_step
    <3> QED BY <1>1, <2>1, <3>1, Zenon
  <2>2. CASE ConfigPath(h.kind) # "none"
    <3>1. \E w : b = Step("BootloaderWrite", ConfigPath(h.kind), w)
      BY <2>2, Zenon DEF bootloader_step
    <3>2. "BootloaderWrite" \in StepKind
      BY <1>0 DEF PhaseAKinds
    <3>3. PICK x \in PlanStep : b = <<x>> /\ x.kind = "BootloaderWrite" /\ x.touches = ConfigPath(h.kind)
      BY <1>0, <3>1, <3>2, OneStep
    <3> QED BY <1>1, <2>2, <3>3, Zenon
  <2> QED BY <2>1, <2>2
<1>3. v \in Seq(PlanStep) /\ \A x \in ToSet(v) : x.kind = "VfioConfig"
  <2>1. CASE v = <<>>
    BY <1>1, <2>1, Zenon
  <2>2. CASE v # <<>>
    <3>1. \E w : v = Step("VfioConfig", "snippet", w)
      BY <2>2, Zenon DEF vfio_step
    <3>2. "VfioConfig" \in StepKind /\ "snippet" \in Touched
      BY <1>0 DEF PhaseAKinds
    <3>3. PICK x \in PlanStep : v = <<x>> /\ x.kind = "VfioConfig"
      BY <3>1, <3>2, OneStep
    <3>4. ToSet(v) = {x} /\ v \in Seq(PlanStep)
      BY <1>1, <3>3, Zenon
    <3> QED BY <3>3, <3>4
  <2> QED BY <2>1, <2>2
<1>4. i \in Seq(PlanStep) /\ (\A x \in ToSet(i) : x.kind = "InitramfsWrite") /\ (h.initramfs # "Unknown" => \E x : x \in ToSet(i))
  <2>1. CASE h.initramfs = "Unknown"
    <3>1. i = <<>>
      BY <2>1 DEF initramfs_step
    <3> QED BY <1>1, <2>1, <3>1, Zenon
  <2>2. CASE h.initramfs # "Unknown"
    <3>1. i = Step("InitramfsWrite", "initramfs", h.vfio)
      BY <2>2, Zenon DEF initramfs_step
    <3>2. "InitramfsWrite" \in StepKind /\ "initramfs" \in Touched
      BY <1>0 DEF PhaseAKinds
    <3>3. PICK x \in PlanStep : i = <<x>> /\ x.kind = "InitramfsWrite"
      BY <3>1, <3>2, OneStep
    <3>4. ToSet(i) = {x} /\ i \in Seq(PlanStep)
      BY <1>1, <3>3, Zenon
    <3> QED BY <3>3, <3>4
  <2> QED BY <2>1, <2>2
<1>5. a = (b \o v) \o i
  BY DEF PhaseASteps
<1> HIDE DEF b, v, i
<1>6. b \o v \in Seq(PlanStep) /\ ToSet(b \o v) = ToSet(b) \cup ToSet(v)
  BY <1>2, <1>3, ConcatProperties, ElementsOfConcat
<1>7. PICK bv \in Seq(PlanStep) : bv = b \o v
  BY <1>6
<1>8. bv \o i \in Seq(PlanStep) /\ ToSet(bv \o i) = ToSet(bv) \cup ToSet(i)
  BY <1>4, ConcatProperties, ElementsOfConcat
<1>9. a \in Seq(PlanStep) /\ ToSet(a) = (ToSet(b) \cup ToSet(v)) \cup ToSet(i)
  BY <1>5, <1>6, <1>7, <1>8, Zenon
<1>10. \A x \in ToSet(a) : x.kind \in PhaseAKinds
  BY <1>2, <1>3, <1>4, <1>9 DEF PhaseAKinds
<1>11. \A x \in ToSet(a) : x.kind = "BootloaderWrite" => ConfigPath(h.kind) # "none" /\ x.touches = ConfigPath(h.kind)
  BY <1>2, <1>3, <1>4, <1>9
<1>12. ConfigPath(h.kind) # "none" => \E x \in ToSet(a) : x.kind = "BootloaderWrite"
  BY <1>2, <1>9
<1>13. h.initramfs # "Unknown" => \E x \in ToSet(a) : x.kind = "InitramfsWrite"
  BY <1>4, <1>9
<1> QED BY <1>9, <1>10, <1>11, <1>12, <1>13 DEF b, v, i

\* A list that starts with x and has the elements S; a list that is continued.
Starts(u, x, S) == u \in Seq(PlanStep) /\ Len(u) \in Nat \ {0} /\ u[1] = x /\ ToSet(u) = S

\* A plan keeps its beginning when steps are added at the end.
LEMMA Continued ==
  ASSUME NEW u, NEW x, NEW S, Starts(u, x, S), NEW t \in Seq(PlanStep)
  PROVE  Starts(u \o t, x, S \cup ToSet(t)) /\ Len(u \o t) = Len(u) + Len(t)
<1>1. u \in Seq(PlanStep) /\ Len(u) \in Nat \ {0} /\ u[1] = x /\ ToSet(u) = S
  BY DEF Starts
<1>2. u \o t \in Seq(PlanStep) /\ Len(u \o t) = Len(u) + Len(t) /\ Len(t) \in Nat
      /\ \A i \in 1..(Len(u) + Len(t)) : (u \o t)[i] = IF i <= Len(u) THEN u[i] ELSE t[i - Len(u)]
  BY <1>1, ConcatProperties, LenProperties
<1>3. Len(u \o t) \in Nat \ {0} /\ (u \o t)[1] = u[1]
  <2>1. 1 \in 1..(Len(u) + Len(t)) /\ 1 <= Len(u) /\ Len(u) + Len(t) \in Nat \ {0}
    BY <1>1, <1>2
  <2> QED BY <1>2, <2>1
<1>4. ToSet(u \o t) = ToSet(u) \cup ToSet(t)
  BY <1>1, ElementsOfConcat
<1> QED BY <1>1, <1>2, <1>3, <1>4 DEF Starts

\* A kind that only one step of a list has.
Once(p, kind) == \A i, j \in DOMAIN p : p[i].kind = kind /\ p[j].kind = kind => i = j

\* The last step but one is the only one of its kind if no other has the kind.
LEMMA OnceOnly ==
  ASSUME NEW u \in Seq(PlanStep), NEW y \in PlanStep, NEW z \in PlanStep, NEW kind,
         \A x \in ToSet(u) : x.kind # kind, z.kind # kind,
         NEW p, p = (u \o <<y>>) \o <<z>>
  PROVE  Once(p, kind)
<1>1. Len(u) \in Nat /\ DOMAIN u = 1..Len(u) /\ \A x \in 1..Len(u) : u[x].kind # kind
  BY LenProperties DEF ToSet
<1>2. PICK q \in Seq(PlanStep) : /\ q = u \o <<y>> /\ Len(q) = Len(u) + 1
                                 /\ \A x \in 1..(Len(u) + 1) : q[x] = IF x <= Len(u) THEN u[x] ELSE y
  <2>1. <<y>> \in Seq(PlanStep) /\ Len(<<y>>) = 1 /\ <<y>>[1] = y
    OBVIOUS
  <2>2. u \o <<y>> \in Seq(PlanStep) /\ Len(u \o <<y>>) = Len(u) + 1
        /\ \A x \in 1..(Len(u) + 1) : (u \o <<y>>)[x] = IF x <= Len(u) THEN u[x] ELSE <<y>>[x - Len(u)]
    BY <2>1, ConcatProperties
  <2>3. \A x \in 1..(Len(u) + 1) : ~(x <= Len(u)) => x - Len(u) = 1
    BY <1>1
  <2> QED BY <2>1, <2>2, <2>3
<1>3. Len(p) = Len(u) + 2 /\ DOMAIN p = 1..(Len(u) + 2)
      /\ \A x \in 1..(Len(u) + 2) : p[x] = IF x <= Len(u) + 1 THEN q[x] ELSE z
  <2>1. <<z>> \in Seq(PlanStep) /\ Len(<<z>>) = 1 /\ <<z>>[1] = z
    OBVIOUS
  <2>2. /\ p = q \o <<z>> /\ q \o <<z>> \in Seq(PlanStep) /\ Len(q \o <<z>>) = Len(q) + 1
        /\ \A x \in 1..(Len(q) + 1) : (q \o <<z>>)[x] = IF x <= Len(q) THEN q[x] ELSE <<z>>[x - Len(q)]
    BY <1>2, <2>1, ConcatProperties
  <2>3. Len(q) + 1 = Len(u) + 2 /\ \A x \in 1..(Len(u) + 2) : ~(x <= Len(u) + 1) => x - Len(q) = 1
    BY <1>1, <1>2
  <2>4. p \in Seq(PlanStep) /\ Len(p) = Len(u) + 2
    BY <2>2, <2>3
  <2>5. DOMAIN p = 1..(Len(u) + 2)
    BY <2>4, LenProperties
  <2> QED BY <1>2, <2>1, <2>2, <2>3, <2>4, <2>5
<1>4. ASSUME NEW x \in DOMAIN p, p[x].kind = kind PROVE x = Len(u) + 1
  <2>1. x \in 1..(Len(u) + 2)
    BY <1>3
  <2>2. CASE x <= Len(u)
    <3>1. p[x] = u[x] /\ x \in 1..Len(u)
      BY <1>1, <1>2, <1>3, <2>1, <2>2
    <3> QED BY <1>1, <1>4, <3>1
  <2>3. CASE x = Len(u) + 2
    <3>1. p[x] = z
      BY <1>1, <1>3, <2>1, <2>3
    <3> QED BY <1>4, <3>1
  <2> QED BY <1>1, <2>1, <2>2, <2>3
<1> QED BY <1>4 DEF Once

\* What the proofs use of a plan.
PlanOK(h, c, p) ==
  /\ p \in Seq(PlanStep) /\ Len(p) \in Nat \ {0} /\ DOMAIN p = 1..Len(p) /\ p[1].kind = "Snapshot"
  /\ \A i \in DOMAIN p : p[i].kind = "BootloaderWrite" => p[i].touches = ConfigPath(h.kind)
  /\ ConfigPath(h.kind) # "none" => \E i \in DOMAIN p : p[i].kind = "BootloaderWrite"
  /\ h.initramfs # "Unknown" => \E i \in DOMAIN p : p[i].kind = "InitramfsWrite"
  /\ \A i \in DOMAIN p : p[i].kind = "HookInstall" => derived_mode(h, c) = "SingleGpu" \/ c.monitor.plan = "HookHandoff"
  /\ Once(p, "VmRegister")

\* What every plan looks like.
LEMMA PlanShape ==
  ASSUME NEW h, NEW c
  PROVE  PlanOK(h, c, plan(h, c))
<1> DEFINE p == plan(h, c)
           a == PhaseASteps(h, c)
           hooked == derived_mode(h, c) = "SingleGpu" \/ c.monitor.plan = "HookHandoff"
           hook == IF hooked THEN Step("HookInstall", "hooks", FALSE) ELSE <<>>
           glass == IF c.looking_glass THEN Step("LookingGlassInstall", "none", FALSE) ELSE <<>>
           KindsOf(s) == {x.kind : x \in ToSet(s)}
<1>0. /\ {"Snapshot", "HookInstall", "LookingGlassInstall", "VmXmlGenerate", "VmRegister", "Verify"} \subseteq StepKind
      /\ {"snapshots", "hooks", "none", "xml", "disk"} \subseteq Touched
  BY DEF StepKind, PhaseBKinds, Touched
<1>1. /\ ToSet(<<>>) = {} /\ <<>> \in Seq(PlanStep)
      /\ \A x : ToSet(<<x>>) = {x} /\ Len(<<x>>) = 1 /\ <<x>>[1] = x
      /\ \A x \in PlanStep : <<x>> \in Seq(PlanStep)
  BY DEF ToSet
<1>2. /\ a \in Seq(PlanStep) /\ (\A x \in ToSet(a) : x.kind \in PhaseAKinds)
      /\ \A x \in ToSet(a) : x.kind = "BootloaderWrite" => x.touches = ConfigPath(h.kind)
      /\ ConfigPath(h.kind) # "none" => \E x \in ToSet(a) : x.kind = "BootloaderWrite"
      /\ h.initramfs # "Unknown" => \E x \in ToSet(a) : x.kind = "InitramfsWrite"
  BY PhaseAShape
<1>3. PICK snap \in PlanStep : Step("Snapshot", "snapshots", FALSE) = <<snap>> /\ snap.kind = "Snapshot"
  BY <1>0, PendingStep
<1>4. PICK xml \in PlanStep : Step("VmXmlGenerate", "xml", FALSE) = <<xml>> /\ xml.kind = "VmXmlGenerate"
  BY <1>0, PendingStep
<1>5. PICK reg \in PlanStep : Step("VmRegister", "disk", FALSE) = <<reg>> /\ reg.kind = "VmRegister"
  BY <1>0, PendingStep
<1>6. PICK ver \in PlanStep : Step("Verify", "none", FALSE) = <<ver>> /\ ver.kind = "Verify"
  BY <1>0, PendingStep
<1>7. hook \in Seq(PlanStep) /\ \A x \in ToSet(hook) : x.kind = "HookInstall" /\ hooked
  <2>1. PICK y \in PlanStep : Step("HookInstall", "hooks", FALSE) = <<y>> /\ y.kind = "HookInstall"
    BY <1>0, PendingStep
  <2> HIDE DEF hooked
  <2>2. CASE hooked
    <3>1. hook = <<y>> /\ ToSet(hook) = {y} /\ hook \in Seq(PlanStep)
      BY <1>1, <2>1, <2>2, Zenon
    <3> QED BY <2>1, <2>2, <3>1
  <2>3. CASE ~hooked
    BY <1>1, <2>3, Zenon
  <2> QED BY <2>2, <2>3
<1>8. glass \in Seq(PlanStep) /\ \A x \in ToSet(glass) : x.kind = "LookingGlassInstall"
  <2>1. PICK y \in PlanStep : Step("LookingGlassInstall", "none", FALSE) = <<y>> /\ y.kind = "LookingGlassInstall"
    BY <1>0, PendingStep
  <2>2. CASE c.looking_glass
    <3>1. glass = <<y>> /\ ToSet(glass) = {y} /\ glass \in Seq(PlanStep)
      BY <1>1, <2>1, <2>2, Zenon
    <3> QED BY <2>1, <3>1
  <2>3. CASE ~c.looking_glass
    BY <1>1, <2>3, Zenon
  <2> QED BY <2>2, <2>3
<1>9. p = (((((<<snap>> \o a) \o hook) \o glass) \o <<xml>>) \o <<reg>>) \o <<ver>>
  BY <1>3, <1>4, <1>5, <1>6, Zenon DEF plan
<1> HIDE DEF p, a, hook, glass, hooked
<1>10. Starts(<<snap>>, snap, {snap})
  BY <1>1, <1>3 DEF Starts
<1>11. PICK u1 : u1 = <<snap>> \o a /\ Starts(u1, snap, {snap} \cup ToSet(a))
  BY <1>2, <1>10, Continued
<1>12. PICK u2 : u2 = u1 \o hook /\ Starts(u2, snap, ({snap} \cup ToSet(a)) \cup ToSet(hook))
  BY <1>7, <1>11, Continued
<1>13. PICK u3 : u3 = u2 \o glass /\ Starts(u3, snap, (({snap} \cup ToSet(a)) \cup ToSet(hook)) \cup ToSet(glass))
  BY <1>8, <1>12, Continued
<1>14. PICK u4 : /\ u4 = u3 \o <<xml>>
                 /\ Starts(u4, snap, ((({snap} \cup ToSet(a)) \cup ToSet(hook)) \cup ToSet(glass)) \cup {xml})
  <2>1. <<xml>> \in Seq(PlanStep) /\ ToSet(<<xml>>) = {xml}
    BY <1>1, Zenon
  <2>2. Starts(u3 \o <<xml>>, snap, ((({snap} \cup ToSet(a)) \cup ToSet(hook)) \cup ToSet(glass)) \cup ToSet(<<xml>>))
    BY <1>13, <2>1, Continued
  <2> QED BY <2>1, <2>2, Zenon
<1> DEFINE S == ((({snap} \cup ToSet(a)) \cup ToSet(hook)) \cup ToSet(glass)) \cup {xml}
<1>15. PICK u5 : u5 = u4 \o <<reg>> /\ Starts(u5, snap, S \cup {reg})
  <2>1. <<reg>> \in Seq(PlanStep) /\ ToSet(<<reg>>) = {reg}
    BY <1>1, Zenon
  <2> HIDE DEF S
  <2>2. Starts(u4, snap, S)
    BY <1>14 DEF S
  <2>3. Starts(u4 \o <<reg>>, snap, S \cup ToSet(<<reg>>))
    BY <2>1, <2>2, Continued
  <2> QED BY <2>1, <2>3, Zenon
<1>16. p = u5 \o <<ver>> /\ Starts(p, snap, (S \cup {reg}) \cup {ver})
  <2>1. <<ver>> \in Seq(PlanStep) /\ ToSet(<<ver>>) = {ver}
    BY <1>1, Zenon
  <2> HIDE DEF S
  <2>2. Starts(u5 \o <<ver>>, snap, (S \cup {reg}) \cup ToSet(<<ver>>))
    BY <1>15, <2>1, Continued
  <2>3. p = u5 \o <<ver>>
    BY <1>9, <1>11, <1>12, <1>13, <1>14, <1>15, Zenon
  <2> QED BY <2>1, <2>2, <2>3, Zenon
<1>17. \A x : x \in ToSet(p) <=> \/ x = snap \/ x \in ToSet(a) \/ x \in ToSet(hook) \/ x \in ToSet(glass)
                                 \/ x = xml \/ x = reg \/ x = ver
  <2>1. ToSet(p) = (S \cup {reg}) \cup {ver}
    BY <1>16 DEF Starts
  <2> QED BY <2>1, Zenon
<1>18. p \in Seq(PlanStep) /\ Len(p) \in Nat \ {0} /\ DOMAIN p = 1..Len(p) /\ p[1].kind = "Snapshot"
  <2>1. p \in Seq(PlanStep) /\ Len(p) \in Nat \ {0} /\ p[1] = snap
    BY <1>16 DEF Starts
  <2> QED BY <1>3, <2>1, LenProperties
<1>19. \A x \in ToSet(p) : /\ x.kind = "BootloaderWrite" => x.touches = ConfigPath(h.kind)
                           /\ x.kind = "HookInstall" => hooked
  BY <1>2, <1>3, <1>4, <1>5, <1>6, <1>7, <1>8, <1>17 DEF PhaseAKinds
<1>20. /\ ConfigPath(h.kind) # "none" => \E x \in ToSet(p) : x.kind = "BootloaderWrite"
       /\ h.initramfs # "Unknown" => \E x \in ToSet(p) : x.kind = "InitramfsWrite"
  BY <1>2, <1>17
<1>21. Once(p, "VmRegister")
  <2>1. u4 \in Seq(PlanStep) /\ ToSet(u4) = S
    BY <1>14 DEF Starts
  <2>2. \A x \in S : x.kind # "VmRegister"
    BY <1>2, <1>3, <1>4, <1>7, <1>8 DEF PhaseAKinds
  <2> HIDE DEF S
  <2>3. p = (u4 \o <<reg>>) \o <<ver>> /\ ver.kind # "VmRegister" /\ \A x \in ToSet(u4) : x.kind # "VmRegister"
    BY <1>6, <1>15, <1>16, <2>1, <2>2
  <2> QED BY <2>1, <2>3, OnceOnly
<1>22. \A x : x \in ToSet(p) <=> \E i \in DOMAIN p : p[i] = x
  BY DEF ToSet
<1>23. \A i \in DOMAIN p : p[i] \in ToSet(p)
  BY <1>22, Zenon
<1>24. PlanOK(h, c, p)
  <2>1. /\ \A i \in DOMAIN p : p[i].kind = "BootloaderWrite" => p[i].touches = ConfigPath(h.kind)
        /\ \A i \in DOMAIN p : p[i].kind = "HookInstall" => hooked
    BY <1>19, <1>23, Zenon
  <2>2. /\ ConfigPath(h.kind) # "none" => \E i \in DOMAIN p : p[i].kind = "BootloaderWrite"
        /\ h.initramfs # "Unknown" => \E i \in DOMAIN p : p[i].kind = "InitramfsWrite"
    BY <1>20, <1>22, Zenon
  <2> QED BY <1>18, <1>21, <2>1, <2>2 DEF PlanOK, hooked
<1> QED BY <1>24 DEF p
=============================================================================
