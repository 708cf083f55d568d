----------------------------- MODULE ListLemmas -----------------------------
(***************************************************************************)
(* What the proofs need to know of lists, whatever they are lists of:      *)
(* induction on the natural numbers, the list of the members of a finite   *)
(* set in some order (Sorted, and the rows and places that are counted     *)
(* like it), and the list that lists make behind each other (FlattenSeq).  *)
(***************************************************************************)
EXTENDS Integers, SequencesExt, FiniteSetTheorems, SequenceTheorems, TLAPS

---------------------------------------------------------------------------
(* Numbers and order.                                                      *)

(* Induction on the natural numbers, of a set: the numbers that are in it  *)
(* are all, when 0 is and the next one always is.  Below a number that is  *)
(* missing, adding one would be an injection of a finite set into itself   *)
(* that misses 0.                                                          *)
LEMMA NatInductionOnSet ==
  ASSUME NEW S \in SUBSET Nat, 0 \in S, \A n \in S : n + 1 \in S
  PROVE  S = Nat
<1> SUFFICES ASSUME NEW k \in Nat, k \notin S
             PROVE  FALSE
  OBVIOUS
<1> DEFINE Below == {n \in S : n < k}
           next  == [n \in Below |-> n + 1]
<1>1. \A n \in Below : n + 1 \in Below
  OBVIOUS
<1>2. IsFiniteSet(Below)
  <2>1. IsFiniteSet(0..k)
    BY FS_Interval
  <2>2. \A n \in Below : n \in 0..k
    OBVIOUS
  <2> QED
    BY <2>1, <2>2, FS_Subset, Below \in SUBSET (0..k)
<1>3. next \in Injection(Below, Below)
  <2>1. next \in [Below -> Below]
    <3> HIDE DEF Below
    <3> QED
      BY <1>1
  <2>2. \A m, n \in Below : next[m] = next[n] => m = n
    OBVIOUS
  <2> HIDE DEF Below, next
  <2> QED
    BY <2>1, <2>2 DEF Injection, IsInjective
<1>4. next \in Surjection(Below, Below)
  <2> HIDE DEF Below, next
  <2> QED
    BY <1>2, <1>3, FS_Injection
<1>5. 0 \in Below
  OBVIOUS
<1>6. \E n \in Below : next[n] = 0
  <2> HIDE DEF Below, next
  <2> QED
    BY <1>4, <1>5 DEF Surjection
<1> QED
  BY <1>6

(* A set of natural numbers has a least one.                               *)
LEMMA LeastOfSet ==
  ASSUME NEW S \in SUBSET Nat, S # {}
  PROVE  \E m \in S : \A k \in S : m <= k
<1> DEFINE Free == {n \in Nat : \A k \in S : k > n}
<1> SUFFICES ASSUME \A m \in S : \E k \in S : k < m
             PROVE  FALSE
  OBVIOUS
<1>1. 0 \in Free
  OBVIOUS
<1>2. ASSUME NEW n \in Free
      PROVE  n + 1 \in Free
  OBVIOUS
<1>3. Free = Nat
  <2> HIDE DEF Free
  <2>1. Free \in SUBSET Nat
    BY DEF Free
  <2> QED
    BY <1>1, <1>2, <2>1, NatInductionOnSet
<1>4. PICK m \in S : TRUE
  OBVIOUS
<1>5. m \in Free
  <2> HIDE DEF Free
  <2> QED
    BY <1>3
<1> QED
  BY <1>5

(* R orders S, strictly and totally.                                       *)
IsOrder(S, R) ==
  /\ \A a \in S : <<a, a>> \notin R
  /\ \A a, b \in S : a = b \/ <<a, b>> \in R \/ <<b, a>> \in R
  /\ \A a, b, c \in S : <<a, b>> \in R /\ <<b, c>> \in R => <<a, c>> \in R

(* How many members are before r.                                          *)
Rank(S, R, r) == Cardinality({s \in S : <<s, r>> \in R})

(* The number of members before it tells the members of a finite set       *)
(* apart, and is below its size: RowOf of an index, the position           *)
(* merge_reviews gives a comment.                                          *)
LEMMA RanksAreRows ==
  ASSUME NEW S, IsFiniteSet(S), NEW R, IsOrder(S, R)
  PROVE  [r \in S |-> Rank(S, R, r)] \in Injection(S, 0..(Cardinality(S) - 1))
<1> DEFINE Below(r) == {s \in S : <<s, r>> \in R}
           rank == [r \in S |-> Cardinality(Below(r))]
<1>1. ASSUME NEW r \in S
      PROVE  /\ IsFiniteSet(Below(r)) /\ Cardinality(Below(r)) \in Nat
             /\ Cardinality(Below(r)) <= Cardinality(S) - 1
  <2>1. r \notin Below(r) BY DEF IsOrder
  <2>2. Below(r) \in SUBSET (S \ {r}) BY <2>1
  <2>3. /\ IsFiniteSet(S \ {r})
        /\ Cardinality(S \ {r}) = Cardinality(S) - 1
    BY FS_RemoveElement
  <2>4. /\ IsFiniteSet(Below(r))
        /\ Cardinality(Below(r)) <= Cardinality(S \ {r})
    BY <2>2, <2>3, FS_Subset
  <2> QED BY <2>3, <2>4, FS_CardinalityType
<1>2. ASSUME NEW a \in S, NEW b \in S, <<a, b>> \in R
      PROVE  Cardinality(Below(a)) < Cardinality(Below(b))
  <2>1. Below(a) \in SUBSET Below(b) BY <1>2 DEF IsOrder
  <2>2. a \in Below(b) /\ a \notin Below(a) BY <1>2 DEF IsOrder
  <2>3. /\ Cardinality(Below(a)) <= Cardinality(Below(b))
        /\ Cardinality(Below(a)) # Cardinality(Below(b))
    <3> HIDE DEF Below
    <3> QED BY <2>1, <2>2, <1>1, FS_Subset
  <2>4. Cardinality(Below(a)) \in Nat /\ Cardinality(Below(b)) \in Nat
    BY <1>1
  <2> HIDE DEF Below
  <2> QED BY <2>3, <2>4
<1>3. Cardinality(S) \in Nat BY FS_CardinalityType
<1>4. rank \in [S -> 0..(Cardinality(S) - 1)]
  <2> HIDE DEF Below
  <2> QED BY <1>1, <1>3
<1>5. ASSUME NEW a \in S, NEW b \in S, rank[a] = rank[b] PROVE a = b
  <2>1. Cardinality(Below(a)) = Cardinality(Below(b))
    <3> HIDE DEF Below
    <3> QED BY <1>5
  <2>2. Cardinality(Below(a)) \in Nat BY <1>1
  <2>3. <<a, b>> \notin R /\ <<b, a>> \notin R
    <3> HIDE DEF Below
    <3> QED BY <2>1, <2>2, <1>2
  <2> QED BY <2>3 DEF IsOrder
<1>6. rank \in Injection(S, 0..(Cardinality(S) - 1))
  <2> HIDE DEF rank
  <2> QED BY <1>4, <1>5 DEF Injection, IsInjective
<1>7. rank = [r \in S |-> Rank(S, R, r)] BY DEF Rank
<1> HIDE DEF rank
<1> QED BY <1>6, <1>7

(* Every row below the size is that of a member: no gaps.                  *)
LEMMA EveryRowIsTaken ==
  ASSUME NEW S, IsFiniteSet(S), NEW R, IsOrder(S, R)
  PROVE  \A n \in 0..(Cardinality(S) - 1) : \E r \in S : Rank(S, R, r) = n
<1> DEFINE rank == [r \in S |-> Rank(S, R, r)]
           T == 0..(Cardinality(S) - 1)
<1>1. rank \in Injection(S, T) BY RanksAreRows
<1>2. Cardinality(S) \in Nat BY FS_CardinalityType
<1>3. IsFiniteSet(T) /\ Cardinality(T) = Cardinality(S)
  BY <1>2, FS_Interval
<1>4. rank \in Surjection(S, T)
  <2> HIDE DEF rank, T
  <2> QED BY <1>1, <1>3, FS_Injection
<1>5. ASSUME NEW n \in T PROVE \E r \in S : rank[r] = n
  <2> HIDE DEF rank, T
  <2> QED BY <1>4 DEF Surjection
<1> QED BY <1>5

(* Each member at the place that is its rank.                              *)
Ranked(S, R) ==
  [n \in 1..Cardinality(S) |-> CHOOSE x \in S : Rank(S, R, x) = n - 1]

(* The list that has each member at its place has each of them once, in    *)
(* order: what Sorted computes, whatever it sorts by.                      *)
LEMMA RankedIsSorted ==
  ASSUME NEW S, IsFiniteSet(S), NEW R, IsOrder(S, R),
         NEW list, list = Ranked(S, R)
  PROVE  /\ Cardinality(S) \in Nat
         /\ list \in [1..Cardinality(S) -> S]
         /\ \A i, j \in 1..Cardinality(S) : list[i] = list[j] => i = j
         /\ \A x \in S : \E i \in 1..Cardinality(S) : list[i] = x
         /\ \A i, j \in 1..Cardinality(S) : i < j => <<list[i], list[j]>> \in R
<1> DEFINE N == Cardinality(S)
           rank == [r \in S |-> Rank(S, R, r)]
<1>1. N \in Nat BY FS_CardinalityType
<1>2. rank \in [S -> 0..(N - 1)] /\ \A a, b \in S : rank[a] = rank[b] => a = b
  <2>1. rank \in Injection(S, 0..(N - 1)) BY RanksAreRows
  <2> HIDE DEF rank, N
  <2> QED BY <2>1 DEF Injection, IsInjective
<1>3. \A n \in 0..(N - 1) : \E r \in S : Rank(S, R, r) = n
  BY EveryRowIsTaken
<1>4. ASSUME NEW i \in 1..N
      PROVE  list[i] \in S /\ rank[list[i]] = i - 1
  <2>1. i - 1 \in 0..(N - 1) BY <1>1
  <2>2. \E r \in S : Rank(S, R, r) = i - 1
    <3> HIDE DEF N
    <3> QED BY <1>3, <2>1
  <2>3. list[i] = CHOOSE x \in S : Rank(S, R, x) = i - 1
    BY DEF Ranked
  <2>4. list[i] \in S /\ Rank(S, R, list[i]) = i - 1
    BY <2>2, <2>3
  <2> QED BY <2>4
<1>5. list \in [1..N -> S]
  <2>1. DOMAIN list = 1..N /\ list = [i \in 1..N |-> list[i]]
    BY DEF Ranked
  <2> HIDE DEF N
  <2> QED BY <1>4, <2>1
<1>6. ASSUME NEW i \in 1..N, NEW j \in 1..N, list[i] = list[j]
      PROVE  i = j
  <2>1. i - 1 = j - 1 BY <1>4, <1>6
  <2> QED BY <1>1, <2>1
<1>7. ASSUME NEW x \in S
      PROVE  \E i \in 1..N : list[i] = x
  <2> DEFINE i == rank[x] + 1
  <2> HIDE DEF N, rank
  <2>1. i \in 1..N /\ i - 1 = rank[x] BY <1>1, <1>2
  <2>2. rank[list[i]] = rank[x] /\ list[i] \in S
    <3> HIDE DEF i
    <3> QED BY <1>4, <2>1
  <2> QED BY <1>2, <2>1, <2>2
<1>8. ASSUME NEW i \in 1..N, NEW j \in 1..N, i < j
      PROVE  <<list[i], list[j]>> \in R
  <2>1. list[i] \in S /\ list[j] \in S BY <1>4
  <2>2. list[i] # list[j] BY <1>1, <1>6, <1>8
  <2>3. ASSUME <<list[j], list[i]>> \in R PROVE FALSE
    <3> DEFINE a == list[j]
               b == list[i]
               Below(r) == {s \in S : <<s, r>> \in R}
    <3> HIDE DEF a, b
    <3>1. a \in S /\ b \in S /\ <<a, b>> \in R BY <2>1, <2>3 DEF a, b
    <3>2. Below(a) \in SUBSET Below(b) BY <3>1 DEF IsOrder
    <3>3. IsFiniteSet(Below(b))
      <4>1. Below(b) \in SUBSET S OBVIOUS
      <4> HIDE DEF Below
      <4> QED BY <4>1, FS_Subset
    <3>4. Cardinality(Below(a)) <= Cardinality(Below(b))
      <4> HIDE DEF Below
      <4> QED BY <3>2, <3>3, FS_Subset
    <3>5. rank[a] = Cardinality(Below(a)) /\ rank[b] = Cardinality(Below(b))
      BY <3>1 DEF Rank
    <3>6. rank[a] = j - 1 /\ rank[b] = i - 1
      BY <1>4 DEF a, b
    <3> HIDE DEF rank, Below
    <3>7. j - 1 <= i - 1 BY <3>4, <3>5, <3>6
    <3> HIDE DEF N
    <3> QED BY <1>1, <1>8, <3>7
  <2> QED BY <2>1, <2>2, <2>3 DEF IsOrder
<1> HIDE DEF N
<1> QED BY <1>1, <1>5, <1>6, <1>7, <1>8 DEF N

(* What a function makes of finitely many values are finitely many.        *)
LEMMA ImageIsFinite ==
  ASSUME NEW S, IsFiniteSet(S), NEW I, NEW f,
         \A y \in I : \E x \in S : y = f[x]
  PROVE  IsFiniteSet(I)
<1> DEFINE D == {x \in S : f[x] \in I}
           g == [x \in D |-> f[x]]
<1>1. D \in SUBSET S
  OBVIOUS
<1>2. g \in Surjection(D, I)
  BY DEF Surjection
<1> HIDE DEF D, g
<1>3. IsFiniteSet(D)
  BY <1>1, FS_Subset
<1> QED
  BY <1>2, <1>3, FS_Surjection

(* A finite set of natural numbers ends somewhere.                         *)
LEMMA FiniteIsBounded ==
  ASSUME NEW S \in SUBSET Nat, IsFiniteSet(S)
  PROVE  \E n \in Nat : \A k \in S : k < n
<1> DEFINE R == {p \in S \X S : p[1] < p[2]}
           list == Ranked(S, R)
           N == Cardinality(S)
<1>1. \A a, b \in S : <<a, b>> \in R <=> a < b
  OBVIOUS
<1> HIDE DEF R
<1>2. IsOrder(S, R)
  BY <1>1 DEF IsOrder
<1>3. /\ N \in Nat /\ list \in [1..N -> S]
      /\ \A x \in S : \E i \in 1..N : list[i] = x
      /\ \A i, j \in 1..N : i < j => <<list[i], list[j]>> \in R
  BY <1>2, RankedIsSorted
<1> HIDE DEF list, N
<1>4. CASE N = 0
  BY <1>3, <1>4
<1>5. CASE N # 0
  <2>1. N \in 1..N /\ list[N] \in S
    BY <1>3, <1>5
  <2>2. ASSUME NEW k \in S PROVE k < list[N] + 1
    <3>1. PICK i \in 1..N : list[i] = k
      BY <1>3
    <3>2. i < N => k < list[N]
      BY <1>1, <1>3, <2>1, <3>1
    <3>3. i = N => k = list[N]
      BY <3>1
    <3>4. list[N] \in Nat /\ k \in Nat
      BY <2>1
    <3>5. i < N \/ i = N
      BY <1>3
    <3> QED
      BY <3>2, <3>3, <3>4, <3>5
  <2>3. list[N] \in Nat
    BY <2>1
  <2>4. list[N] + 1 \in Nat
    BY <2>3
  <2> QED
    BY <2>2, <2>4
<1> QED
  BY <1>4, <1>5

(* Where every number of a set leads to a lower one or out of the set, the *)
(* number each of them leads to in the end can be told.                    *)
LEMMA ChainsEnd ==
  ASSUME NEW P \in SUBSET Nat, IsFiniteSet(P), NEW up,
         \A id \in P : up[id] \in P => up[id] < id
  PROVE  \E f \in [P -> P] :
           \A id \in P : f[id] = IF up[id] \in P THEN f[up[id]] ELSE id
<1> DEFINE Low(n) == {id \in P : id < n}
           Told(n, f) == \A id \in Low(n) :
                           f[id] = IF up[id] \in P THEN f[up[id]] ELSE id
           Reached == {n \in Nat : \E f \in [Low(n) -> P] : Told(n, f)}
<1>1. 0 \in Reached
  <2>1. Low(0) = {}
    <3>1. \A id \in P : ~(id < 0)
      OBVIOUS
    <3> QED
      BY <3>1
  <2>2. [id \in {} |-> id] \in [{} -> P]
    OBVIOUS
  <2> QED
    BY <2>1, <2>2
<1>2. ASSUME NEW n \in Reached PROVE n + 1 \in Reached
  <2>1. n \in Nat
    OBVIOUS
  <2>2. PICK f \in [Low(n) -> P] : Told(n, f)
    OBVIOUS
  <2> DEFINE last == IF up[n] \in P THEN f[up[n]] ELSE n
             g == [id \in Low(n + 1) |-> IF id = n THEN last ELSE f[id]]
  <2>3. \A id \in Low(n + 1) : id \in P /\ (id = n \/ id \in Low(n))
    BY <2>1
  <2>4. n \in P => last \in P
    <3>1. n \in P /\ up[n] \in P => up[n] \in Low(n)
      BY <2>1
    <3> QED
      BY <2>2, <3>1
  <2>5. g \in [Low(n + 1) -> P]
    <3> HIDE DEF last, Low
    <3> QED
      BY <2>2, <2>3, <2>4
  <2>6. ASSUME NEW id \in Low(n + 1), up[id] \in P
        PROVE  up[id] \in Low(n) /\ up[id] \in Low(n + 1) /\ up[id] # n
    <3>1. up[id] < id /\ id < n + 1 /\ up[id] \in Nat /\ id \in Nat
      BY <2>6
    <3>2. up[id] < n /\ up[id] < n + 1 /\ up[id] # n
      BY <2>1, <3>1
    <3> QED
      BY <2>6, <3>2
  <2>7. Told(n + 1, g)
    <3>1. \A id \in Low(n + 1) : up[id] \in P => g[up[id]] = f[up[id]]
      <4> HIDE DEF last, Low
      <4> QED BY <2>6
    <3>2. \A id \in Low(n + 1) : id # n => g[id] = f[id]
      <4> HIDE DEF last, Low
      <4> QED OBVIOUS
    <3>3. n \in Low(n + 1) => g[n] = last
      <4> HIDE DEF last, Low
      <4> QED OBVIOUS
    <3> HIDE DEF g, Low
    <3> QED
      BY <2>2, <2>3, <3>1, <3>2, <3>3
  <2> HIDE DEF g, Low
  <2> QED
    BY <2>1, <2>5, <2>7
<1>3. Reached = Nat
  <2> HIDE DEF Reached
  <2>1. Reached \in SUBSET Nat
    BY DEF Reached
  <2> QED
    BY <1>1, <1>2, <2>1, NatInductionOnSet
<1>4. PICK n \in Nat : \A k \in P : k < n
  BY FiniteIsBounded
<1>5. PICK f \in [Low(n) -> P] : Told(n, f)
  <2>1. n \in Reached
    BY <1>3
  <2> QED
    BY <2>1
<1>6. Low(n) = P
  BY <1>4
<1> QED
  BY <1>5, <1>6

(* A list of the members of a set, each once.                              *)
ListsOnce(list, S) ==
  /\ list \in Seq(S) /\ Len(list) = Cardinality(S)
  /\ \A i, j \in 1..Len(list) : list[i] = list[j] => i = j
  /\ \A x \in S : \E i \in 1..Len(list) : list[i] = x

LEMMA RankedListsOnce ==
  ASSUME NEW S, IsFiniteSet(S), NEW R, IsOrder(S, R)
  PROVE  ListsOnce(Ranked(S, R), S)
<1> DEFINE list == Ranked(S, R)
           N == Cardinality(S)
<1>1. /\ N \in Nat /\ list \in [1..N -> S]
      /\ \A i, j \in 1..N : list[i] = list[j] => i = j
      /\ \A x \in S : \E i \in 1..N : list[i] = x
  BY RankedIsSorted
<1> HIDE DEF list, N
<1>2. list \in Seq(S) /\ Len(list) = N
  BY <1>1
<1> QED
  BY <1>1, <1>2 DEF ListsOnce, list, N

(* Not empty: a list has as many members as the set it is sorted from.     *)
LEMMA SortedIsFull ==
  ASSUME NEW S, NEW T, IsFiniteSet(S), S # {}, S \in SUBSET T,
         NEW list \in Seq(S), Len(list) = Cardinality(S)
  PROVE  list \in Seq(T) \ {<<>>}
<1>1. Cardinality(S) # 0
  BY FS_EmptySet
<1>2. list # <<>>
  BY <1>1
<1>3. list \in Seq(T)
  OBVIOUS
<1> QED
  BY <1>2, <1>3

---------------------------------------------------------------------------
(* Recursion along the natural numbers.                                    *)

(* Induction up to a number.                                               *)
LEMMA InductionUpTo ==
  ASSUME NEW N \in Nat, NEW S \in SUBSET (0..N), 0 \in S,
         \A n \in 1..N : n - 1 \in S => n \in S
  PROVE  S = 0..N
<1> DEFINE Reached == {n \in Nat : n <= N => n \in S}
<1>1. 0 \in Reached
  OBVIOUS
<1>2. ASSUME NEW n \in Reached PROVE n + 1 \in Reached
  <2>1. n \in Nat /\ (n + 1 <= N => n + 1 \in 1..N /\ (n + 1) - 1 = n)
    OBVIOUS
  <2>2. n + 1 <= N => n \in S
    OBVIOUS
  <2> QED
    BY <2>1, <2>2
<1>3. Reached = Nat
  <2> HIDE DEF Reached
  <2>1. Reached \in SUBSET Nat
    BY DEF Reached
  <2> QED
    BY <1>1, <1>2, <2>1, NatInductionOnSet
<1>4. ASSUME NEW n \in 0..N PROVE n \in S
  <2>1. n \in Nat /\ n <= N
    OBVIOUS
  <2>2. n \in Reached
    BY <1>3, <2>1
  <2> QED
    BY <2>1, <2>2
<1> QED
  BY <1>4

IsFold(f, N, base, step) ==
  \A n \in 0..N : f[n] = IF n = 0 THEN base ELSE step[<<f[n - 1], n>>]

(* What a list of steps leads to, one after the other, exists.             *)
LEMMA FoldExists ==
  ASSUME NEW T, NEW N \in Nat, NEW base \in T, NEW step \in [T \X (1..N) -> T]
  PROVE  \E f \in [0..N -> T] : IsFold(f, N, base, step)
<1> DEFINE Told(k, f) ==
             \A n \in 0..k : f[n] = IF n = 0 THEN base ELSE step[<<f[n - 1], n>>]
           S == {k \in 0..N : \E f \in [0..k -> T] : Told(k, f)}
<1>1. 0 \in S
  <2> DEFINE f == [n \in 0..0 |-> base]
  <2>1. f \in [0..0 -> T]
    OBVIOUS
  <2>2. \A n \in 0..0 : n = 0 /\ f[n] = base
    OBVIOUS
  <2> HIDE DEF f
  <2>3. Told(0, f)
    BY <2>2
  <2> HIDE DEF Told
  <2> QED
    BY <2>1, <2>3
<1>2. ASSUME NEW k \in 1..N, k - 1 \in S PROVE k \in S
  <2>1. PICK f \in [0..(k - 1) -> T] : Told(k - 1, f)
    BY <1>2
  <2> DEFINE last == step[<<f[k - 1], k>>]
             g == [n \in 0..k |-> IF n = k THEN last ELSE f[n]]
  <2>2. last \in T
    <3>1. f[k - 1] \in T
      OBVIOUS
    <3>2. <<f[k - 1], k>> \in T \X (1..N)
      BY <3>1
    <3> QED
      BY <3>2
  <2>3. \A n \in 0..k : n = k \/ n \in 0..(k - 1)
    OBVIOUS
  <2>4. g \in [0..k -> T]
    <3> HIDE DEF last
    <3> QED
      BY <2>2, <2>3
  <2>5. \A n \in 0..(k - 1) : g[n] = f[n] /\ n # k /\ n \in 0..k
    <3> HIDE DEF last
    <3> QED
      OBVIOUS
  <2>6. g[k] = last
    <3> HIDE DEF last
    <3> QED
      OBVIOUS
  <2>7. Told(k, g)
    <3> HIDE DEF g
    <3>1. ASSUME NEW n \in 0..k
          PROVE  g[n] = IF n = 0 THEN base ELSE step[<<g[n - 1], n>>]
      <4>1. n # 0 => n - 1 \in 0..(k - 1)
        OBVIOUS
      <4>2. n # 0 => g[n - 1] = f[n - 1]
        BY <2>5, <4>1
      <4>3. CASE n = k
        BY <2>6, <4>2, <4>3
      <4>4. CASE n # k
        <5>1. n \in 0..(k - 1)
          BY <2>3, <4>4
        <5>2. g[n] = f[n]
          BY <2>5, <5>1
        <5>3. f[n] = IF n = 0 THEN base ELSE step[<<f[n - 1], n>>]
          BY <2>1, <5>1
        <5> QED
          BY <4>2, <5>2, <5>3
      <4> QED
        BY <4>3, <4>4
    <3> QED
      BY <3>1
  <2> HIDE DEF g, Told
  <2> QED
    BY <2>4, <2>7
<1>3. S = 0..N
  <2> HIDE DEF S
  <2>1. S \in SUBSET (0..N)
    BY DEF S
  <2> QED
    BY <1>1, <1>2, <2>1, InductionUpTo
<1>4. N \in S
  <2> HIDE DEF S
  <2> QED BY <1>3
<1>5. PICK f \in [0..N -> T] : Told(N, f)
  BY <1>4
<1> QED
  BY <1>5 DEF IsFold

---------------------------------------------------------------------------
(* Flattening.                                                             *)

(* What FlattenSeq is defined to compute exists: what it has joined up to  *)
(* each sequence is what it had joined before, and that sequence.          *)
LEMMA FlattenUnfolds ==
  ASSUME NEW T, NEW seqs \in Seq(Seq(T))
  PROVE  \E flat \in [0..Len(seqs) -> Seq(T)] :
           /\ flat[0] = <<>>
           /\ \A i \in 1..Len(seqs) : flat[i] = flat[i - 1] \o seqs[i]
           /\ FlattenSeq(seqs) = flat[Len(seqs)]
<1> DEFINE N == Len(seqs)
           Flat(n, f) ==
             \A i \in 1..n : f[i] = IF i = 1 THEN seqs[i] ELSE f[i - 1] \o seqs[i]
           Reachable(n) == \E f \in [1..n -> Seq(T)] : Flat(n, f)
           Reached == {n \in Nat : n <= N => Reachable(n)}
<1>0. N \in Nat
  OBVIOUS
<1>1. 0 \in Reached
  <2> DEFINE none == [i \in 1..0 |-> <<>>]
  <2>1. none \in [1..0 -> Seq(T)] /\ Flat(0, none)
    OBVIOUS
  <2> QED
    BY <2>1
<1>2. ASSUME NEW n \in Reached
      PROVE  n + 1 \in Reached
  <2>0. n \in Nat
    OBVIOUS
  <2> SUFFICES ASSUME n + 1 <= N
               PROVE  Reachable(n + 1)
    <3> HIDE DEF Reachable
    <3> QED
      BY <2>0
  <2>1. PICK f \in [1..n -> Seq(T)] : Flat(n, f)
    <3>1. Reachable(n)
      <4> HIDE DEF Reachable, N
      <4> QED
        BY <1>0, <2>0
    <3> QED
      BY <3>1
  <2> DEFINE last == IF n = 0 THEN seqs[1] ELSE f[n] \o seqs[n + 1]
             g == [i \in 1..(n + 1) |-> IF i = n + 1 THEN last ELSE f[i]]
  <2>2. seqs[n + 1] \in Seq(T)
    BY <1>0, ElementOfSeq
  <2>3. last \in Seq(T)
    BY <2>1, <2>2, ConcatProperties
  <2>4. g \in [1..(n + 1) -> Seq(T)]
    <3> HIDE DEF last
    <3>1. \A i \in 1..(n + 1) : i = n + 1 \/ i \in 1..n
      BY <2>0
    <3> QED
      BY <2>3, <3>1
  <2>5. ASSUME NEW i \in 1..(n + 1)
        PROVE  g[i] = IF i = 1 THEN seqs[i] ELSE g[i - 1] \o seqs[i]
    <3>1. CASE i = n + 1
      <4>1. i # 1 => i - 1 \in 1..n /\ g[i - 1] = f[n]
        BY <3>1
      <4> QED
        BY <3>1, <4>1
    <3>2. CASE i # n + 1
      <4>1. i \in 1..n /\ (i # 1 => i - 1 \in 1..n)
        BY <3>2
      <4>2. g[i] = f[i] /\ (i # 1 => g[i - 1] = f[i - 1])
        <5> HIDE DEF last
        <5> QED
          BY <3>2, <4>1
      <4> HIDE DEF g
      <4> QED
        BY <2>1, <4>1, <4>2
    <3> QED
      BY <3>1, <3>2
  <2> HIDE DEF g
  <2> QED
    BY <2>4, <2>5
<1>3. Reached = Nat
  <2> HIDE DEF Reached
  <2>1. Reached \in SUBSET Nat
    BY DEF Reached
  <2> QED
    BY <1>1, <1>2, <2>1, NatInductionOnSet
<1>4. PICK g \in [1..N -> Seq(T)] : Flat(N, g)
  <2>1. N \in Reached
    <3> HIDE DEF Reached
    <3> QED
      BY <1>0, <1>3
  <2>2. Reachable(N)
    <3> HIDE DEF N, Reachable
    <3> QED
      BY <1>0, <2>1
  <2> QED
    BY <2>2
<1> DEFINE f == CHOOSE flatten :
                  flatten = [i \in 1..N |-> IF i = 1 THEN seqs[i]
                                            ELSE flatten[i - 1] \o seqs[i]]
<1>5. f = [i \in 1..N |-> IF i = 1 THEN seqs[i] ELSE f[i - 1] \o seqs[i]]
  <2>1. g = [i \in 1..N |-> IF i = 1 THEN seqs[i] ELSE g[i - 1] \o seqs[i]]
    <3> HIDE DEF N
    <3> QED
      BY <1>4
  <2> QED
    BY <2>1
<1>6. \A i \in 1..N : f[i] = IF i = 1 THEN seqs[i] ELSE f[i - 1] \o seqs[i]
  <2> HIDE DEF f
  <2> QED
    BY <1>5
<1> DEFINE Typed == {n \in Nat : n + 1 <= N => f[n + 1] \in Seq(T)}
<1>7. 0 \in Typed
  <2> HIDE DEF f
  <2>1. 1 <= N => f[1] = seqs[1] /\ seqs[1] \in Seq(T)
    BY <1>0, <1>6, ElementOfSeq
  <2> QED
    BY <2>1
<1>8. ASSUME NEW n \in Typed
      PROVE  n + 1 \in Typed
  <2> HIDE DEF f
  <2> SUFFICES ASSUME n + 2 <= N
               PROVE  f[n + 2] \in Seq(T)
    OBVIOUS
  <2>1. f[n + 2] = f[n + 1] \o seqs[n + 2]
    <3>1. n + 2 \in 1..N /\ n + 2 # 1 /\ (n + 2) - 1 = n + 1
      BY <1>0
    <3> HIDE DEF N
    <3> QED
      BY <1>6, <3>1
  <2>2. f[n + 1] \in Seq(T) /\ seqs[n + 2] \in Seq(T)
    BY <1>0, ElementOfSeq
  <2> QED
    BY <2>1, <2>2, ConcatProperties
<1>9. Typed = Nat
  <2> HIDE DEF Typed
  <2>1. Typed \in SUBSET Nat
    BY DEF Typed
  <2> QED
    BY <1>7, <1>8, <2>1, NatInductionOnSet
<1>10. ASSUME NEW i \in 1..N
       PROVE  f[i] \in Seq(T)
  <2> HIDE DEF f
  <2>1. i - 1 \in Nat
    BY <1>0
  <2>2. i - 1 \in Typed
    <3> HIDE DEF Typed
    <3> QED
      BY <1>9, <2>1
  <2>3. i - 1 + 1 = i /\ i <= N
    BY <1>0
  <2> QED
    BY <2>2, <2>3
<1> DEFINE flat == [i \in 0..N |-> IF i = 0 THEN <<>> ELSE f[i]]
<1>11. flat \in [0..N -> Seq(T)] /\ flat[0] = <<>>
  <2> HIDE DEF f
  <2> QED
    BY <1>0, <1>10
<1>12. ASSUME NEW i \in 1..N
       PROVE  flat[i] = flat[i - 1] \o seqs[i]
  <2> HIDE DEF f
  <2>1. seqs[i] \in Seq(T)
    BY <1>0, ElementOfSeq
  <2>2. <<>> \o seqs[i] = seqs[i]
    BY <2>1, ConcatEmptySeq
  <2>3. flat[i] = f[i]
    BY <1>0
  <2>4. flat[i - 1] = IF i = 1 THEN <<>> ELSE f[i - 1]
    BY <1>0
  <2> HIDE DEF flat
  <2> QED
    BY <1>6, <2>2, <2>3, <2>4
<1>13. FlattenSeq(seqs) = flat[N]
  <2>1. CASE N = 0
    <3>1. seqs = <<>>
      BY <2>1, EmptySeq
    <3> QED
      BY <2>1, <3>1 DEF FlattenSeq
  <2>2. CASE N # 0
    <3>1. FlattenSeq(seqs) = f[N]
      BY <2>2 DEF FlattenSeq
    <3> HIDE DEF f
    <3> QED
      BY <1>0, <2>2, <3>1
  <2> QED
    BY <2>1, <2>2
<1> HIDE DEF flat
<1> QED
  BY <1>11, <1>12, <1>13

(* Both parts of a concatenation are in it, at their places.               *)
LEMMA ConcatAt ==
  ASSUME NEW T, NEW a \in Seq(T), NEW b \in Seq(T)
  PROVE  /\ Len(a \o b) = Len(a) + Len(b)
         /\ Len(a) \in Nat /\ Len(b) \in Nat
         /\ \A j \in 1..Len(a) : (a \o b)[j] = a[j]
         /\ \A j \in 1..Len(b) : (a \o b)[Len(a) + j] = b[j]
OBVIOUS

(* Where in a flattened sequence each of its parts ends.                   *)
IsWalk(seqs, ends) ==
  /\ ends \in [0..Len(seqs) -> Nat]
  /\ ends[0] = 0 /\ ends[Len(seqs)] = Len(FlattenSeq(seqs))
  /\ \A i \in 1..Len(seqs) :
       /\ ends[i] = ends[i - 1] + Len(seqs[i])
       /\ \A j \in 1..Len(seqs[i]) :
            FlattenSeq(seqs)[ends[i - 1] + j] = seqs[i][j]
  /\ \A i, j \in 0..Len(seqs) : i <= j => ends[i] <= ends[j]

Ends(seqs) == CHOOSE ends : IsWalk(seqs, ends)

(* Flattening puts the parts behind each other (FlattenSeq in Callbacks).  *)
LEMMA FlattenWalks ==
  ASSUME NEW T, NEW seqs \in Seq(Seq(T))
  PROVE  FlattenSeq(seqs) \in Seq(T) /\ IsWalk(seqs, Ends(seqs))
<1> DEFINE N == Len(seqs)
<1>1. PICK flat \in [0..N -> Seq(T)] :
        /\ flat[0] = <<>>
        /\ \A i \in 1..N : flat[i] = flat[i - 1] \o seqs[i]
        /\ FlattenSeq(seqs) = flat[N]
  BY FlattenUnfolds
<1>2. N \in Nat /\ \A i \in 1..N : seqs[i] \in Seq(T)
  BY ElementOfSeq
<1> DEFINE Extends(n) == \A i \in 0..n :
             /\ Len(flat[i]) <= Len(flat[n])
             /\ \A j \in 1..Len(flat[i]) : flat[n][j] = flat[i][j]
           Long == {n \in Nat : n <= N => Extends(n)}
<1> HIDE DEF N
<1>3. \A i \in 0..N : flat[i] \in Seq(T) /\ Len(flat[i]) \in Nat
  BY <1>1
<1>4. ASSUME NEW i \in 1..N
      PROVE  /\ i - 1 \in 0..N /\ i \in 0..N /\ Len(seqs[i]) \in Nat
             /\ Len(flat[i]) = Len(flat[i - 1]) + Len(seqs[i])
             /\ \A j \in 1..Len(flat[i - 1]) : flat[i][j] = flat[i - 1][j]
             /\ \A j \in 1..Len(seqs[i]) :
                  flat[i][Len(flat[i - 1]) + j] = seqs[i][j]
  <2>1. i - 1 \in 0..N /\ i \in 0..N
    BY <1>2
  <2>2. flat[i - 1] \in Seq(T) /\ seqs[i] \in Seq(T)
    BY <1>2, <1>3, <2>1
  <2>3. flat[i] = flat[i - 1] \o seqs[i]
    BY <1>1
  <2> DEFINE a == flat[i - 1]
             b == seqs[i]
  <2> HIDE DEF a, b
  <2>4. /\ Len(a \o b) = Len(a) + Len(b) /\ Len(b) \in Nat
        /\ \A j \in 1..Len(a) : (a \o b)[j] = a[j]
        /\ \A j \in 1..Len(b) : (a \o b)[Len(a) + j] = b[j]
    <3>1. a \in Seq(T) /\ b \in Seq(T)
      BY <2>2 DEF a, b
    <3> QED
      BY <3>1, ConcatAt
  <2>5. flat[i] = a \o b
    BY <2>3 DEF a, b
  <2> QED
    BY <2>1, <2>4, <2>5 DEF a, b
<1>5. 0 \in Long
  <2>1. 0 \in 0..N /\ Len(flat[0]) \in Nat
    BY <1>2, <1>3
  <2> QED
    BY <2>1
<1>6. ASSUME NEW n \in Long
      PROVE  n + 1 \in Long
  <2>0. n \in Nat
    OBVIOUS
  <2> SUFFICES ASSUME n + 1 <= N
               PROVE  Extends(n + 1)
    <3> HIDE DEF Extends
    <3> QED
      BY <2>0
  <2>1. Extends(n)
    <3> HIDE DEF Extends
    <3> QED
      BY <1>2, <2>0
  <2>2. n + 1 \in 1..N /\ (n + 1) - 1 = n /\ n \in 0..N /\ n + 1 \in 0..N
    BY <1>2, <2>0
  <2>3. /\ Len(flat[n + 1]) >= Len(flat[n])
        /\ \A j \in 1..Len(flat[n]) : flat[n + 1][j] = flat[n][j]
        /\ Len(flat[n]) \in Nat /\ Len(flat[n + 1]) \in Nat
    <3>1. Len(flat[n]) \in Nat /\ Len(flat[n + 1]) \in Nat
      BY <1>3, <2>2
    <3> DEFINE m == n + 1
    <3>2. m \in 1..N /\ m - 1 = n
      BY <2>2
    <3> HIDE DEF m
    <3>3. /\ Len(seqs[m]) \in Nat
          /\ Len(flat[m]) = Len(flat[n]) + Len(seqs[m])
          /\ \A j \in 1..Len(flat[n]) : flat[m][j] = flat[n][j]
      BY <1>4, <3>2
    <3>4. Len(flat[m]) >= Len(flat[n])
      <4>1. Len(flat[n]) \in Nat /\ Len(seqs[m]) \in Nat
        BY <3>1, <3>3
      <4>2. \A p, q, r \in Nat : p = q + r => p >= q
        OBVIOUS
      <4>3. Len(flat[m]) \in Nat
        BY <3>1 DEF m
      <4> QED
        BY <3>3, <4>1, <4>2, <4>3
    <3> QED
      BY <3>1, <3>3, <3>4 DEF m
  <2>4. ASSUME NEW i \in 0..(n + 1)
        PROVE  /\ Len(flat[i]) <= Len(flat[n + 1])
               /\ \A j \in 1..Len(flat[i]) : flat[n + 1][j] = flat[i][j]
    <3>1. CASE i = n + 1
      BY <2>3, <3>1
    <3>2. CASE i # n + 1
      <4>1. i \in 0..n /\ i \in 0..N
        BY <1>2, <2>0, <3>2
      <4>2. Len(flat[i]) \in Nat
        BY <1>3, <4>1
      <4> QED
        BY <2>1, <2>3, <4>1, <4>2
    <3> QED
      BY <3>1, <3>2
  <2> QED
    BY <2>4
<1>7. Long = Nat
  <2> HIDE DEF Long
  <2>1. Long \in SUBSET Nat
    BY DEF Long
  <2> QED
    BY <1>5, <1>6, <2>1, NatInductionOnSet
<1>8. ASSUME NEW n \in 0..N
      PROVE  Extends(n)
  <2>1. n \in Nat /\ n <= N
    BY <1>2
  <2> HIDE DEF Extends
  <2> QED
    BY <1>7, <2>1
<1> DEFINE ends == [i \in 0..N |-> Len(flat[i])]
<1>9. ends \in [0..N -> Nat]
  BY <1>3
<1>10. ends[0] = 0 /\ ends[N] = Len(FlattenSeq(seqs))
  BY <1>1, <1>2
<1>11. ASSUME NEW i \in 1..N
       PROVE  /\ ends[i] = ends[i - 1] + Len(seqs[i])
              /\ \A j \in 1..Len(seqs[i]) :
                   FlattenSeq(seqs)[ends[i - 1] + j] = seqs[i][j]
  <2>1. ends[i] = Len(flat[i]) /\ ends[i - 1] = Len(flat[i - 1])
    BY <1>4
  <2> HIDE DEF ends
  <2>2. Len(flat[i - 1]) \in Nat /\ Len(seqs[i]) \in Nat /\ i \in 0..N
    BY <1>3, <1>4
  <2>3. Extends(N)
    <3>1. N \in 0..N
      BY <1>2
    <3> HIDE DEF Extends
    <3> QED
      BY <1>8, <3>1
  <2>4. ASSUME NEW j \in 1..Len(seqs[i])
        PROVE  FlattenSeq(seqs)[ends[i - 1] + j] = seqs[i][j]
    <3>1. flat[i][ends[i - 1] + j] = seqs[i][j]
      BY <1>4, <2>1
    <3>2. ends[i - 1] + j \in 1..Len(flat[i])
      <4>1. Len(flat[i]) = ends[i - 1] + Len(seqs[i])
        BY <1>4, <2>1
      <4> DEFINE start == ends[i - 1]
                 size  == Len(seqs[i])
      <4>2. start \in Nat /\ size \in Nat /\ j \in 1..size
        BY <2>1, <2>2
      <4>3. Len(flat[i]) = start + size
        BY <4>1
      <4> HIDE DEF N, start, size
      <4>4. start + j \in 1..Len(flat[i])
        BY <4>2, <4>3
      <4> QED
        BY <4>4 DEF start
    <3>3. flat[N][ends[i - 1] + j] = flat[i][ends[i - 1] + j]
      BY <2>2, <2>3, <3>2
    <3> QED
      BY <1>1, <3>1, <3>3
  <2> QED
    BY <1>4, <2>1, <2>4
<1>12. ASSUME NEW j \in 0..N, NEW i \in 0..j
       PROVE  ends[i] <= ends[j]
  <2>1. i \in 0..N
    BY <1>2
  <2> QED
    BY <1>8, <2>1
<1>13. IsWalk(seqs, ends)
  <2>1. \A i, j \in 0..N : i <= j => ends[i] <= ends[j]
    <3> HIDE DEF ends
    <3> QED
      BY <1>2, <1>12
  <2> HIDE DEF ends
  <2> QED
    BY <1>9, <1>10, <1>11, <2>1 DEF IsWalk, N
<1>14. FlattenSeq(seqs) \in Seq(T)
  BY <1>1, <1>2
<1> HIDE DEF ends
<1> QED
  BY <1>13, <1>14 DEF Ends

(* The first part is where the whole begins.                               *)
LEMMA FlattenHead ==
  ASSUME NEW T, NEW seqs \in Seq(Seq(T)), seqs # <<>>
  PROVE  /\ Len(FlattenSeq(seqs)) >= Len(seqs[1])
         /\ FlattenSeq(seqs) \in Seq(T) /\ seqs[1] \in Seq(T)
         /\ \A j \in 1..Len(seqs[1]) : FlattenSeq(seqs)[j] = seqs[1][j]
<1> DEFINE ends == Ends(seqs)
           N == Len(seqs)
<1>1. IsWalk(seqs, ends) /\ FlattenSeq(seqs) \in Seq(T)
  BY FlattenWalks
<1>2. N \in Nat \ {0}
  BY EmptySeq
<1>3. seqs[1] \in Seq(T)
  BY <1>2, ElementOfSeq
<1> HIDE DEF ends
<1>4. ends[0] = 0 /\ ends[1] = ends[0] + Len(seqs[1]) /\ ends[1] <= ends[N]
      /\ ends[N] = Len(FlattenSeq(seqs))
  <2>1. 1 \in 1..N /\ 1 \in 0..N /\ N \in 0..N /\ 1 <= N /\ 1 - 1 = 0
    BY <1>2
  <2> QED
    BY <1>1, <2>1 DEF IsWalk
<1>5. \A j \in 1..Len(seqs[1]) : FlattenSeq(seqs)[ends[0] + j] = seqs[1][j]
  <2>1. 1 \in 1..N /\ 1 - 1 = 0
    BY <1>2
  <2> QED
    BY <1>1, <2>1 DEF IsWalk
<1>6. \A j \in 1..Len(seqs[1]) : 0 + j = j
  BY <1>3
<1>7. Len(seqs[1]) \in Nat
  BY <1>3
<1>8. ends[1] = Len(seqs[1])
  BY <1>4, <1>7
<1> QED
  BY <1>1, <1>3, <1>4, <1>5, <1>6, <1>8

(* Every place of a flattened sequence is that of a member of a part.       *)
LEMMA FlattenPlaces ==
  ASSUME NEW T, NEW seqs \in Seq(Seq(T))
  PROVE  LET flat == FlattenSeq(seqs)
             ends == Ends(seqs)
         IN /\ flat \in Seq(T)
            /\ \A i \in 1..Len(seqs) : \A j \in 1..Len(seqs[i]) :
                 /\ ends[i - 1] + j \in 1..Len(flat)
                 /\ flat[ends[i - 1] + j] = seqs[i][j]
            /\ \A n \in 1..Len(flat) :
                 \E i \in 1..Len(seqs) : \E j \in 1..Len(seqs[i]) :
                   n = ends[i - 1] + j
<1> DEFINE flat == FlattenSeq(seqs)
           ends == Ends(seqs)
           N == Len(seqs)
<1>1. flat \in Seq(T) /\ IsWalk(seqs, ends)
  BY FlattenWalks
<1>2. N \in Nat /\ Len(flat) \in Nat
  BY <1>1, LenProperties
<1> HIDE DEF ends
<1>3. /\ ends \in [0..N -> Nat] /\ ends[0] = 0 /\ ends[N] = Len(flat)
      /\ \A i, j \in 0..N : i <= j => ends[i] <= ends[j]
  BY <1>1 DEF IsWalk
<1>4. ASSUME NEW i \in 1..N
      PROVE  /\ i - 1 \in 0..N /\ i \in 0..N
             /\ ends[i - 1] \in Nat /\ Len(seqs[i]) \in Nat
             /\ ends[i] = ends[i - 1] + Len(seqs[i])
             /\ ends[i] <= Len(flat)
             /\ \A j \in 1..Len(seqs[i]) : flat[ends[i - 1] + j] = seqs[i][j]
  <2>1. i - 1 \in 0..N /\ i \in 0..N /\ N \in 0..N /\ i <= N
    BY <1>2
  <2>2. seqs[i] \in Seq(T)
    BY ElementOfSeq
  <2>3. ends[i - 1] \in Nat /\ ends[i] <= ends[N]
    <3> DEFINE m == i - 1
    <3>1. m \in 0..N
      BY <2>1
    <3> HIDE DEF m
    <3>2. ends[m] \in Nat
      BY <1>3, <3>1
    <3> QED
      BY <1>3, <2>1, <3>2 DEF m
  <2>4. /\ ends[i] = ends[i - 1] + Len(seqs[i])
        /\ \A j \in 1..Len(seqs[i]) : flat[ends[i - 1] + j] = seqs[i][j]
    BY <1>1 DEF IsWalk
  <2> QED
    BY <1>3, <2>1, <2>2, <2>3, <2>4, LenProperties
<1> HIDE DEF flat, N
<1>5. ASSUME NEW i \in 1..N, NEW j \in 1..Len(seqs[i])
      PROVE  /\ ends[i - 1] + j \in 1..Len(flat)
             /\ flat[ends[i - 1] + j] = seqs[i][j]
  <2> DEFINE e == ends[i - 1]
             l == Len(seqs[i])
             f == Len(flat)
  <2>1. e \in Nat /\ l \in Nat /\ f \in Nat /\ e + l <= f /\ j \in 1..l
    BY <1>2, <1>4
  <2> HIDE DEF e, l, f
  <2>2. e + j \in 1..f
    BY <2>1
  <2> QED
    BY <1>4, <2>2 DEF e, f
<1>6. ASSUME NEW n \in 1..Len(flat)
      PROVE  \E i \in 1..N : \E j \in 1..Len(seqs[i]) : n = ends[i - 1] + j
  <2> DEFINE S == {i \in 0..N : n <= ends[i]}
  <2>1. N \in S /\ S \in SUBSET Nat /\ S # {}
    BY <1>2, <1>3
  <2>2. PICK i \in S : \A k \in S : i <= k
    <3> HIDE DEF S
    <3> QED
      BY <2>1, LeastOfSet
  <2>3. i \in 1..N
    <3>1. i # 0
      BY <1>2, <1>3, <2>2
    <3> QED
      BY <1>2, <2>2, <3>1
  <2>4. ~(n <= ends[i - 1])
    <3> DEFINE m == i - 1
    <3>1. m \in 0..N /\ ~(i <= m)
      BY <1>2, <2>3
    <3> HIDE DEF m
    <3>2. m \notin S
      <4> HIDE DEF S
      <4> QED
        BY <2>2, <3>1
    <3>3. ~(n <= ends[m])
      BY <3>1, <3>2
    <3> QED
      BY <3>3 DEF m
  <2> DEFINE e == ends[i - 1]
             l == Len(seqs[i])
             f == Len(flat)
  <2>5. /\ e \in Nat /\ l \in Nat /\ f \in Nat /\ n \in 1..f
        /\ ~(n <= e) /\ n <= e + l
    BY <1>2, <1>4, <2>2, <2>3, <2>4
  <2> HIDE DEF e, l, f
  <2>6. n - e \in 1..l /\ n = e + (n - e)
    BY <2>5
  <2> QED
    BY <2>3, <2>6 DEF e, l
<1> QED
  BY <1>1, <1>5, <1>6 DEF flat, ends, N
=============================================================================
