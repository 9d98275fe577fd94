------------------------- MODULE XftpTransferProofs -------------------------
(***************************************************************************)
(* Proofs about transfers of the web client, for any number and size of    *)
(* chunks and any servers:                                                 *)
(*   LinkComplete       a link is given out when all its chunks are there  *)
(*   StoredKept         what the worker says is stored can be read back    *)
(*   FailsForReason     a transfer fails only for a reason outside, and    *)
(*                      what was downloaded is what was uploaded           *)
(* First facts about numbers, enumerations and folds over sequences, then  *)
(* the inductive invariant IInv, what steps of one kind leave as it is,    *)
(* and one lemma for each action.                                          *)
(***************************************************************************)
EXTENDS XftpTransfer, FiniteSetTheorems, WellFoundedInduction, TLAPS

(* Every set of numbers that is not empty has a least one: the intervals up *)
(* to its members are finite sets, among which the inclusion is well founded. *)
LEMMA LeastNumber ==
  ASSUME NEW T \in SUBSET Nat, T # {}
  PROVE  \E n \in T : \A m \in T : n <= m
<1> DEFINE Below == {0..n : n \in T}
<1>1. \A n \in Nat : 0..n \in FiniteSubsetsOf(Nat)
  BY FS_Interval DEF FiniteSubsetsOf
<1>2. Below \subseteq FiniteSubsetsOf(Nat) /\ Below # {}
  BY <1>1
<1>3. \E x \in Below : \A y \in Below : <<y, x>> \notin StrictSubsetOrdering(Nat)
  BY <1>2, FS_StrictSubsetOrderingWellFounded, WFMin
<1>4. PICK n \in T : \A m \in T : <<0..m, 0..n>> \notin StrictSubsetOrdering(Nat)
  BY <1>3
<1>5. ASSUME NEW m \in T, m < n PROVE FALSE
  <2>1. 0..m \subseteq 0..n /\ n \in 0..n /\ n \notin 0..m
    BY <1>5
  <2>2. 0..m \in SUBSET Nat /\ 0..n \in SUBSET Nat /\ 0..m # 0..n
    BY <2>1
  <2>3. <<0..m, 0..n>> \in StrictSubsetOrdering(Nat)
    BY <2>1, <2>2 DEF StrictSubsetOrdering
  <2>. QED BY <1>4, <2>3
<1>. QED BY <1>5

(* Induction over the numbers, for a set instead of a predicate. *)
LEMMA Induction ==
  ASSUME NEW T, 0 \in T, \A n \in Nat : n \in T => n + 1 \in T
  PROVE  Nat \subseteq T
<1>1. ASSUME Nat \ T # {} PROVE FALSE
  <2>1. PICK n \in Nat \ T : \A m \in Nat \ T : n <= m
    BY <1>1, LeastNumber
  <2>2. n # 0 /\ n - 1 \in Nat
    BY <2>1
  <2>3. n - 1 \in T
    BY <2>1, <2>2
  <2>. QED BY <2>1, <2>2, <2>3
<1>. QED BY <1>1

(* A finite set of numbers that is not empty has a greatest one. *)
LEMMA GreatestNumber ==
  ASSUME NEW n \in Nat, NEW S \in SUBSET (1..n), S # {}
  PROVE  \E x \in S : \A y \in S : y <= x
<1> DEFINE T == {n - x : x \in S}
<1>1. \A x \in S : n - x \in Nat
  OBVIOUS
<1>2. PICK d \in T : \A e \in T : d <= e
  <2>1. T \in SUBSET Nat
    BY <1>1
  <2>2. T # {}
    OBVIOUS
  <2>. QED BY <2>1, <2>2, LeastNumber
<1>3. PICK x \in S : d = n - x
  BY <1>2
<1>4. \A y \in S : n - x <= n - y
  BY <1>2, <1>3
<1>. QED BY <1>4

(* nos enumerates the numbers of S in their order. *)
Ascends(nos, S) ==
  /\ nos \in [1..Cardinality(S) -> S]
  /\ \A i, j \in DOMAIN nos : i < j => nos[i] < nos[j]

(* Every finite set of numbers can be enumerated in order. *)
LEMMA CanAscend ==
  ASSUME NEW n \in Nat, NEW S \in SUBSET (1..n)
  PROVE  \E nos : Ascends(nos, S)
<1> DEFINE T == {m \in Nat : \A X \in SUBSET (1..m) : \E nos : Ascends(nos, X)}
<1>1. 0 \in T
  <2>1. ASSUME NEW X \in SUBSET (1..0) PROVE \E nos : Ascends(nos, X)
    <3>0. X = {}
      OBVIOUS
    <3>1. X = {} /\ Cardinality(X) = 0
      BY <3>0, FS_EmptySet
    <3>2. Ascends(<<>>, X)
      BY <3>1 DEF Ascends
    <3>. QED BY <3>2
  <2>. QED BY <2>1
<1>2. ASSUME NEW m \in Nat, m \in T PROVE m + 1 \in T
  <2>1. ASSUME NEW X \in SUBSET (1..(m + 1)) PROVE \E nos : Ascends(nos, X)
    <3>1. CASE X \in SUBSET (1..m)
      BY <1>2, <3>1
    <3>2. CASE X \notin SUBSET (1..m)
      <4> DEFINE Y == X \ {m + 1}
      <4>1. m + 1 \in X /\ Y \in SUBSET (1..m)
        BY <3>2
      <4>2. PICK old : Ascends(old, Y)
        BY <1>2, <4>1
      <4>a. IsFiniteSet(1..(m + 1))
        BY FS_Interval
      <4>3. IsFiniteSet(X)
        BY <4>a, FS_Subset
      <4>4. Cardinality(Y) = Cardinality(X) - 1 /\ Cardinality(Y) \in Nat /\ Cardinality(X) \in Nat
        BY <4>1, <4>3, FS_RemoveElement, FS_CardinalityType
      <4> DEFINE c == Cardinality(X)
                 new == [i \in 1..c |-> IF i = c THEN m + 1 ELSE old[i]]
      <4>b. old \in [1..Cardinality(Y) -> Y]
        BY <4>2 DEF Ascends
      <4>c. c \in Nat /\ Cardinality(Y) = c - 1
        BY <4>4
      <4>d. c >= 1
        BY <4>4
      <4>5. c \in Nat /\ c >= 1 /\ old \in [1..(c - 1) -> Y]
        BY <4>b, <4>c, <4>d
      <4>6. \A i \in 1..(c - 1) : old[i] \in Y /\ old[i] < m + 1
        <5>1. \A y \in Y : y < m + 1
          BY <4>1
        <5>. QED BY <4>5, <5>1
      <4> HIDE DEF c
      <4>7. new \in [1..c -> X]
        BY <4>1, <4>5, <4>6
      <4>8. \A i, j \in 1..c : i < j => new[i] < new[j]
        <5> SUFFICES ASSUME NEW i \in 1..c, NEW j \in 1..c, i < j PROVE new[i] < new[j]
          OBVIOUS
        <5>1. i \in 1..(c - 1) /\ new[i] = old[i]
          BY <4>5
        <5>2. CASE j = c
          BY <4>6, <5>1, <5>2
        <5>3. CASE j # c
          <6>1. j \in 1..(c - 1) /\ new[j] = old[j]
            BY <4>5, <5>3
          <6>. QED BY <4>2, <4>5, <5>1, <6>1 DEF Ascends
        <5>. QED BY <5>2, <5>3
      <4>9. Ascends(new, X)
        BY <4>7, <4>8 DEF Ascends, c
      <4>. QED BY <4>9
    <3>. QED BY <3>1, <3>2
  <2>. QED BY <2>1
<1>3. Nat \subseteq T
  BY <1>1, <1>2, Induction
<1>. QED BY <1>3

(* So the numbers of a set are enumerated, each of them once. *)
LEMMA AscendingIs ==
  ASSUME NEW n \in Nat, NEW S \in SUBSET (1..n)
  PROVE  /\ Cardinality(S) \in Nat
         /\ Ascending(S) \in [1..Cardinality(S) -> S]
         /\ \A i, j \in 1..Cardinality(S) : i < j => Ascending(S)[i] < Ascending(S)[j]
         /\ \A x \in S : \E i \in 1..Cardinality(S) : Ascending(S)[i] = x
<1> DEFINE c == Cardinality(S)
           nos == Ascending(S)
<1>0. IsFiniteSet(1..n)
  BY FS_Interval
<1>1. IsFiniteSet(S) /\ c \in Nat
  BY <1>0, FS_Subset, FS_CardinalityType
<1>2. Ascends(nos, S)
  <2>1. PICK f : Ascends(f, S)
    BY CanAscend
  <2>. QED BY <2>1 DEF Ascends, Ascending
<1>3. nos \in [1..c -> S] /\ \A i, j \in 1..c : i < j => nos[i] < nos[j]
  BY <1>2 DEF Ascends
<1>4. IsFiniteSet(1..c) /\ Cardinality(1..c) = c
  BY <1>1, FS_Interval
<1> HIDE DEF nos, c
<1>5. nos \in Injection(1..c, S)
  <2>1. ASSUME NEW i \in 1..c, NEW j \in 1..c, nos[i] = nos[j] PROVE i = j
    <3>1. nos[i] \in 1..n /\ nos[j] \in 1..n
      BY <1>3
    <3>. QED BY <1>1, <1>3, <2>1, <3>1
  <2>. QED BY <1>3, <2>1 DEF Injection, IsInjective
<1>6. nos \in Surjection(1..c, S)
  BY <1>1, <1>4, <1>5, FS_Injection DEF c
<1>7. \A x \in S : \E i \in 1..c : nos[i] = x
  BY <1>6 DEF Surjection
<1>. QED BY <1>1, <1>3, <1>7 DEF c, nos

(* The first numbers are enumerated as they are. *)
LEMMA AscendingAll ==
  ASSUME NEW n \in Nat
  PROVE  Ascending(1..n) = [i \in 1..n |-> i]
<1> DEFINE nos == Ascending(1..n)
<1>1. Cardinality(1..n) = n
  BY FS_Interval
<1>2. /\ nos \in [1..n -> 1..n]
      /\ \A i, j \in 1..n : i < j => nos[i] < nos[j]
      /\ \A x \in 1..n : \E i \in 1..n : nos[i] = x
  BY <1>1, AscendingIs
<1> HIDE DEF nos
<1> DEFINE T == {k \in Nat : k <= n => \A i \in 1..k : nos[i] = i}
<1>3. 0 \in T
  OBVIOUS
<1>4. ASSUME NEW k \in Nat, k \in T PROVE k + 1 \in T
  <2> SUFFICES ASSUME k + 1 <= n PROVE nos[k + 1] = k + 1
    BY <1>4
  <2>1. \A i \in 1..k : nos[i] = i
    BY <1>4
  <2>2. PICK i \in 1..n : nos[i] = k + 1
    BY <1>2
  <2>3. i > k
    BY <2>1, <2>2
  <2>4. nos[k + 1] <= k + 1
    <3>1. k + 1 \in 1..n /\ nos[k + 1] \in 1..n
      BY <1>2
    <3>2. CASE i = k + 1
      BY <2>2, <3>2
    <3>3. CASE i # k + 1
      <4>1. k + 1 < i
        BY <2>3, <3>3
      <4>2. nos[k + 1] < nos[i]
        BY <1>2, <2>2, <3>1, <4>1
      <4>. QED BY <2>2, <3>1, <4>2
    <3>. QED BY <3>2, <3>3
  <2>5. nos[k + 1] > k
    <3>1. CASE k = 0
      BY <1>2, <3>1
    <3>2. CASE k > 0
      BY <1>2, <2>1, <3>2
    <3>. QED BY <3>1, <3>2
  <2>6. nos[k + 1] \in 1..n
    BY <1>2
  <2>. QED BY <2>4, <2>5, <2>6
<1>5. Nat \subseteq T
  BY <1>3, <1>4, Induction
<1>6. \A i \in 1..n : nos[i] = i
  BY <1>5
<1>. QED BY <1>2, <1>6 DEF nos

(* F[j] is the sum of the first j numbers of q. *)
PartialSums(F, q) ==
  /\ F \in [0..Len(q) -> Nat] /\ F[0] = 0
  /\ \A j \in 1..Len(q) : F[j] = F[j - 1] + q[j]

(* Every sequence of numbers has its partial sums. *)
LEMMA CanSum ==
  ASSUME NEW q \in Seq(Nat)
  PROVE  \E F : PartialSums(F, q)
<1> DEFINE Sums(F, m) == /\ F \in [0..m -> Nat] /\ F[0] = 0
                         /\ \A j \in 1..m : F[j] = F[j - 1] + q[j]
           P(m) == m <= Len(q) => \E F : Sums(F, m)
<1>0. Len(q) \in Nat /\ \A j \in 1..Len(q) : q[j] \in Nat
  OBVIOUS
<1>1. P(0)
  <2>1. Sums([j \in 0..0 |-> 0], 0)
    OBVIOUS
  <2>. QED BY <2>1
<1>2. ASSUME NEW m \in Nat, P(m) PROVE P(m + 1)
  <2> SUFFICES ASSUME m + 1 <= Len(q) PROVE \E F : Sums(F, m + 1)
    OBVIOUS
  <2>1. PICK F : Sums(F, m)
    <3>1. m <= Len(q)
      BY <1>0
    <3> HIDE DEF Sums
    <3>. QED BY <1>2, <3>1
  <2> DEFINE G == [j \in 0..(m + 1) |-> IF j = m + 1 THEN F[m] + q[m + 1] ELSE F[j]]
  <2>2. q[m + 1] \in Nat
    BY <1>0
  <2>3. G \in [0..(m + 1) -> Nat] /\ G[0] = 0
    BY <2>1, <2>2
  <2>4. ASSUME NEW j \in 1..(m + 1) PROVE G[j] = G[j - 1] + q[j]
    <3>1. CASE j = m + 1
      BY <3>1
    <3>2. CASE j # m + 1
      <4>1. j \in 1..m /\ j - 1 \in 0..m /\ j # m + 1 /\ j - 1 # m + 1
        BY <3>2
      <4>2. G[j] = F[j] /\ G[j - 1] = F[j - 1]
        BY <4>1
      <4>. QED BY <2>1, <4>1, <4>2
    <3>. QED BY <3>1, <3>2
  <2>5. Sums(G, m + 1)
    BY <2>3, <2>4
  <2> HIDE DEF G, Sums
  <2>. QED BY <2>5
<1>3. \A m \in Nat : P(m)
  <2> DEFINE T == {m \in Nat : P(m)}
  <2> HIDE DEF P
  <2>1. 0 \in T /\ \A m \in Nat : m \in T => m + 1 \in T
    BY <1>1, <1>2
  <2>2. Nat \subseteq T
    <3> HIDE DEF T
    <3>. QED BY <2>1, Induction
  <2>. QED BY <2>2
<1>4. PICK F : Sums(F, Len(q))
  <2> HIDE DEF Sums
  <2>. QED BY <1>0, <1>3
<1>. QED BY <1>4 DEF PartialSums

(* The fold that adds up a sequence yields its last partial sum. *)
LEMMA FoldIsSum ==
  ASSUME NEW q \in Seq(Nat), NEW F, PartialSums(F, q)
  PROVE  FoldLeft(LAMBDA acc, n : acc + n, 0, q) = F[Len(q)]
<1> DEFINE D == DOMAIN q
           Rule(h, X) == h = [s \in SUBSET X |-> IF s = {} THEN 0 ELSE h[s \ {Max(s)}] + q[Max(s)]]
           P(m) == m <= Len(q) => \E h : Rule(h, 1..m)
<1>0. D = 1..Len(q) /\ Len(q) \in Nat
  OBVIOUS
<1> HIDE DEF D
<1>1. P(0)
  <2>1. Rule([s \in SUBSET (1..0) |-> 0], 1..0)
    OBVIOUS
  <2>. QED BY <2>1
<1>2. ASSUME NEW m \in Nat, P(m) PROVE P(m + 1)
  <2> SUFFICES ASSUME m + 1 <= Len(q) PROVE \E h : Rule(h, 1..(m + 1))
    OBVIOUS
  <2>1. PICK h : Rule(h, 1..m)
    <3>1. m <= Len(q)
      BY <1>0
    <3> HIDE DEF Rule
    <3>. QED BY <1>2, <3>1
  <2> DEFINE g == [s \in SUBSET (1..(m + 1)) |-> IF m + 1 \in s THEN h[s \ {m + 1}] + q[m + 1] ELSE h[s]]
  <2>2. ASSUME NEW s \in SUBSET (1..(m + 1)), s # {}
        PROVE  g[s] = g[s \ {Max(s)}] + q[Max(s)]
    <3>0. m + 1 \in Nat
      OBVIOUS
    <3>1. PICK x \in s : \A y \in s : y <= x
      BY <2>2, <3>0, GreatestNumber
    <3>2. Max(s) \in s /\ \A y \in s : y <= Max(s)
      BY <3>1 DEF Max
    <3>3. Max(s) \in 1..(m + 1)
      BY <3>2
    <3>4. m + 1 \in s => Max(s) = m + 1
      BY <3>2, <3>3
    <3>5. CASE m + 1 \in s
      <4>1. s \ {m + 1} \in SUBSET (1..(m + 1)) /\ m + 1 \notin s \ {m + 1}
        OBVIOUS
      <4>2. g[s] = h[s \ {m + 1}] + q[m + 1] /\ g[s \ {m + 1}] = h[s \ {m + 1}]
        BY <3>5, <4>1
      <4>. QED BY <3>4, <3>5, <4>2
    <3>6. CASE m + 1 \notin s
      <4>0. \A y \in s : y \in 1..m
        <5>1. \A y \in s : y \in 1..(m + 1) /\ y # m + 1
          BY <3>6
        <5>. QED BY <5>1
      <4>1. s \in SUBSET (1..m) /\ s \ {Max(s)} \in SUBSET (1..m)
        BY <4>0
      <4>5. s \ {Max(s)} \in SUBSET (1..(m + 1)) /\ m + 1 \notin s \ {Max(s)}
        BY <3>6
      <4>2. g[s] = h[s] /\ g[s \ {Max(s)}] = h[s \ {Max(s)}]
        BY <3>6, <4>5
      <4>3. h[s] = h[s \ {Max(s)}] + q[Max(s)]
        BY <2>1, <2>2, <4>1
      <4>. QED BY <4>2, <4>3
    <3>. QED BY <3>5, <3>6
  <2>3. g[{}] = 0
    <3>1. h[{}] = 0
      BY <2>1
    <3>. QED BY <3>1
  <2>4. Rule(g, 1..(m + 1))
    <3>1. \A s \in SUBSET (1..(m + 1)) : g[s] = IF s = {} THEN 0 ELSE g[s \ {Max(s)}] + q[Max(s)]
      <4> HIDE DEF g
      <4>. QED BY <2>2, <2>3
    <3>2. g = [s \in SUBSET (1..(m + 1)) |-> g[s]]
      OBVIOUS
    <3> HIDE DEF g
    <3>. QED BY <3>1, <3>2
  <2> HIDE DEF g, Rule
  <2>. QED BY <2>4
<1>3. \A m \in Nat : P(m)
  <2> DEFINE T == {m \in Nat : P(m)}
  <2> HIDE DEF P
  <2>1. 0 \in T /\ \A m \in Nat : m \in T => m + 1 \in T
    BY <1>1, <1>2
  <2>2. Nat \subseteq T
    <3> HIDE DEF T
    <3>. QED BY <2>1, Induction
  <2>. QED BY <2>2
<1>4. PICK h : Rule(h, D)
  <2> HIDE DEF Rule
  <2>1. \E h : Rule(h, 1..Len(q))
    BY <1>0, <1>3
  <2>. QED BY <1>0, <2>1
<1>5. PICK it : Rule(it, D) /\ FoldLeft(LAMBDA acc, n : acc + n, 0, q) = it[D]
  BY <1>4 DEF FoldLeft, MapThenFoldSet, D
<1> DEFINE U(m) == m <= Len(q) => it[1..m] = F[m]
<1>6. U(0)
  <2>1. 1..0 = {} /\ {} \in SUBSET D
    OBVIOUS
  <2>2. it[{}] = 0
    BY <1>5, <2>1
  <2>. QED BY <2>1, <2>2 DEF PartialSums
<1>7. ASSUME NEW m \in Nat, U(m) PROVE U(m + 1)
  <2> SUFFICES ASSUME m + 1 <= Len(q) PROVE it[1..(m + 1)] = F[m + 1]
    OBVIOUS
  <2>1. Max(1..(m + 1)) = m + 1
    <3>1. m + 1 \in 1..(m + 1) /\ \A y \in 1..(m + 1) : m + 1 >= y
      OBVIOUS
    <3>2. \A x \in 1..(m + 1) : x >= m + 1 => x = m + 1
      OBVIOUS
    <3>. QED BY <3>1, <3>2 DEF Max
  <2>2. \A j \in 1..(m + 1) : j \in 1..Len(q)
    BY <1>0
  <2>3. 1..(m + 1) \in SUBSET D
    BY <1>0, <2>2
  <2>4. 1..(m + 1) # {} /\ (1..(m + 1)) \ {m + 1} = 1..m
    <3>1. m + 1 \in 1..(m + 1)
      OBVIOUS
    <3>2. \A j : j \in 1..m <=> j \in 1..(m + 1) /\ j # m + 1
      OBVIOUS
    <3>. QED BY <3>1, <3>2
  <2>5. it[1..(m + 1)] = it[1..m] + q[m + 1]
    BY <1>5, <2>1, <2>3, <2>4
  <2>6. F[m + 1] = F[m] + q[m + 1]
    <3>1. m + 1 \in 1..Len(q) /\ (m + 1) - 1 = m
      BY <2>2
    <3>. QED BY <3>1 DEF PartialSums
  <2>7. it[1..m] = F[m]
    BY <1>0, <1>7
  <2>. QED BY <2>5, <2>6, <2>7
<1>8. \A m \in Nat : U(m)
  <2> DEFINE T == {m \in Nat : U(m)}
  <2> HIDE DEF U
  <2>1. 0 \in T /\ \A m \in Nat : m \in T => m + 1 \in T
    BY <1>6, <1>7
  <2>2. Nat \subseteq T
    <3> HIDE DEF T
    <3>. QED BY <2>1, Induction
  <2>. QED BY <2>2
<1>9. it[1..Len(q)] = F[Len(q)]
  BY <1>0, <1>8
<1>. QED BY <1>0, <1>5, <1>9

(* A chunk begins where the sizes of those before it end. *)
LEMMA OffsetIs ==
  \E F : PartialSums(F, Size) /\ \A i \in Chunks : Offset(i) = F[i - 1]
<1>1. Size \in Seq(Nat)
  <2>1. Size \in Seq(Nat \ {0})
    BY WorkerConstants
  <2>. QED BY <2>1
<1>2. PICK F : PartialSums(F, Size)
  BY <1>1, CanSum
<1>3. ASSUME NEW i \in Chunks PROVE Offset(i) = F[i - 1]
  <2> DEFINE q == SubSeq(Size, 1, i - 1)
             G == [j \in 0..(i - 1) |-> F[j]]
  <2>1. i \in 1..Len(Size) /\ Len(Size) \in Nat
    BY <1>1 DEF Chunks
  <2>2. q \in Seq(Nat) /\ Len(q) = i - 1 /\ \A j \in 1..(i - 1) : q[j] = Size[j]
    BY <1>1, <2>1
  <2>3. PartialSums(G, q)
    <3> HIDE DEF q
    <3>0. /\ F \in [0..Len(Size) -> Nat] /\ F[0] = 0
          /\ \A j \in 1..Len(Size) : F[j] = F[j - 1] + Size[j]
      BY <1>2 DEF PartialSums
    <3>1. G \in [0..(i - 1) -> Nat] /\ G[0] = 0
      BY <2>1, <3>0
    <3>2. ASSUME NEW j \in 1..(i - 1) PROVE G[j] = G[j - 1] + Size[j]
      <4>1. j \in 0..(i - 1) /\ j - 1 \in 0..(i - 1) /\ j \in 1..Len(Size)
        BY <2>1
      <4>. QED BY <3>0, <4>1
    <3> HIDE DEF G
    <3>. QED BY <2>2, <3>1, <3>2 DEF PartialSums
  <2>4. FoldLeft(LAMBDA acc, n : acc + n, 0, q) = G[Len(q)]
    <3> HIDE DEF q, G
    <3>. QED BY <2>2, <2>3, FoldIsSum
  <2>5. Offset(i) = G[i - 1]
    <3> HIDE DEF G
    <3>. QED BY <2>2, <2>4 DEF Offset
  <2>. QED BY <2>1, <2>5
<1>. QED BY <1>2, <1>3

(* Sequences are put together from the first to the last. *)
LEMMA FlattenIs ==
  ASSUME NEW V, NEW q \in Seq(Seq(V)), q # <<>>
  PROVE  \E f : /\ FlattenSeq(q) = f[Len(q)] /\ f[1] = q[1]
                /\ f \in [1..Len(q) -> Seq(V)]
                /\ \A i \in 2..Len(q) : f[i] = f[i - 1] \o q[i]
<1> DEFINE Rule(f, n) == f = [i \in 1..n |-> IF i = 1 THEN q[i] ELSE f[i - 1] \o q[i]]
           P(m) == m <= Len(q) => \E f : Rule(f, m)
<1>0. Len(q) \in Nat /\ Len(q) # 0 /\ \A i \in 1..Len(q) : q[i] \in Seq(V)
  OBVIOUS
<1>1. P(0)
  <2>1. Rule(<<>>, 0)
    OBVIOUS
  <2>. QED BY <2>1
<1>2. ASSUME NEW m \in Nat, P(m) PROVE P(m + 1)
  <2> SUFFICES ASSUME m + 1 <= Len(q) PROVE \E f : Rule(f, m + 1)
    OBVIOUS
  <2>1. PICK f : Rule(f, m)
    <3>1. m <= Len(q)
      BY <1>0
    <3> HIDE DEF Rule
    <3>. QED BY <1>2, <3>1
  <2> DEFINE g == [i \in 1..(m + 1) |-> IF i = m + 1 THEN IF i = 1 THEN q[i] ELSE f[i - 1] \o q[i] ELSE f[i]]
  <2>2. ASSUME NEW i \in 1..(m + 1) PROVE g[i] = IF i = 1 THEN q[i] ELSE g[i - 1] \o q[i]
    <3>1. i # 1 => i - 1 \in 1..(m + 1) /\ i - 1 # m + 1
      OBVIOUS
    <3>2. i # 1 => g[i - 1] = f[i - 1]
      BY <3>1
    <3>3. CASE i = m + 1
      BY <3>2, <3>3
    <3>4. CASE i # m + 1
      <4>1. i \in 1..m /\ g[i] = f[i]
        BY <3>4
      <4>2. f[i] = IF i = 1 THEN q[i] ELSE f[i - 1] \o q[i]
        BY <2>1, <4>1
      <4>. QED BY <3>2, <4>1, <4>2
    <3>. QED BY <3>3, <3>4
  <2>3. g = [i \in 1..(m + 1) |-> g[i]]
    OBVIOUS
  <2>4. Rule(g, m + 1)
    <3> HIDE DEF g
    <3>. QED BY <2>2, <2>3
  <2> HIDE DEF g, Rule
  <2>. QED BY <2>4
<1>3. \A m \in Nat : P(m)
  <2> DEFINE T == {m \in Nat : P(m)}
  <2> HIDE DEF P
  <2>1. 0 \in T /\ \A m \in Nat : m \in T => m + 1 \in T
    BY <1>1, <1>2
  <2>2. Nat \subseteq T
    <3> HIDE DEF T
    <3>. QED BY <2>1, Induction
  <2>. QED BY <2>2
<1>4. PICK h : Rule(h, Len(q))
  <2> HIDE DEF Rule
  <2>. QED BY <1>0, <1>3
<1>5. PICK f : Rule(f, Len(q)) /\ FlattenSeq(q) = f[Len(q)]
  BY <1>0, <1>4 DEF FlattenSeq
<1>6. f[1] = q[1] /\ \A i \in 2..Len(q) : f[i] = f[i - 1] \o q[i]
  <2>1. \A i \in 1..Len(q) : f[i] = IF i = 1 THEN q[i] ELSE f[i - 1] \o q[i]
    BY <1>5
  <2>2. 1 \in 1..Len(q) /\ \A i \in 2..Len(q) : i \in 1..Len(q) /\ i # 1
    BY <1>0
  <2> HIDE DEF Rule
  <2>. QED BY <2>1, <2>2
<1>7. DOMAIN f = 1..Len(q) /\ f = [i \in DOMAIN f |-> f[i]]
  BY <1>5
<1> HIDE DEF Rule
<1> DEFINE U(m) == m + 1 <= Len(q) => f[m + 1] \in Seq(V)
<1>8. U(0)
  BY <1>0, <1>6
<1>9. ASSUME NEW m \in Nat, U(m) PROVE U(m + 1)
  <2> SUFFICES ASSUME (m + 1) + 1 <= Len(q) PROVE f[(m + 1) + 1] \in Seq(V)
    OBVIOUS
  <2>1. (m + 1) + 1 \in 2..Len(q) /\ m + 1 <= Len(q) /\ ((m + 1) + 1) - 1 = m + 1 /\ (m + 1) + 1 \in 1..Len(q)
    BY <1>0
  <2>2. f[(m + 1) + 1] = f[m + 1] \o q[(m + 1) + 1]
    BY <1>6, <2>1
  <2>. QED BY <1>0, <1>9, <2>1, <2>2
<1>10. \A m \in Nat : U(m)
  <2> DEFINE T == {m \in Nat : U(m)}
  <2> HIDE DEF U
  <2>1. 0 \in T /\ \A m \in Nat : m \in T => m + 1 \in T
    BY <1>8, <1>9
  <2>2. Nat \subseteq T
    <3> HIDE DEF T
    <3>. QED BY <2>1, Induction
  <2>. QED BY <2>2
<1>11. \A i \in 1..Len(q) : f[i] \in Seq(V)
  <2> TAKE i \in 1..Len(q)
  <2>1. i - 1 \in Nat /\ (i - 1) + 1 = i /\ i <= Len(q)
    BY <1>0
  <2>2. U(i - 1)
    BY <1>10, <2>1
  <2>. QED BY <2>1, <2>2
<1>12. f \in [1..Len(q) -> Seq(V)]
  BY <1>7, <1>11
<1>. QED BY <1>5, <1>6, <1>12

(* Two sequences one after the other. *)
LEMMA Joined ==
  ASSUME NEW V, NEW a \in Seq(V), NEW b \in Seq(V)
  PROVE  /\ a \o b \in Seq(V) /\ Len(a \o b) = Len(a) + Len(b)
         /\ \A k \in 1..Len(a) : (a \o b)[k] = a[k]
         /\ \A k \in 1..Len(b) : (a \o b)[Len(a) + k] = b[k]
OBVIOUS

(* The cells of a chunk are where its offset says, in a file that is as    *)
(* long as all chunks.                                                     *)
LEMMA EncLayout ==
  /\ EncData \in Seq(Chunks \X Nat)
  /\ \A i \in Chunks : /\ Offset(i) \in Nat /\ Offset(i) + Size[i] <= Len(EncData)
                       /\ \A k \in 1..Size[i] : EncData[Offset(i) + k] = <<i, k>>
<1> DEFINE n == Len(Size)
           V == Chunks \X Nat
           q == [i \in Chunks |-> Cells(i)]
<1>1. n \in Nat /\ n # 0 /\ Chunks = 1..n /\ \A i \in Chunks : Size[i] \in Nat \ {0}
  BY WorkerConstants DEF Chunks
<1>2. \A i \in Chunks : Cells(i) \in Seq(V) /\ Len(Cells(i)) = Size[i]
  <2> TAKE i \in Chunks
  <2>1. Size[i] \in Nat /\ \A k \in 1..Size[i] : <<i, k>> \in V
    BY <1>1
  <2>2. Cells(i) \in [1..Size[i] -> V]
    BY <2>1 DEF Cells
  <2>. QED BY <2>1, <2>2
<1> HIDE DEF n, V
<1>3. q \in Seq(Seq(V)) /\ Len(q) = n /\ q # <<>> /\ \A i \in 1..n : q[i] = Cells(i)
  <2>1. q \in [1..n -> Seq(V)] /\ \A i \in 1..n : q[i] = Cells(i)
    BY <1>1, <1>2
  <2> HIDE DEF q
  <2>2. q \in Seq(Seq(V)) /\ Len(q) = n
    BY <1>1, <2>1
  <2>3. q # <<>>
    BY <1>1, <2>2
  <2>. QED BY <2>1, <2>2, <2>3
<1>4. EncData = FlattenSeq(q)
  BY DEF EncData
<1> HIDE DEF q
<1>5. PICK f : /\ EncData = f[n] /\ f[1] = q[1]
               /\ f \in [1..n -> Seq(V)]
               /\ \A i \in 2..n : f[i] = f[i - 1] \o q[i]
  <2>1. \E f : /\ FlattenSeq(q) = f[Len(q)] /\ f[1] = q[1]
               /\ f \in [1..Len(q) -> Seq(V)]
               /\ \A i \in 2..Len(q) : f[i] = f[i - 1] \o q[i]
    BY <1>3, FlattenIs
  <2>. QED BY <1>3, <1>4, <2>1
<1>6. PICK F : PartialSums(F, Size) /\ \A i \in Chunks : Offset(i) = F[i - 1]
  BY OffsetIs
<1>7. F \in [0..n -> Nat] /\ F[0] = 0 /\ \A j \in 1..n : F[j] = F[j - 1] + Size[j]
  BY <1>6 DEF PartialSums, n
<1> DEFINE Laid(m) == /\ Len(f[m]) = F[m]
                      /\ \A i \in 1..m : /\ F[i - 1] + Size[i] <= F[m]
                                         /\ \A k \in 1..Size[i] : f[m][F[i - 1] + k] = <<i, k>>
           P(m) == m + 1 <= n => Laid(m + 1)
<1>8. P(0)
  <2>1. 1 \in Chunks /\ f[1] = Cells(1) /\ F[1] = F[0] + Size[1] /\ Size[1] \in Nat
    BY <1>1, <1>3, <1>5, <1>7
  <2>2. Len(f[1]) = F[1] /\ F[0] + Size[1] <= F[1]
    BY <1>2, <1>7, <2>1
  <2>3. \A k \in 1..Size[1] : f[1][F[0] + k] = <<1, k>>
    BY <1>7, <2>1 DEF Cells
  <2>4. Laid(1)
    <3>1. \A i \in 1..1 : i = 1 /\ i - 1 = 0
      OBVIOUS
    <3>. QED BY <2>2, <2>3, <3>1
  <2>5. 0 + 1 = 1
    OBVIOUS
  <2> HIDE DEF Laid
  <2>. QED BY <2>4, <2>5
<1>9. ASSUME NEW m \in Nat, P(m) PROVE P(m + 1)
  <2> SUFFICES ASSUME (m + 1) + 1 <= n PROVE Laid((m + 1) + 1)
    OBVIOUS
  <2> DEFINE j == m + 1
  <2>1. j \in 1..n /\ j + 1 \in 2..n /\ j + 1 \in 1..n /\ (j + 1) - 1 = j
    BY <1>1
  <2>2. Laid(j)
    BY <1>1, <1>9
  <2> HIDE DEF j
  <2>3. f[j + 1] = f[j] \o Cells(j + 1) /\ F[j + 1] = F[j] + Size[j + 1]
    <3>1. f[j + 1] = f[(j + 1) - 1] \o q[j + 1] /\ F[j + 1] = F[(j + 1) - 1] + Size[j + 1]
      BY <1>5, <1>7, <2>1
    <3>. QED BY <1>3, <2>1, <3>1
  <2>4. /\ f[j] \in Seq(V) /\ Cells(j + 1) \in Seq(V) /\ Len(Cells(j + 1)) = Size[j + 1]
        /\ Size[j + 1] \in Nat /\ F[j] \in Nat /\ F[j + 1] \in Nat
    <3>1. f[j] \in Seq(V)
      BY <1>5, <2>1
    <3>2. Cells(j + 1) \in Seq(V) /\ Len(Cells(j + 1)) = Size[j + 1] /\ Size[j + 1] \in Nat
      BY <1>1, <1>2, <2>1
    <3>3. F[j] \in Nat /\ F[j + 1] \in Nat
      <4>1. j \in 0..n /\ j + 1 \in 0..n
        BY <2>1
      <4>. QED BY <1>7, <4>1
    <3>. QED BY <3>1, <3>2, <3>3
  <2>a. /\ Len(f[j] \o Cells(j + 1)) = Len(f[j]) + Len(Cells(j + 1))
        /\ \A k \in 1..Len(f[j]) : (f[j] \o Cells(j + 1))[k] = f[j][k]
        /\ \A k \in 1..Len(Cells(j + 1)) : (f[j] \o Cells(j + 1))[Len(f[j]) + k] = Cells(j + 1)[k]
    <3> DEFINE a == f[j]
               b == Cells(j + 1)
    <3>1. a \in Seq(V) /\ b \in Seq(V)
      BY <2>4
    <3> HIDE DEF a, b
    <3>2. /\ Len(a \o b) = Len(a) + Len(b)
          /\ \A k \in 1..Len(a) : (a \o b)[k] = a[k]
          /\ \A k \in 1..Len(b) : (a \o b)[Len(a) + k] = b[k]
      BY <3>1, Joined
    <3>. QED BY <3>2 DEF a, b
  <2>5. Len(f[j + 1]) = F[j + 1]
    <3>1. Len(f[j]) = F[j]
      BY <2>2
    <3>. QED BY <2>3, <2>4, <2>a, <3>1
  <2>6. ASSUME NEW i \in 1..(j + 1)
        PROVE  /\ F[i - 1] + Size[i] <= F[j + 1]
               /\ \A k \in 1..Size[i] : f[j + 1][F[i - 1] + k] = <<i, k>>
    <3>0. i \in 1..n /\ i - 1 \in 0..n
      BY <1>1, <2>1
    <3>1. Size[i] \in Nat /\ F[i - 1] \in Nat
      BY <1>1, <1>7, <3>0
    <3>2. CASE i = j + 1
      <4>1. F[i - 1] = F[j] /\ Size[i] = Size[j + 1]
        BY <2>1, <3>2
      <4>2. F[i - 1] + Size[i] <= F[j + 1]
        BY <2>3, <2>4, <4>1
      <4>3. ASSUME NEW k \in 1..Size[i] PROVE f[j + 1][F[i - 1] + k] = <<i, k>>
        <5>1. k \in 1..Len(Cells(j + 1)) /\ F[j] + k \in Nat /\ F[j] + k > Len(f[j])
          BY <2>2, <2>4, <4>1
        <5>2. (f[j] \o Cells(j + 1))[Len(f[j]) + k] = Cells(j + 1)[k]
          BY <2>a, <5>1
        <5>. QED BY <2>2, <2>3, <3>2, <4>1, <5>1, <5>2 DEF Cells
      <4>. QED BY <4>2, <4>3
    <3>3. CASE i # j + 1
      <4>1. i \in 1..j
        BY <2>1, <3>3
      <4>2. F[i - 1] + Size[i] <= F[j] /\ \A k \in 1..Size[i] : f[j][F[i - 1] + k] = <<i, k>>
        BY <2>2, <4>1
      <4>3. F[i - 1] + Size[i] <= F[j + 1]
        BY <2>3, <2>4, <3>1, <4>2
      <4>4. ASSUME NEW k \in 1..Size[i] PROVE f[j + 1][F[i - 1] + k] = <<i, k>>
        <5>1. F[i - 1] + k \in 1..Len(f[j])
          BY <2>2, <2>4, <3>1, <4>2
        <5>2. (f[j] \o Cells(j + 1))[F[i - 1] + k] = f[j][F[i - 1] + k]
          BY <2>a, <5>1
        <5>. QED BY <2>3, <4>2, <5>2
      <4>. QED BY <4>3, <4>4
    <3>. QED BY <3>2, <3>3
  <2>7. Laid(j + 1)
    BY <2>5, <2>6
  <2>8. j + 1 = (m + 1) + 1
    BY DEF j
  <2> HIDE DEF Laid
  <2>. QED BY <2>7, <2>8
<1>10. \A m \in Nat : P(m)
  <2> DEFINE T == {m \in Nat : P(m)}
  <2> HIDE DEF P
  <2>1. 0 \in T /\ \A m \in Nat : m \in T => m + 1 \in T
    BY <1>8, <1>9
  <2>2. Nat \subseteq T
    <3> HIDE DEF T
    <3>. QED BY <2>1, Induction
  <2>. QED BY <2>2
<1>11. Laid(n)
  <2>1. n - 1 \in Nat /\ (n - 1) + 1 = n
    BY <1>1
  <2>2. P(n - 1)
    BY <1>10, <2>1
  <2> HIDE DEF Laid
  <2>. QED BY <1>1, <2>1, <2>2
<1>12. EncData \in Seq(V)
  BY <1>1, <1>5
<1>13. ASSUME NEW i \in Chunks
       PROVE  /\ Offset(i) \in Nat /\ Offset(i) + Size[i] <= Len(EncData)
              /\ \A k \in 1..Size[i] : EncData[Offset(i) + k] = <<i, k>>
  <2>1. i \in 1..n /\ i - 1 \in 0..n
    BY <1>1
  <2>2. Offset(i) = F[i - 1] /\ Offset(i) \in Nat
    BY <1>6, <1>7, <2>1
  <2>. QED BY <1>5, <1>11, <2>1, <2>2
<1>. QED BY <1>12, <1>13 DEF V

(* Reading the range of a chunk from the whole file yields the chunk. *)
LEMMA ReadWhole ==
  ASSUME NEW i \in Chunks
  PROVE  ReadAt(EncData, Offset(i), Size[i]) = Cells(i)
<1>1. Size[i] \in Nat
  BY WorkerConstants DEF Chunks
<1>2. EncData \in Seq(Chunks \X Nat)
  BY EncLayout
<1>3. \A k \in 1..Size[i] : Offset(i) + k <= Len(EncData) /\ EncData[Offset(i) + k] = <<i, k>>
  <2>1. /\ Offset(i) \in Nat /\ Offset(i) + Size[i] <= Len(EncData)
        /\ \A k \in 1..Size[i] : EncData[Offset(i) + k] = <<i, k>>
    BY EncLayout, Zenon
  <2>2. Len(EncData) \in Nat
    BY <1>2
  <2>3. PICK a, b, c : a = Offset(i) /\ b = Size[i] /\ c = Len(EncData)
    OBVIOUS
  <2>4. a \in Nat /\ b \in Nat /\ c \in Nat /\ a + b <= c
    BY <1>1, <2>1, <2>2, <2>3
  <2>5. \A k \in 1..b : a + k <= c
    BY <2>4
  <2>6. \A k \in 1..Size[i] : Offset(i) + k <= Len(EncData)
    BY <2>3, <2>5
  <2>. QED BY <2>1, <2>6
<1>. QED BY <1>3 DEF ReadAt, Cells

-----------------------------------------------------------------------------
(* The inductive invariant.  First the types.                                *)

Pages == {"file", "encrypting", "uploading", "redirect", "done", "failed", "cleaning", "shared",
          "ended", "link", "resolve", "fetching", "verifying"}

Steps == {"done", "next", "read", "create", "put", "store", "storing", "failed"}

Bodies == {<<>>} \cup {Cells(i) : i \in Chunks}

GroupRecords == [todo : Seq(Chunks), pc : Steps, id : Nat, data : Bodies]

TransferTypes ==
  /\ page \in Pages
  /\ outcome \in {"none", "ok", "error"}
  /\ group \in [Server -> GroupRecords]
  /\ store \in Seq([server : Server, no : Chunks, data : Bodies])
  /\ DOMAIN sent \subseteq Chunks
  /\ \A i \in DOMAIN sent : sent[i] \in [server : Server, id : Nat]
  /\ result \in {<<>>, <<EncData>>}
  /\ deleting \in Nat /\ deleting <= Len(Size)
  /\ faults \in Nat /\ swept \in Nat

Requests == {"encrypt", "readChunk", "decryptAndStoreChunk", "verifyAndDecrypt", "cleanup"}

Messages == [id : Nat, type : Requests, no : Nat, off : Nat, size : Nat, body : Bodies]

Answers == [id : Nat, type : {"ready", "encrypted", "chunk", "stored", "decrypted", "cleaned", "error"},
            data : Bodies \cup {Size, EncData}]

Handlers == [msg : Messages, pc : {"begin", "write", "open", "fallback", "read", "clear", "remove"},
             data : Bodies \cup {EncData}]

Files == Seq((Chunks \X Nat) \cup {0})

Slots == {<<>>} \cup {<<f>> : f \in Files}

Maps(V) == UNION {[X -> V] : X \in SUBSET Chunks}

WorkerStates ==
  [sessionDir : BOOLEAN, uploadRead : BOOLEAN, leaked : BOOLEAN, downloadWrite : BOOLEAN,
   meta : Maps([offset : Nat, size : Nat]), offset : Nat, useMemory : BOOLEAN, memory : Maps(Bodies)]

WorkerTypes ==
  /\ worker \in {"starting", "up", "broken", "terminated"}
  /\ ready \in BOOLEAN
  /\ nextId \in Nat \ {0}
  /\ inbox \in Seq(Messages)
  /\ running \in SUBSET Handlers
  /\ outbox \in Seq(Answers)
  /\ w \in WorkerStates
  /\ opfs \in [dir : BOOLEAN, upload : Slots, download : Slots]
  /\ shorts \in Nat

(* Why a transfer may fail. *)
Excuse == faults > 0 \/ swept > 0 \/ w.leaked

Active(s) == group[s].pc # "done"
AllDone == \A s \in Server : ~Active(s)

Over == {"done", "failed", "cleaning", "shared", "ended"}

(* What the place of the page says of the rest. *)
Phases ==
  /\ outcome = "none" <=> page \notin Over
  /\ page \in {"done", "shared"} => outcome = "ok"
  /\ page = "failed" => outcome = "error"
  /\ page \in {"file", "encrypting", "uploading", "redirect"} => link = <<>>
  /\ page \in {"shared", "link", "resolve", "fetching", "verifying"} => link # <<>> /\ result = <<>>
  /\ outcome = "ok" => link # <<>>
  /\ outcome = "ok" \/ page \notin {"uploading", "fetching", "failed", "cleaning", "ended"} => AllDone
  /\ outcome = "error" => Excuse
  /\ link = <<>> => deleting = 0 /\ result = <<>>
  /\ deleting > 0 => faults > 0
  /\ worker = "terminated" <=> page \in {"shared", "ended"}

(* A group and its chunks: those left are in order, its step agrees with    *)
(* the direction, and what it holds is its chunk.                           *)
GroupIsRight(s) ==
  LET g == group[s]
  IN /\ Active(s) <=> g.todo # <<>>
     /\ \A i, j \in DOMAIN g.todo : i < j => g.todo[i] < g.todo[j]
     /\ g.pc \in {"read", "create", "put"} => link = <<>>
     /\ g.pc \in {"store", "storing"} => link # <<>>
     /\ g.pc = "failed" => Excuse
     /\ g.pc \in {"create", "put"} => g.data = Cells(No(s))
     /\ g.pc = "put" => /\ g.id \in DOMAIN store
                        /\ store[g.id].server = s /\ store[g.id].no = No(s)
     /\ g.pc \in {"store", "storing"} => g.data = Cells(No(s)) \/ faults > 0

LeftTo(s, i) == Contains(group[s].todo, i)

GroupsAreRight ==
  /\ \A s \in Server : GroupIsRight(s)
  /\ \A s, t \in Server : \A i \in Chunks : LeftTo(s, i) /\ LeftTo(t, i) => s = t

(* Every chunk that was sent is on the server noted for it, until the       *)
(* sender deletes it; no chunk gets lost between the groups.                *)
Uploaded ==
  /\ \A k \in DOMAIN store : store[k].data \in {<<>>, Cells(store[k].no)}
  /\ \A i \in DOMAIN sent :
       LET c == store[sent[i].id]
       IN /\ sent[i].id \in DOMAIN store
          /\ c.server = sent[i].server /\ c.no = i
          /\ deleting = 0 => c.data = Cells(i)
  /\ page = "uploading" => \A i \in Chunks : i \in DOMAIN sent \/ \E s \in Server : LeftTo(s, i)
  /\ page = "redirect" => Chunks \subseteq DOMAIN sent
  /\ page = "resolve" => link[1].redirect
  /\ link # <<>> => /\ Chunks \subseteq DOMAIN sent
                    /\ link[1].redirect \in BOOLEAN
                    /\ Resolved = [i \in Chunks |-> sent[i]]

-----------------------------------------------------------------------------
(* The letters between the page and its worker.                              *)

Owners == Server \cup {"page"}

Waits(o) ==
  IF o = "page" THEN page \in {"encrypting", "verifying", "cleaning"}
  ELSE group[o].pc \in {"read", "storing"}

Pending ==
  /\ DOMAIN pending \subseteq 1..(nextId - 1)
  /\ \A id \in DOMAIN pending : pending[id] \in Owners
  /\ \A a, b \in DOMAIN pending : pending[a] = pending[b] => a = b

Waiting == \A id \in DOMAIN pending : Waits(pending[id])

(* Answers come in the order of the requests, one for each. *)
InTurn ==
  /\ \A k \in DOMAIN inbox : inbox[k].id \in DOMAIN pending
  /\ \A r \in running : r.msg.id \in DOMAIN pending
  /\ \A k \in DOMAIN outbox : outbox[k].type # "ready" => outbox[k].id \in DOMAIN pending
  /\ \A k \in DOMAIN outbox : outbox[k].type = "ready" => outbox[k].id = 0
  /\ \A r, q \in running : r = q
  /\ \A k, l \in DOMAIN inbox : k < l => inbox[k].id < inbox[l].id
  /\ \A k \in DOMAIN inbox, r \in running : r.msg.id < inbox[k].id
  /\ \A k \in DOMAIN outbox, l \in DOMAIN inbox : outbox[k].id < inbox[l].id
  /\ \A k \in DOMAIN outbox, r \in running : outbox[k].id < r.msg.id
  /\ \A k, l \in DOMAIN outbox : k < l => outbox[k].id < outbox[l].id
  /\ worker # "up" => inbox = <<>> /\ running = {} /\ outbox = <<>>
  /\ worker \in {"starting", "broken"} => ~ready
  /\ ~ready => DOMAIN pending = {}

Queued == {inbox[k] : k \in DOMAIN inbox}
Requested == Queued \cup {r.msg : r \in running}
Replies == {a \in {outbox[k] : k \in DOMAIN outbox} : a.type # "ready"}

(* What the owner of a message has asked for. *)
Asked(m) ==
  LET o == pending[m.id]
  IN \/ o = "page" /\ page = "encrypting" /\ m.type = "encrypt" /\ ~w.uploadRead
     \/ o = "page" /\ page = "verifying" /\ m.type = "verifyAndDecrypt"
     \/ o = "page" /\ page = "cleaning" /\ m.type = "cleanup"
     \/ /\ o \in Server /\ group[o].pc = "read" /\ m.type = "readChunk"
        /\ m.off = Offset(No(o)) /\ m.size = Size[No(o)]
     \/ /\ o \in Server /\ group[o].pc = "storing" /\ m.type = "decryptAndStoreChunk"
        /\ m.no = No(o) /\ m.body = group[o].data

(* A chunk that can be read back. *)
Kept(i) ==
  IF i \in DOMAIN w.memory THEN w.memory[i] = Cells(i)
  ELSE i \in DOMAIN w.meta /\ opfs.download # <<>> /\ OnDisk[i] = Cells(i)

AllKept == \A i \in Chunks : Kept(i)

(* What an answer says to the one who asked. *)
Told(a) ==
  LET o == pending[a.id]
  IN \/ o = "page" /\ page = "encrypting" /\ a.type = "encrypted" /\ w.uploadRead
     \/ o = "page" /\ page = "verifying" /\ a.type = "decrypted" /\ a.data = EncData
     \/ o = "page" /\ page = "cleaning"
     \/ o \in Server /\ group[o].pc = "read" /\ a.type = "chunk" /\ a.data = Cells(No(o))
     \/ /\ o \in Server /\ group[o].pc = "storing" /\ a.type = "stored"
        /\ page = "fetching" => Kept(No(o))
     \/ a.type = "error" /\ Excuse /\ a.data = <<>>

Letters ==
  /\ \A m \in Requested : Asked(m)
  /\ \A a \in Replies : Told(a)

-----------------------------------------------------------------------------
(* The worker and its files.                                                 *)

(* The handler between two of its steps. *)
HandlerIsRight(r) ==
  LET type == r.msg.type
  IN /\ type = "encrypt" =>
          \/ r.pc = "begin"
          \/ r.pc = "write" /\ w.sessionDir
     /\ type = "readChunk" => r.pc = "begin"
     /\ type = "decryptAndStoreChunk" =>
          \/ r.pc = "begin"
          \/ r.pc = "open" /\ Genuine(r.msg) /\ w.sessionDir /\ ~w.useMemory /\ ~w.downloadWrite
          \/ /\ r.pc = "fallback" /\ Genuine(r.msg) /\ ~w.downloadWrite
             /\ DOMAIN w.meta \subseteq DOMAIN w.memory \cup {r.msg.no}
     /\ type = "verifyAndDecrypt" =>
          \/ r.pc = "begin" /\ AllKept
          \/ r.pc = "read" /\ ~w.useMemory /\ ~w.downloadWrite /\ (swept = 0 => AllKept)
          \/ r.pc = "clear" /\ ~w.downloadWrite /\ r.data = EncData
     /\ type = "cleanup" =>
          \/ r.pc = "begin"
          \/ r.pc = "remove" /\ ~w.uploadRead /\ ~w.downloadWrite

Fallen == worker = "terminated" \/ \E r \in running : r.pc = "fallback"

(* The chunks of a download are not verified yet. *)
Unverified ==
  \/ page = "fetching"
  \/ link # <<>> /\ ~AllDone
  \/ \E m \in Queued : m.type = "verifyAndDecrypt"
  \/ \E r \in running : r.msg.type = "verifyAndDecrypt" /\ r.pc = "begin"

(* Every chunk in the file is where it is noted, before the end. *)
Laid(state, file) ==
  /\ state.offset <= Len(file)
  /\ \A i \in DOMAIN state.meta :
       LET m == state.meta[i]
       IN /\ m.size = Size[i] /\ m.offset + m.size <= state.offset
          /\ \A k \in 1..Size[i] : file[m.offset + k] = <<i, k>>

FilesAreRight ==
  /\ w.sessionDir /\ swept = 0 => opfs.dir
  /\ w.uploadRead => opfs.upload = <<EncData>>
  /\ page = "file" => ~w.uploadRead
  /\ page = "uploading" => w.uploadRead
  /\ page \in {"link", "resolve"} => w = FreshWorker
  /\ \A i \in DOMAIN w.memory : w.memory[i] = Cells(i)
  /\ w.useMemory => w.meta = Empty
  /\ ~w.useMemory /\ ~Fallen => w.memory = Empty
  /\ w.downloadWrite => opfs.download # <<>> /\ Laid(w, opfs.download[1])
  /\ Unverified /\ ~Fallen /\ ~w.downloadWrite => w.meta = Empty /\ w.offset = 0

Working ==
  /\ \A r \in running : HandlerIsRight(r)
  /\ (\E m \in Queued : m.type = "verifyAndDecrypt") => AllKept
  /\ page = "fetching" => \A i \in Chunks : (\A s \in Server : ~LeftTo(s, i)) => Kept(i)

IInv ==
  /\ TransferTypes /\ WorkerTypes
  /\ Phases /\ GroupsAreRight /\ Uploaded
  /\ Pending /\ Waiting /\ InTurn /\ Letters
  /\ FilesAreRight /\ Working

-----------------------------------------------------------------------------
(* About the operators.                                                      *)

(* The chunks are numbered from 1 and none is empty. *)
LEMMA Sizes ==
  /\ Len(Size) \in Nat /\ Len(Size) # 0 /\ Chunks = 1..Len(Size)
  /\ \A i \in Chunks : /\ i \in Nat /\ i # 0 /\ Size[i] \in Nat /\ Size[i] # 0
                       /\ Cells(i) # <<>> /\ Len(Cells(i)) = Size[i]
                       /\ Cells(i) \in Seq(Chunks \X Nat)
<1>1. Len(Size) \in Nat /\ Len(Size) # 0 /\ Chunks = 1..Len(Size) /\ \A i \in Chunks : Size[i] \in Nat \ {0}
  BY WorkerConstants DEF Chunks
<1>2. ASSUME NEW i \in Chunks
      PROVE  Cells(i) # <<>> /\ Len(Cells(i)) = Size[i] /\ Cells(i) \in Seq(Chunks \X Nat)
  <2>1. Size[i] \in Nat \ {0} /\ \A k \in 1..Size[i] : <<i, k>> \in Chunks \X Nat
    BY <1>1
  <2>2. Cells(i) \in [1..Size[i] -> Chunks \X Nat]
    BY <2>1 DEF Cells
  <2>. QED BY <2>1, <2>2
<1>3. \A i \in Chunks : i \in Nat /\ i # 0
  BY <1>1
<1>. QED BY <1>1, <1>2, <1>3

(* Every map of all chunks, each with its cells, is the encrypted file. *)
LEMMA InOrderAll ==
  ASSUME NEW map, DOMAIN map = Chunks, \A i \in Chunks : map[i] = Cells(i)
  PROVE  InOrder(map) = EncData
<1>1. Ascending(DOMAIN map) = [i \in Chunks |-> i]
  BY Sizes, AscendingAll
<1>2. [i \in DOMAIN Ascending(DOMAIN map) |-> map[Ascending(DOMAIN map)[i]]] = [i \in Chunks |-> Cells(i)]
  BY <1>1
<1>. QED BY <1>2 DEF InOrder, EncData

Increases(nos) == \A i, j \in DOMAIN nos : i < j => nos[i] < nos[j]

(* The group of a server has exactly the chunks assigned to it. *)
LEMMA GroupIs ==
  ASSUME NEW assign, NEW s
  PROVE  LET g == Group(assign, s)
         IN /\ g \in GroupRecords /\ g.data = <<>>
            /\ g.pc = IF g.todo = <<>> THEN "done" ELSE "next"
            /\ Increases(g.todo)
            /\ \A i \in Chunks : Contains(g.todo, i) <=> assign[i] = s
<1> DEFINE S == {i \in Chunks : assign[i] = s}
           c == Cardinality(S)
           todo == Ascending(S)
           g == Group(assign, s)
<1>1. S \in SUBSET (1..Len(Size)) /\ Len(Size) \in Nat
  BY Sizes
<1>2. /\ c \in Nat /\ todo \in [1..c -> S]
      /\ \A i, j \in 1..c : i < j => todo[i] < todo[j]
      /\ \A x \in S : \E i \in 1..c : todo[i] = x
  <2> HIDE DEF S
  <2>. QED BY <1>1, AscendingIs
<1>3. g = [todo |-> todo, pc |-> IF todo = <<>> THEN "done" ELSE "next", id |-> 0, data |-> <<>>]
  BY DEF Group
<1> HIDE DEF g, todo, c
<1>4. todo \in Seq(Chunks) /\ Len(todo) = c /\ DOMAIN todo = 1..c
  BY <1>2
<1>5. g.todo = todo /\ g.data = <<>> /\ g.pc = IF todo = <<>> THEN "done" ELSE "next"
  BY <1>3
<1>6. g \in GroupRecords
  <2>1. (IF todo = <<>> THEN "done" ELSE "next") \in Steps /\ <<>> \in Bodies
    BY DEF Steps, Bodies
  <2>. QED BY <1>3, <1>4, <2>1 DEF GroupRecords
<1>7. Increases(todo)
  BY <1>2, <1>4 DEF Increases
<1>8. \A i \in Chunks : Contains(todo, i) <=> assign[i] = s
  BY <1>2, <1>4 DEF Contains
<1>. QED BY <1>5, <1>6, <1>7, <1>8 DEF g

(* What is left when the first chunk is done. *)
LEMMA TailIs ==
  ASSUME NEW todo \in Seq(Chunks), todo # <<>>, Increases(todo)
  PROVE  /\ Head(todo) \in Chunks /\ Contains(todo, Head(todo))
         /\ Tail(todo) \in Seq(Chunks) /\ Increases(Tail(todo))
         /\ Tail(todo) = <<>> <=> Len(todo) = 1
         /\ \A i \in Chunks : Contains(Tail(todo), i) <=> Contains(todo, i) /\ i # Head(todo)
<1>1. /\ Len(todo) \in Nat /\ Len(todo) >= 1 /\ Tail(todo) \in Seq(Chunks) /\ Len(Tail(todo)) = Len(todo) - 1
      /\ \A k \in 1..(Len(todo) - 1) : Tail(todo)[k] = todo[k + 1]
      /\ Head(todo) = todo[1] /\ Head(todo) \in Chunks
  OBVIOUS
<1>2. \A k \in 1..Len(todo) : todo[k] \in Nat
  BY Sizes
<1>3. \A i, j \in 1..Len(todo) : i < j => todo[i] < todo[j]
  BY <1>1 DEF Increases
<1>4. Contains(todo, Head(todo))
  BY <1>1 DEF Contains
<1>5. Increases(Tail(todo))
  <2> SUFFICES ASSUME NEW i \in 1..(Len(todo) - 1), NEW j \in 1..(Len(todo) - 1), i < j
               PROVE  Tail(todo)[i] < Tail(todo)[j]
    BY <1>1 DEF Increases
  <2>1. i + 1 \in 1..Len(todo) /\ j + 1 \in 1..Len(todo) /\ i + 1 < j + 1
    BY <1>1
  <2>. QED BY <1>1, <1>3, <2>1
<1>6. Tail(todo) = <<>> <=> Len(todo) = 1
  <2>1. \A t \in Seq(Chunks) : t = <<>> <=> Len(t) = 0
    OBVIOUS
  <2>2. Tail(todo) = <<>> <=> Len(Tail(todo)) = 0
    BY <1>1, <2>1
  <2>. QED BY <1>1, <2>2
<1>7. ASSUME NEW i \in Chunks
      PROVE  Contains(Tail(todo), i) <=> Contains(todo, i) /\ i # Head(todo)
  <2>1. ASSUME Contains(Tail(todo), i) PROVE Contains(todo, i) /\ i # Head(todo)
    <3>1. PICK k \in 1..(Len(todo) - 1) : Tail(todo)[k] = i
      BY <1>1, <2>1 DEF Contains
    <3>2. k + 1 \in 1..Len(todo) /\ 1 \in 1..Len(todo) /\ 1 < k + 1 /\ todo[k + 1] = i
      BY <1>1, <3>1
    <3>3. todo[1] < todo[k + 1]
      BY <1>3, <3>2
    <3>4. todo[1] \in Nat /\ todo[k + 1] \in Nat
      BY <1>2, <3>2
    <3>. QED BY <1>1, <3>2, <3>3, <3>4 DEF Contains
  <2>2. ASSUME Contains(todo, i), i # Head(todo) PROVE Contains(Tail(todo), i)
    <3>1. PICK k \in 1..Len(todo) : todo[k] = i
      BY <2>2 DEF Contains
    <3>2. k # 1
      BY <1>1, <2>2, <3>1
    <3>3. k - 1 \in 1..(Len(todo) - 1) /\ (k - 1) + 1 = k
      BY <1>1, <3>2
    <3>4. Tail(todo)[k - 1] = i
      BY <1>1, <3>1, <3>3
    <3>. QED BY <1>1, <3>3, <3>4 DEF Contains
  <2>. QED BY <2>1, <2>2
<1>. QED BY <1>1, <1>4, <1>5, <1>6, <1>7

(* Adding to a map and restricting one. *)
LEMMA WithIs ==
  ASSUME NEW map, NEW k, NEW v
  PROVE  /\ DOMAIN With(map, k, v) = DOMAIN map \cup {k}
         /\ With(map, k, v)[k] = v
         /\ \A x \in DOMAIN map : x # k => With(map, k, v)[x] = map[x]
BY DEF With

(* A map of chunks stays one. *)
LEMMA WithMaps ==
  ASSUME NEW V, NEW map \in Maps(V), NEW k \in Chunks, NEW v \in V
  PROVE  With(map, k, v) \in Maps(V)
<1>1. PICK X \in SUBSET Chunks : map \in [X -> V]
  BY DEF Maps
<1>2. With(map, k, v) \in [X \cup {k} -> V] /\ X \cup {k} \in SUBSET Chunks
  BY <1>1 DEF With
<1>. QED BY <1>2 DEF Maps

(* What it is to be a map of chunks. *)
LEMMA MapsIs ==
  ASSUME NEW V, NEW map
  PROVE  map \in Maps(V) <=> /\ DOMAIN map \subseteq Chunks
                             /\ map = [x \in DOMAIN map |-> map[x]]
                             /\ \A x \in DOMAIN map : map[x] \in V
<1>1. ASSUME map \in Maps(V)
      PROVE  /\ DOMAIN map \subseteq Chunks
             /\ map = [x \in DOMAIN map |-> map[x]]
             /\ \A x \in DOMAIN map : map[x] \in V
  <2>1. PICK X \in SUBSET Chunks : map \in [X -> V]
    BY <1>1 DEF Maps
  <2>. QED BY <2>1
<1>2. ASSUME /\ DOMAIN map \subseteq Chunks
             /\ map = [x \in DOMAIN map |-> map[x]]
             /\ \A x \in DOMAIN map : map[x] \in V
      PROVE  map \in Maps(V)
  <2>1. map \in [DOMAIN map -> V] /\ DOMAIN map \in SUBSET Chunks
    BY <1>2
  <2>. QED BY <2>1 DEF Maps
<1>. QED BY <1>1, <1>2

-----------------------------------------------------------------------------
(* The letters.                                                              *)

Posts(owner, msg) ==
  /\ ready
  /\ pending' = With(pending, nextId, owner)
  /\ inbox' = IF worker = "terminated" THEN inbox ELSE Append(inbox, msg)
  /\ nextId' = nextId + 1
  /\ UNCHANGED <<worker, ready, running, outbox>>

(* A request of one who waits for nothing takes its turn behind the others. *)
LEMMA PostKeepsTurn ==
  ASSUME WorkerTypes, Pending, InTurn,
         NEW owner \in Owners, \A id \in DOMAIN pending : pending[id] # owner,
         NEW msg \in Messages, msg.id = nextId, Posts(owner, msg)
  PROVE  /\ Pending' /\ InTurn'
         /\ inbox' \in Seq(Messages) /\ nextId' \in Nat \ {0}
         /\ \A id \in DOMAIN pending : id \in DOMAIN pending' /\ pending'[id] = pending[id]
         /\ pending'[nextId] = owner /\ DOMAIN pending' = DOMAIN pending \cup {nextId}
         /\ Queued' \subseteq Queued \cup {msg} /\ Requested' \subseteq Requested \cup {msg}
         /\ Replies' = Replies
<1>1. /\ inbox \in Seq(Messages) /\ nextId \in Nat /\ nextId # 0 /\ outbox \in Seq(Answers)
      /\ Len(inbox) \in Nat
  BY DEF WorkerTypes
<1>2. /\ DOMAIN pending' = DOMAIN pending \cup {nextId} /\ pending'[nextId] = owner
      /\ \A id \in DOMAIN pending : id # nextId => pending'[id] = pending[id]
  BY DEF Posts, With
<1>3. \A id \in DOMAIN pending : id \in Nat /\ id # 0 /\ id < nextId
  BY <1>1 DEF Pending
<1>4. /\ nextId' = nextId + 1
      /\ UNCHANGED <<worker, ready, running, outbox>>
      /\ ready
  BY DEF Posts
<1>5. Pending'
  <2>1. DOMAIN pending' \subseteq 1..(nextId' - 1)
    BY <1>1, <1>2, <1>3, <1>4
  <2>2. \A id \in DOMAIN pending' : pending'[id] \in Owners
    BY <1>2, <1>3 DEF Pending
  <2>3. \A a, b \in DOMAIN pending' : pending'[a] = pending'[b] => a = b
    <3>1. \A a, b \in DOMAIN pending : pending[a] = pending[b] => a = b
      BY DEF Pending
    <3>. QED BY <1>2, <1>3, <3>1
  <2>. QED BY <2>1, <2>2, <2>3 DEF Pending, Owners
<1>6. CASE worker = "terminated"
  <2>1. inbox' = inbox
    BY <1>6 DEF Posts
  <2>2. InTurn'
    BY <1>2, <1>4, <2>1 DEF InTurn
  <2>3. Queued' = Queued /\ Requested' = Requested /\ Replies' = Replies
    BY <1>4, <2>1 DEF Queued, Requested, Replies
  <2>. QED BY <1>1, <1>2, <1>3, <1>4, <1>5, <2>1, <2>2, <2>3
<1>7. CASE worker # "terminated"
  <2>1. inbox' = Append(inbox, msg)
    BY <1>7 DEF Posts
  <2>2. /\ inbox' \in Seq(Messages) /\ DOMAIN inbox' = 1..(Len(inbox) + 1)
        /\ DOMAIN inbox = 1..Len(inbox)
        /\ \A k \in 1..Len(inbox) : inbox'[k] = inbox[k]
        /\ inbox'[Len(inbox) + 1] = msg
    BY <1>1, <2>1
  <2>3. \A k \in DOMAIN inbox' :
        (k \in DOMAIN inbox /\ inbox'[k] = inbox[k]) \/ (k = Len(inbox) + 1 /\ inbox'[k] = msg)
    BY <1>1, <2>2
  <2>4. Queued' \subseteq Queued \cup {msg}
    BY <2>3 DEF Queued
  <2>5. Requested' \subseteq Requested \cup {msg} /\ Replies' = Replies
    BY <1>4, <2>4 DEF Requested, Replies
  <2>6. worker = "up"
    BY <1>4, <1>7 DEF WorkerTypes, InTurn
  <2>7. InTurn'
    <3>1. \A k \in DOMAIN inbox' : inbox'[k].id \in DOMAIN pending'
      BY <1>2, <2>3 DEF InTurn
    <3>2. /\ \A r \in running : r.msg.id \in DOMAIN pending'
          /\ \A k \in DOMAIN outbox : outbox[k].type # "ready" => outbox[k].id \in DOMAIN pending'
      BY <1>2 DEF InTurn
    <3>3. \A k, l \in DOMAIN inbox' : k < l => inbox'[k].id < inbox'[l].id
      <4>1. \A k \in DOMAIN inbox : inbox[k].id < nextId
        BY <1>3 DEF InTurn
      <4> SUFFICES ASSUME NEW k \in DOMAIN inbox', NEW l \in DOMAIN inbox', k < l
                   PROVE  inbox'[k].id < inbox'[l].id
        OBVIOUS
      <4>2. k \in DOMAIN inbox /\ inbox'[k] = inbox[k]
        BY <1>1, <2>2, <2>3
      <4>3. CASE l \in DOMAIN inbox /\ inbox'[l] = inbox[l]
        BY <4>2, <4>3 DEF InTurn
      <4>4. CASE inbox'[l] = msg
        BY <4>1, <4>2, <4>4
      <4>. QED BY <2>3, <4>3, <4>4
    <3>4. \A k \in DOMAIN inbox', r \in running : r.msg.id < inbox'[k].id
      <4>1. \A r \in running : r.msg.id < nextId
        BY <1>3 DEF InTurn
      <4>2. \A k \in DOMAIN inbox, r \in running : r.msg.id < inbox[k].id
        BY DEF InTurn
      <4>. QED BY <2>3, <4>1, <4>2
    <3>5. \A k \in DOMAIN outbox, l \in DOMAIN inbox' : outbox[k].id < inbox'[l].id
      <4>1. \A k \in DOMAIN outbox : outbox[k].id < nextId
        BY <1>1, <1>3 DEF InTurn
      <4>2. \A k \in DOMAIN outbox, l \in DOMAIN inbox : outbox[k].id < inbox[l].id
        BY DEF InTurn
      <4>. QED BY <2>3, <4>1, <4>2
    <3>6. /\ \A k \in DOMAIN outbox : outbox[k].type = "ready" => outbox[k].id = 0
          /\ \A r, q \in running : r = q
          /\ \A k \in DOMAIN outbox, r \in running : outbox[k].id < r.msg.id
          /\ \A k, l \in DOMAIN outbox : k < l => outbox[k].id < outbox[l].id
      BY DEF InTurn
    <3>. QED BY <1>4, <2>6, <3>1, <3>2, <3>3, <3>4, <3>5, <3>6 DEF InTurn
  <2>. QED BY <1>1, <1>2, <1>3, <1>4, <1>5, <2>2, <2>4, <2>5, <2>7
<1>. QED BY <1>6, <1>7

(* An answer is for one who waits for it, and no other letter is for them.  *)
LEMMA AnswerKeepsTurn ==
  ASSUME WorkerTypes, Pending, InTurn, HandleMessage,
         UNCHANGED <<worker, ready, nextId, inbox, running>>
  PROVE  /\ Pending' /\ InTurn' /\ outbox' \in Seq(Answers)
         /\ Received \in Replies /\ Received \in Answers /\ Received.id \in DOMAIN pending
         /\ DOMAIN pending' = DOMAIN pending \ {Received.id}
         /\ \A id \in DOMAIN pending' : pending'[id] = pending[id] /\ pending[id] # Owner
         /\ Queued' = Queued /\ Requested' = Requested /\ Replies' \subseteq Replies
         /\ \A m \in Requested' \cup Replies' : m.id \in DOMAIN pending'
<1>1. /\ outbox # <<>> /\ Received.type # "ready" /\ outbox' = Tail(outbox)
      /\ pending' = Restrict(pending, DOMAIN pending \ {Received.id})
  BY DEF HandleMessage
<1>2. /\ outbox \in Seq(Answers) /\ Len(outbox) \in Nat /\ Len(outbox) >= 1
      /\ Received = outbox[1] /\ Received \in Answers /\ 1 \in DOMAIN outbox
      /\ outbox' \in Seq(Answers) /\ DOMAIN outbox' = 1..(Len(outbox) - 1) /\ DOMAIN outbox = 1..Len(outbox)
      /\ \A k \in 1..(Len(outbox) - 1) : outbox'[k] = outbox[k + 1]
  BY <1>1 DEF WorkerTypes, Received
<1>3. DOMAIN pending' = DOMAIN pending \ {Received.id} /\ \A id \in DOMAIN pending' : pending'[id] = pending[id]
  BY <1>1 DEF Restrict
<1>4. Received.id \in DOMAIN pending /\ Received \in Replies
  BY <1>1, <1>2 DEF InTurn, Replies
<1>5. \A id \in DOMAIN pending' : pending[id] # Owner
  BY <1>3, <1>4 DEF Pending, Owner
<1>6. Queued' = Queued /\ Requested' = Requested
  BY DEF Queued, Requested
<1>7. ASSUME NEW k \in DOMAIN outbox'
      PROVE  /\ k + 1 \in DOMAIN outbox /\ outbox'[k] = outbox[k + 1] /\ outbox'[k] \in {outbox[j] : j \in DOMAIN outbox}
             /\ Received.id < outbox'[k].id
  <2>1. k + 1 \in DOMAIN outbox /\ outbox'[k] = outbox[k + 1] /\ 1 < k + 1
    BY <1>2
  <2>2. outbox[1].id < outbox[k + 1].id
    BY <1>2, <2>1 DEF InTurn
  <2>. QED BY <1>2, <2>1, <2>2
<1>8. Replies' \subseteq Replies
  BY <1>7 DEF Replies
<1>9. Received.id \in Nat
  BY <1>2 DEF Answers
<1>10. Pending'
  BY <1>3 DEF Pending, Owners
<1>11. \A k \in DOMAIN inbox : inbox[k].id \in DOMAIN pending'
  <2>1. \A k \in DOMAIN inbox : inbox[k].id \in DOMAIN pending /\ Received.id < inbox[k].id
    BY <1>2 DEF InTurn
  <2>. QED BY <1>3, <1>9, <2>1
<1>12. \A r \in running : r.msg.id \in DOMAIN pending'
  <2>1. \A r \in running : r.msg.id \in DOMAIN pending /\ Received.id < r.msg.id
    BY <1>2 DEF InTurn
  <2>. QED BY <1>3, <1>9, <2>1
<1>13. \A k \in DOMAIN outbox' : outbox'[k].type # "ready" => outbox'[k].id \in DOMAIN pending'
  <2> SUFFICES ASSUME NEW k \in DOMAIN outbox', outbox'[k].type # "ready" PROVE outbox'[k].id \in DOMAIN pending'
    OBVIOUS
  <2>1. outbox[k + 1].id \in DOMAIN pending
    BY <1>7 DEF InTurn
  <2>2. outbox'[k].id # Received.id
    BY <1>7, <1>9
  <2>. QED BY <1>3, <1>7, <2>1, <2>2
<1>14. \A m \in Requested' \cup Replies' : m.id \in DOMAIN pending'
  BY <1>11, <1>12, <1>13 DEF Requested, Queued, Replies
<1>15. InTurn'
  <2>1. \A k, l \in DOMAIN outbox' : k < l => outbox'[k].id < outbox'[l].id
    <3> SUFFICES ASSUME NEW k \in DOMAIN outbox', NEW l \in DOMAIN outbox', k < l
                 PROVE  outbox'[k].id < outbox'[l].id
      OBVIOUS
    <3>1. k + 1 < l + 1
      BY <1>2
    <3>. QED BY <1>7, <3>1 DEF InTurn
  <2>2. \A k \in DOMAIN outbox' : outbox'[k].type = "ready" => outbox'[k].id = 0
    BY <1>7 DEF InTurn
  <2>3. \A k \in DOMAIN outbox', l \in DOMAIN inbox : outbox'[k].id < inbox[l].id
    BY <1>7 DEF InTurn
  <2>4. \A k \in DOMAIN outbox', r \in running : outbox'[k].id < r.msg.id
    BY <1>7 DEF InTurn
  <2>5. worker = "up"
    BY <1>1 DEF InTurn
  <2>6. ~ready => DOMAIN pending' = {}
    BY <1>3 DEF InTurn
  <2>. QED BY <1>11, <1>12, <1>13, <2>1, <2>2, <2>3, <2>4, <2>5, <2>6 DEF InTurn
<1>. QED BY <1>2, <1>3, <1>4, <1>5, <1>6, <1>8, <1>10, <1>14, <1>15

(* The next request begins. *)
LEMMA DispatchKeepsTurn ==
  ASSUME WorkerTypes, Pending, InTurn, Dispatch
  PROVE  /\ InTurn' /\ inbox' \in Seq(Messages) /\ running' \in SUBSET Handlers
         /\ \E m \in Queued : running' = {[msg |-> m, pc |-> "begin", data |-> <<>>]}
         /\ running = {} /\ Queued' \subseteq Queued /\ Requested' \subseteq Requested /\ Replies' = Replies
<1>1. /\ worker = "up" /\ inbox # <<>> /\ running = {}
      /\ running' = {[msg |-> Head(inbox), pc |-> "begin", data |-> <<>>]}
      /\ inbox' = Tail(inbox)
      /\ UNCHANGED <<worker, ready, pending, outbox>>
  BY DEF Dispatch
<1>2. /\ inbox \in Seq(Messages) /\ Len(inbox) \in Nat /\ Len(inbox) >= 1
      /\ Head(inbox) = inbox[1] /\ Head(inbox) \in Messages /\ 1 \in DOMAIN inbox
      /\ inbox' \in Seq(Messages) /\ DOMAIN inbox' = 1..(Len(inbox) - 1) /\ DOMAIN inbox = 1..Len(inbox)
      /\ \A k \in 1..(Len(inbox) - 1) : inbox'[k] = inbox[k + 1]
  BY <1>1 DEF WorkerTypes
<1>3. ASSUME NEW k \in DOMAIN inbox'
      PROVE  /\ k + 1 \in DOMAIN inbox /\ inbox'[k] = inbox[k + 1]
             /\ inbox'[k] \in {inbox[j] : j \in DOMAIN inbox}
             /\ inbox[1].id < inbox'[k].id
  <2>1. k + 1 \in DOMAIN inbox /\ inbox'[k] = inbox[k + 1] /\ 1 < k + 1
    BY <1>2
  <2>2. inbox[1].id < inbox[k + 1].id
    BY <1>2, <2>1 DEF InTurn
  <2>. QED BY <1>2, <2>1, <2>2
<1>4. Queued' \subseteq Queued /\ Head(inbox) \in Queued
  BY <1>2, <1>3 DEF Queued
<1>5. Requested' \subseteq Requested /\ Replies' = Replies
  <2>1. {r.msg : r \in running'} = {Head(inbox)}
    BY <1>1
  <2>. QED BY <1>1, <1>4, <2>1 DEF Requested, Replies
<1>6. running' \in SUBSET Handlers
  BY <1>1, <1>2 DEF Handlers, Bodies
<1>7. \A r \in running' : r.msg = inbox[1]
  BY <1>1, <1>2
<1>8. InTurn'
  <2>1. \A k, l \in DOMAIN inbox' : k < l => inbox'[k].id < inbox'[l].id
    <3> SUFFICES ASSUME NEW k \in DOMAIN inbox', NEW l \in DOMAIN inbox', k < l
                 PROVE  inbox'[k].id < inbox'[l].id
      OBVIOUS
    <3>1. k + 1 < l + 1
      BY <1>2
    <3>. QED BY <1>3, <3>1 DEF InTurn
  <2>2. \A k \in DOMAIN inbox' : inbox'[k].id \in DOMAIN pending
    BY <1>3 DEF InTurn
  <2>3. \A k \in DOMAIN outbox, l \in DOMAIN inbox' : outbox[k].id < inbox'[l].id
    BY <1>3 DEF InTurn
  <2>4. \A r \in running' : r.msg.id \in DOMAIN pending
    BY <1>2, <1>7 DEF InTurn
  <2>5. \A k \in DOMAIN inbox', r \in running' : r.msg.id < inbox'[k].id
    BY <1>3, <1>7
  <2>6. \A k \in DOMAIN outbox, r \in running' : outbox[k].id < r.msg.id
    BY <1>2, <1>7 DEF InTurn
  <2>7. \A r, q \in running' : r = q
    BY <1>1
  <2>8. /\ \A k \in DOMAIN outbox : outbox[k].type # "ready" => outbox[k].id \in DOMAIN pending
        /\ \A k \in DOMAIN outbox : outbox[k].type = "ready" => outbox[k].id = 0
        /\ \A k, l \in DOMAIN outbox : k < l => outbox[k].id < outbox[l].id
        /\ ~ready => DOMAIN pending = {}
    BY DEF InTurn
  <2>. QED BY <1>1, <2>1, <2>2, <2>3, <2>4, <2>5, <2>6, <2>7, <2>8 DEF InTurn
<1>. QED BY <1>1, <1>2, <1>4, <1>5, <1>6, <1>8

(* The handler that is running waits for the file system. *)
LEMMA AwaitKeepsTurn ==
  ASSUME WorkerTypes, Pending, InTurn, NEW r \in running, NEW pc, NEW data, Await(r, pc, data),
         worker = "up", UNCHANGED <<worker, ready, pending, nextId, inbox>>
  PROVE  /\ InTurn' /\ running = {r} /\ running' = {[r EXCEPT !.pc = pc, !.data = data]}
         /\ r \in Handlers /\ r.msg \in Messages
         /\ Queued' = Queued /\ Requested' = Requested /\ Replies' = Replies
<1>1. running' = (running \ {r}) \cup {[r EXCEPT !.pc = pc, !.data = data]} /\ UNCHANGED outbox
  BY DEF Await
<1>2. running = {r}
  BY DEF InTurn
<1>3. r \in Handlers /\ r.msg \in Messages
  BY DEF WorkerTypes, Handlers
<1> DEFINE q == [r EXCEPT !.pc = pc, !.data = data]
<1>4. q.msg = r.msg
  BY <1>3 DEF Handlers
<1>5. running' = {q}
  BY <1>1, <1>2
<1> HIDE DEF q
<1>6. \A p \in running' : p.msg = r.msg
  BY <1>4, <1>5
<1>7. {p.msg : p \in running'} = {r.msg} /\ {p.msg : p \in running} = {r.msg}
  BY <1>2, <1>4, <1>5
<1>8. Queued' = Queued /\ Requested' = Requested /\ Replies' = Replies
  BY <1>1, <1>7 DEF Queued, Requested, Replies
<1>9. InTurn'
  <2>1. /\ \A p \in running' : p.msg.id \in DOMAIN pending
        /\ \A k \in DOMAIN inbox, p \in running' : p.msg.id < inbox[k].id
        /\ \A k \in DOMAIN outbox, p \in running' : outbox[k].id < p.msg.id
    BY <1>6 DEF InTurn
  <2>2. \A p, o \in running' : p = o
    BY <1>5
  <2>. QED BY <1>1, <2>1, <2>2 DEF InTurn
<1>. QED BY <1>2, <1>3, <1>5, <1>8, <1>9 DEF q

(* The handler that is running answers and is done. *)
LEMMA ReplyKeepsTurn ==
  ASSUME WorkerTypes, Pending, InTurn, NEW r \in running, NEW type, NEW data,
         Reply(r, type, data), type # "ready", [id |-> r.msg.id, type |-> type, data |-> data] \in Answers,
         worker = "up", UNCHANGED <<worker, ready, pending, nextId, inbox>>
  PROVE  /\ InTurn' /\ running = {r} /\ running' = {} /\ outbox' \in Seq(Answers)
         /\ r \in Handlers /\ r.msg \in Messages
         /\ Queued' = Queued /\ Requested' \subseteq Requested
         /\ Replies' = Replies \cup {[id |-> r.msg.id, type |-> type, data |-> data]}
<1> DEFINE a == [id |-> r.msg.id, type |-> type, data |-> data]
<1>1. running' = running \ {r} /\ outbox' = Append(outbox, a)
  BY DEF Reply
<1>2. running = {r} /\ running' = {}
  BY <1>1 DEF InTurn
<1>3. r \in Handlers /\ r.msg \in Messages
  BY DEF WorkerTypes, Handlers
<1>4. a \in Answers /\ a.id = r.msg.id /\ a.type # "ready"
  OBVIOUS
<1> HIDE DEF a
<1>5. /\ outbox \in Seq(Answers) /\ Len(outbox) \in Nat /\ outbox' \in Seq(Answers)
      /\ DOMAIN outbox = 1..Len(outbox) /\ DOMAIN outbox' = 1..(Len(outbox) + 1)
      /\ \A k \in 1..Len(outbox) : outbox'[k] = outbox[k]
      /\ outbox'[Len(outbox) + 1] = a
  BY <1>1, <1>4 DEF WorkerTypes
<1>6. \A k \in DOMAIN outbox' :
        (k \in DOMAIN outbox /\ outbox'[k] = outbox[k]) \/ (k = Len(outbox) + 1 /\ outbox'[k] = a)
  BY <1>5
<1>7. {outbox'[k] : k \in DOMAIN outbox'} = {outbox[k] : k \in DOMAIN outbox} \cup {a}
  <2>1. \A k \in DOMAIN outbox : k \in DOMAIN outbox' /\ outbox'[k] = outbox[k]
    BY <1>5
  <2>2. Len(outbox) + 1 \in DOMAIN outbox'
    BY <1>5
  <2>. QED BY <1>5, <1>6, <2>1, <2>2
<1>8. Replies' = Replies \cup {a}
  BY <1>4, <1>7 DEF Replies
<1>9. Queued' = Queued /\ Requested' \subseteq Requested
  BY <1>2 DEF Queued, Requested
<1>10. InTurn'
  <2>1. r.msg.id \in DOMAIN pending /\ \A k \in DOMAIN inbox : r.msg.id < inbox[k].id
    BY DEF InTurn
  <2>2. \A k \in DOMAIN outbox : outbox[k].id < r.msg.id
    BY DEF InTurn
  <2>3. \A k \in DOMAIN outbox' : outbox'[k].type # "ready" => outbox'[k].id \in DOMAIN pending
    BY <1>4, <1>6, <2>1 DEF InTurn
  <2>4. \A k \in DOMAIN outbox' : outbox'[k].type = "ready" => outbox'[k].id = 0
    BY <1>4, <1>6 DEF InTurn
  <2>5. \A k \in DOMAIN outbox', l \in DOMAIN inbox : outbox'[k].id < inbox[l].id
    BY <1>4, <1>6, <2>1 DEF InTurn
  <2>6. \A k, l \in DOMAIN outbox' : k < l => outbox'[k].id < outbox'[l].id
    <3> SUFFICES ASSUME NEW k \in DOMAIN outbox', NEW l \in DOMAIN outbox', k < l
                 PROVE  outbox'[k].id < outbox'[l].id
      OBVIOUS
    <3>1. k \in DOMAIN outbox /\ outbox'[k] = outbox[k]
      BY <1>5
    <3>2. CASE l \in DOMAIN outbox /\ outbox'[l] = outbox[l]
      BY <3>1, <3>2 DEF InTurn
    <3>3. CASE outbox'[l] = a
      BY <1>4, <2>2, <3>1, <3>3
    <3>. QED BY <1>6, <3>2, <3>3
  <2>7. /\ \A k \in DOMAIN inbox : inbox[k].id \in DOMAIN pending
        /\ \A k, l \in DOMAIN inbox : k < l => inbox[k].id < inbox[l].id
        /\ ~ready => DOMAIN pending = {}
    BY DEF InTurn
  <2>. QED BY <1>2, <2>3, <2>4, <2>5, <2>6, <2>7 DEF InTurn
<1>. QED BY <1>2, <1>3, <1>5, <1>8, <1>9, <1>10 DEF a

-----------------------------------------------------------------------------
(* What a step leaves as it is.                                              *)

(* A request is still what its owner asked for when neither has moved. *)
LEMMA AskedStays ==
  ASSUME NEW m, Asked(m), pending'[m.id] = pending[m.id],
         pending[m.id] = "page" => page' = page,
         pending[m.id] \in Server => group'[pending[m.id]] = group[pending[m.id]],
         m.type = "encrypt" => w'.uploadRead = w.uploadRead
  PROVE  Asked(m)'
BY DEF Asked, No

(* An answer still says the truth when its owner has not moved, and, of a   *)
(* stored chunk, when the chunk is still there.                              *)
LEMMA ToldStays ==
  ASSUME NEW a, Told(a), pending'[a.id] = pending[a.id],
         pending[a.id] = "page" => page' = page /\ (page = "encrypting" => w'.uploadRead = w.uploadRead),
         pending[a.id] \in Server => group'[pending[a.id]] = group[pending[a.id]],
         Excuse => Excuse',
         pending[a.id] \in Server /\ group[pending[a.id]].pc = "storing" /\ page' = "fetching" =>
           page = "fetching" /\ (Kept(No(pending[a.id])) => Kept(No(pending[a.id]))')
  PROVE  Told(a)'
<1> DEFINE o == pending[a.id]
<1>1. CASE o = "page" /\ page = "encrypting" /\ a.type = "encrypted" /\ w.uploadRead
  BY <1>1 DEF Told
<1>2. CASE o = "page" /\ page = "verifying" /\ a.type = "decrypted" /\ a.data = EncData
  BY <1>2 DEF Told
<1>3. CASE o = "page" /\ page = "cleaning"
  BY <1>3 DEF Told
<1>4. CASE o \in Server /\ group[o].pc = "read" /\ a.type = "chunk" /\ a.data = Cells(No(o))
  BY <1>4 DEF Told, No
<1>5. CASE /\ o \in Server /\ group[o].pc = "storing" /\ a.type = "stored"
           /\ page = "fetching" => Kept(No(o))
  <2>1. pending'[a.id] \in Server /\ group'[pending'[a.id]].pc = "storing"
    BY <1>5
  <2>2. No(pending[a.id])' = No(pending[a.id])
    BY <1>5 DEF No
  <2>3. ASSUME page' = "fetching" PROVE Kept(No(pending[a.id]))'
    BY <1>5, <2>3
  <2>. QED BY <1>5, <2>1, <2>3 DEF Told
<1>6. CASE a.type = "error" /\ Excuse /\ a.data = <<>>
  BY <1>6 DEF Told
<1>. QED BY <1>1, <1>2, <1>3, <1>4, <1>5, <1>6 DEF Told

(* What the worker keeps depends on its variables and files only. *)
LEMMA KeptSame ==
  ASSUME UNCHANGED <<w, opfs>>
  PROVE  /\ \A i : Kept(i)' <=> Kept(i)
         /\ AllKept' <=> AllKept
BY DEF Kept, OnDisk, AllKept

(* The page, its groups and the servers stay what they are when only the    *)
(* worker moves.                                                             *)
LEMMA PageStays ==
  ASSUME TransferTypes, Phases, GroupsAreRight, Uploaded,
         UNCHANGED transferVars, Excuse => Excuse', swept' \in Nat,
         worker' = "terminated" <=> worker = "terminated"
  PROVE  TransferTypes' /\ Phases' /\ GroupsAreRight' /\ Uploaded'
<1>1. UNCHANGED <<page, outcome, group, store, sent, inner, link, result, deleting, faults>>
  BY DEF transferVars
<1>2. TransferTypes'
  BY <1>1 DEF TransferTypes
<1>3. AllDone' <=> AllDone
  BY <1>1 DEF AllDone, Active
<1>4. Phases'
  BY <1>1, <1>3 DEF Phases
<1>5. \A s \in Server : GroupIsRight(s)'
  BY <1>1 DEF GroupsAreRight, GroupIsRight, Active, No
<1>6. GroupsAreRight'
  BY <1>1, <1>5 DEF GroupsAreRight, LeftTo
<1>7. Uploaded'
  BY <1>1 DEF Uploaded, LeftTo, Resolved
<1>. QED BY <1>2, <1>4, <1>6, <1>7

(* The files stay what they are when only the page moves. *)
LEMMA FilesStay ==
  ASSUME FilesAreRight, UNCHANGED <<w, opfs, swept>>,
         Fallen => Fallen', Fallen' => Fallen, Unverified' => Unverified \/ w = FreshWorker,
         page' = "file" => page = "file",
         page' = "uploading" => w.uploadRead,
         page' \in {"link", "resolve"} => w = FreshWorker
  PROVE  FilesAreRight'
<1>1. w = FreshWorker => w.meta = Empty /\ w.offset = 0
  BY DEF FreshWorker
<1>. QED BY <1>1 DEF FilesAreRight, Laid

(* So does the worker, unless a request to verify is posted. *)
LEMMA WorkingStays ==
  ASSUME Working, UNCHANGED <<w, opfs, swept, running>>,
         (\E m \in Queued' : m.type = "verifyAndDecrypt") => AllKept,
         page' = "fetching" => \A i \in Chunks : (\A s \in Server : ~LeftTo(s, i)') => Kept(i)
  PROVE  Working'
<1>1. (\A i : Kept(i)' <=> Kept(i)) /\ (AllKept' <=> AllKept)
  BY KeptSame
<1>2. \A r \in running' : HandlerIsRight(r)'
  <2> TAKE r \in running'
  <2>1. HandlerIsRight(r)
    BY DEF Working
  <2>. QED BY <1>1, <2>1 DEF HandlerIsRight, Genuine
<1>. QED BY <1>1, <1>2 DEF Working

(* The group of one server moves, and leaves none of the chunks of another. *)
LEMMA GroupMoves ==
  ASSUME TransferTypes, GroupsAreRight, NEW s \in Server, NEW g \in GroupRecords,
         group' = [group EXCEPT ![s] = g], link' = link,
         Excuse => Excuse', faults > 0 => faults' > 0,
         DOMAIN store \subseteq DOMAIN store',
         \A k \in DOMAIN store : store'[k].server = store[k].server /\ store'[k].no = store[k].no,
         GroupIsRight(s)',
         \A i \in Chunks : Contains(g.todo, i) => LeftTo(s, i)
  PROVE  /\ GroupsAreRight'
         /\ group' \in [Server -> GroupRecords] /\ group'[s] = g
         /\ \A t \in Server : t # s => group'[t] = group[t]
         /\ \A t \in Server, i \in Chunks : LeftTo(t, i)' => LeftTo(t, i)
<1>1. group \in [Server -> GroupRecords]
  BY DEF TransferTypes
<1>2. group' \in [Server -> GroupRecords] /\ group'[s] = g /\ \A t \in Server : t # s => group'[t] = group[t]
  BY <1>1
<1>3. ASSUME NEW t \in Server PROVE GroupIsRight(t)'
  <2>1. CASE t = s
    BY <2>1
  <2>2. CASE t # s
    <3>1. group'[t] = group[t]
      BY <1>2, <2>2
    <3>2. GroupIsRight(t)
      BY DEF GroupsAreRight
    <3>. QED BY <3>1, <3>2 DEF GroupIsRight, Active, No
  <2>. QED BY <2>1, <2>2
<1>4. \A t \in Server, i \in Chunks : LeftTo(t, i)' => LeftTo(t, i)
  BY <1>2 DEF LeftTo
<1>5. \A t, u \in Server : \A i \in Chunks : LeftTo(t, i)' /\ LeftTo(u, i)' => t = u
  BY <1>4 DEF GroupsAreRight
<1>. QED BY <1>2, <1>3, <1>4, <1>5 DEF GroupsAreRight

(* The letters stay what they are when nobody who waits moves. *)
LEMMA MailStays ==
  ASSUME WorkerTypes, Pending, Waiting, InTurn, Letters, UNCHANGED workerVars, Excuse => Excuse',
         \A s \in Server : group[s].pc \in {"read", "storing"} => group'[s] = group[s],
         page \in {"encrypting", "verifying", "cleaning"} => page' = page,
         page' = "fetching" => page = "fetching" \/ AllDone
  PROVE  /\ WorkerTypes' /\ Pending' /\ Waiting' /\ InTurn' /\ Letters'
         /\ Queued' = Queued /\ Requested' = Requested
<1>1. UNCHANGED <<worker, ready, pending, nextId, inbox, running, outbox, w, opfs, shorts, swept>>
  BY DEF workerVars
<1>2. WorkerTypes' /\ Pending' /\ InTurn'
  <2>1. WorkerTypes'
    BY <1>1 DEF WorkerTypes
  <2>2. Pending' /\ InTurn'
    BY <1>1 DEF Pending, Owners, InTurn
  <2>. QED BY <2>1, <2>2
<1>3. Queued' = Queued /\ Requested' = Requested /\ Replies' = Replies
  BY <1>1 DEF Queued, Requested, Replies
<1>4. \A id \in DOMAIN pending : /\ pending[id] = "page" => page' = page
                                 /\ pending[id] \in Server => group'[pending[id]] = group[pending[id]]
  <2> TAKE id \in DOMAIN pending
  <2>1. Waits(pending[id])
    BY DEF Waiting
  <2>. QED BY <2>1, TransferConstants DEF Waits
<1>5. Waiting'
  <2> SUFFICES ASSUME NEW id \in DOMAIN pending PROVE Waits(pending[id])'
    BY <1>1 DEF Waiting
  <2>1. Waits(pending[id]) /\ pending[id] \in Owners
    BY DEF Waiting, Pending
  <2>. QED BY <1>1, <1>4, <2>1 DEF Waits, Owners
<1>6. \A m \in Requested : m.id \in DOMAIN pending
  BY DEF Requested, Queued, InTurn
<1>7. \A a \in Replies : a.id \in DOMAIN pending
  BY DEF Replies, InTurn
<1>8. ASSUME NEW m \in Requested PROVE Asked(m)'
  <2>1. Asked(m)
    BY DEF Letters
  <2>. QED BY <1>1, <1>4, <1>6, <2>1, AskedStays
<1>9. ASSUME NEW a \in Replies PROVE Told(a)'
  <2>1. Told(a)
    BY DEF Letters
  <2>2. ASSUME pending[a.id] \in Server, group[pending[a.id]].pc = "storing", page' = "fetching"
        PROVE  page = "fetching" /\ (Kept(No(pending[a.id])) => Kept(No(pending[a.id]))')
    <3>1. page = "fetching"
      BY <2>2 DEF AllDone, Active
    <3>2. No(pending[a.id])' = No(pending[a.id])
      BY <1>1, <1>4, <1>7, <2>2 DEF No
    <3>. QED BY <1>1, <3>1, <3>2 DEF Kept, OnDisk
  <2>. QED BY <1>1, <1>4, <1>7, <2>1, <2>2, ToldStays
<1>10. Letters'
  BY <1>3, <1>8, <1>9 DEF Letters
<1>. QED BY <1>2, <1>3, <1>5, <1>10

(* A step of the group of one server. *)
LEMMA GroupStep ==
  ASSUME IInv, NEW s \in Server, NEW g \in GroupRecords, Active(s),
         group' = [group EXCEPT ![s] = g],
         UNCHANGED <<page, outcome, link, deleting, result, worker, running, w, opfs, swept>>,
         faults' \in Nat, faults <= faults',
         store' \in Seq([server : Server, no : Chunks, data : Bodies]), DOMAIN store \subseteq DOMAIN store',
         \A k \in DOMAIN store : store'[k].server = store[k].server /\ store'[k].no = store[k].no,
         DOMAIN sent' \subseteq Chunks, \A i \in DOMAIN sent' : sent'[i] \in [server : Server, id : Nat],
         GroupIsRight(s)', \A i \in Chunks : Contains(g.todo, i) => LeftTo(s, i),
         \A m \in Queued' : m.type = "verifyAndDecrypt" => m \in Queued
  PROVE  /\ TransferTypes' /\ Phases' /\ GroupsAreRight' /\ FilesAreRight'
         /\ group'[s] = g /\ \A t \in Server : t # s => group'[t] = group[t]
         /\ \A t \in Server, i \in Chunks : LeftTo(t, i)' => LeftTo(t, i)
<1>1. TransferTypes /\ Phases /\ GroupsAreRight /\ FilesAreRight
  BY DEF IInv
<1>2. faults \in Nat /\ (faults > 0 => faults' > 0)
  BY <1>1 DEF TransferTypes
<1>3. Excuse => Excuse'
  BY <1>2 DEF Excuse
<1>4. /\ GroupsAreRight'
      /\ group' \in [Server -> GroupRecords] /\ group'[s] = g
      /\ \A t \in Server : t # s => group'[t] = group[t]
      /\ \A t \in Server, i \in Chunks : LeftTo(t, i)' => LeftTo(t, i)
  BY <1>1, <1>2, <1>3, GroupMoves
<1>5. TransferTypes'
  BY <1>1, <1>4 DEF TransferTypes
<1>6. ~AllDone
  BY DEF AllDone
<1>7. Phases'
  BY <1>1, <1>2, <1>3, <1>6 DEF Phases
<1>8. Unverified' => Unverified
  BY <1>6 DEF Unverified
<1>9. Fallen' <=> Fallen
  BY DEF Fallen
<1>10. page' = "uploading" => w.uploadRead
  BY <1>1 DEF FilesAreRight
<1>11. page' \in {"link", "resolve"} => w = FreshWorker
  BY <1>1 DEF FilesAreRight
<1>12. FilesAreRight'
  BY <1>1, <1>8, <1>9, <1>10, <1>11, FilesStay
<1>. QED BY <1>4, <1>5, <1>7, <1>12

(* A step of a group that talks to a server and not to the worker. *)
LEMMA GroupAlone ==
  ASSUME IInv, NEW s \in Server, NEW g \in GroupRecords, Active(s), group[s].pc \notin {"read", "storing"},
         group' = [group EXCEPT ![s] = g], UNCHANGED workerVars,
         UNCHANGED <<page, outcome, link, deleting, result>>,
         faults' \in Nat, faults <= faults',
         store' \in Seq([server : Server, no : Chunks, data : Bodies]), DOMAIN store \subseteq DOMAIN store',
         \A k \in DOMAIN store : store'[k].server = store[k].server /\ store'[k].no = store[k].no,
         DOMAIN sent' \subseteq Chunks, \A i \in DOMAIN sent' : sent'[i] \in [server : Server, id : Nat],
         GroupIsRight(s)', \A i \in Chunks : Contains(g.todo, i) => LeftTo(s, i),
         page = "fetching" => g.todo = group[s].todo,
         Uploaded'
  PROVE  IInv'
<1>1. /\ WorkerTypes /\ Pending /\ Waiting /\ InTurn /\ Letters /\ Working
      /\ faults \in Nat
  BY DEF IInv, TransferTypes
<1>2. UNCHANGED <<worker, ready, pending, nextId, inbox, running, outbox, w, opfs, shorts, swept>>
  BY DEF workerVars
<1>3. Queued' = Queued
  BY <1>2 DEF Queued
<1>4. /\ TransferTypes' /\ Phases' /\ GroupsAreRight' /\ FilesAreRight'
      /\ group'[s] = g /\ \A t \in Server : t # s => group'[t] = group[t]
      /\ \A t \in Server, i \in Chunks : LeftTo(t, i)' => LeftTo(t, i)
  BY <1>2, <1>3, GroupStep
<1>5. Excuse => Excuse'
  BY <1>1, <1>2 DEF Excuse
<1>6. \A t \in Server : group[t].pc \in {"read", "storing"} => group'[t] = group[t]
  BY <1>4
<1>7. /\ WorkerTypes' /\ Pending' /\ Waiting' /\ InTurn' /\ Letters'
      /\ Queued' = Queued /\ Requested' = Requested
  BY <1>1, <1>5, <1>6, MailStays
<1>8. page' = "fetching" => \A i \in Chunks : (\A t \in Server : ~LeftTo(t, i)') => Kept(i)
  <2>1. page = "fetching" => \A t \in Server, i \in Chunks : LeftTo(t, i) <=> LeftTo(t, i)'
    BY <1>4 DEF LeftTo
  <2>. QED BY <1>1, <2>1 DEF Working
<1>9. Working'
  BY <1>1, <1>2, <1>3, <1>8, WorkingStays DEF Working
<1>. QED BY <1>4, <1>7, <1>9 DEF IInv

(* The first chunk of a group that is not done. *)
LEMMA FirstIs ==
  ASSUME TransferTypes, GroupsAreRight, NEW s \in Server, Active(s)
  PROVE  /\ group[s] \in GroupRecords /\ group[s].todo \in Seq(Chunks) /\ group[s].todo # <<>>
         /\ Increases(group[s].todo) /\ No(s) \in Chunks /\ LeftTo(s, No(s))
<1>1. group[s] \in GroupRecords /\ GroupIsRight(s)
  BY DEF TransferTypes, GroupsAreRight
<1>2. group[s].todo \in Seq(Chunks) /\ group[s].todo # <<>> /\ Increases(group[s].todo)
  BY <1>1 DEF GroupRecords, GroupIsRight, Increases
<1>. QED BY <1>1, <1>2, TailIs DEF No, LeftTo

(* A group that fails for a reason. *)
LEMMA FailedIsRight ==
  ASSUME NEW s, GroupIsRight(s), Active(s), Excuse',
         group'[s].todo = group[s].todo, group'[s].pc = "failed"
  PROVE  GroupIsRight(s)'
<1>1. Active(s)' /\ group[s].todo # <<>>
  BY DEF Active, GroupIsRight
<1>2. \A i, j \in DOMAIN group'[s].todo : i < j => group'[s].todo[i] < group'[s].todo[j]
  BY DEF GroupIsRight
<1>. QED BY <1>1, <1>2 DEF GroupIsRight

(* createXFTPChunk. *)
LEMMA CreateStep ==
  ASSUME IInv, NEW s \in Server, Create(s)
  PROVE  IInv'
<1>1. /\ link = <<>> /\ group[s].pc = "create"
      /\ UNCHANGED <<page, outcome, sent, inner, link, result, deleting>> /\ UNCHANGED workerVars
  BY DEF Create, Uploading, At
<1>2. TransferTypes /\ GroupsAreRight /\ Uploaded /\ GroupIsRight(s) /\ faults \in Nat
  BY DEF IInv, GroupsAreRight, TransferTypes
<1>3. Active(s)
  BY <1>1 DEF Active
<1>4. /\ group[s] \in GroupRecords /\ group[s].todo \in Seq(Chunks) /\ group[s].todo # <<>>
      /\ Increases(group[s].todo) /\ No(s) \in Chunks /\ LeftTo(s, No(s))
  BY <1>2, <1>3, FirstIs
<1>5. group \in [Server -> GroupRecords] /\ store \in Seq([server : Server, no : Chunks, data : Bodies])
  BY <1>2 DEF TransferTypes
<1>6. UNCHANGED <<swept, w>>
  BY <1>1 DEF workerVars
<1> DEFINE c == [server |-> s, no |-> No(s), data |-> <<>>]
<1>7. c \in [server : Server, no : Chunks, data : Bodies]
  BY <1>4 DEF Bodies
<1>8. ASSUME NEW n \in {1, 2}, store' = store \o NewChunk(s, n), group' = [group EXCEPT ![s].pc = "put", ![s].id = Len(store) + n],
             faults' \in Nat, faults <= faults'
      PROVE  IInv'
  <2> DEFINE g == [group[s] EXCEPT !.pc = "put", !.id = Len(store) + n]
  <2>1. group' = [group EXCEPT ![s] = g]
    BY <1>5, <1>8
  <2>2. NewChunk(s, n) \in Seq([server : Server, no : Chunks, data : Bodies]) /\ Len(NewChunk(s, n)) = n
        /\ \A k \in 1..n : NewChunk(s, n)[k] = c
    BY <1>7 DEF NewChunk
  <2>3. /\ store' \in Seq([server : Server, no : Chunks, data : Bodies])
        /\ Len(store) \in Nat /\ DOMAIN store = 1..Len(store) /\ DOMAIN store' = 1..(Len(store) + n)
        /\ \A k \in 1..Len(store) : store'[k] = store[k]
        /\ \A k \in 1..n : store'[Len(store) + k] = c
    <3> HIDE DEF c
    <3> DEFINE new == NewChunk(s, n)
    <3>1. new \in Seq([server : Server, no : Chunks, data : Bodies]) /\ Len(new) = n /\ \A k \in 1..n : new[k] = c
      BY <2>2
    <3>2. store' = store \o new
      BY <1>8
    <3> HIDE DEF new
    <3>. QED BY <1>5, <3>1, <3>2
  <2> HIDE DEF c
  <2>4. \A k \in DOMAIN store' : (k \in DOMAIN store /\ store'[k] = store[k]) \/ store'[k] = c
    <3> SUFFICES ASSUME NEW k \in 1..(Len(store) + n), k > Len(store) PROVE store'[k] = c
      BY <2>3
    <3>1. k - Len(store) \in 1..n /\ k = Len(store) + (k - Len(store))
      BY <2>3
    <3>. QED BY <2>3, <3>1
  <2>5. c.server = s /\ c.no = No(s) /\ c.data = <<>>
    BY DEF c
  <2>6. g \in GroupRecords /\ g.todo = group[s].todo /\ g.pc = "put" /\ g.id = Len(store) + n /\ g.data = group[s].data
    <3>1. Len(store) + n \in Nat
      BY <2>3
    <3>. QED BY <1>4, <3>1 DEF GroupRecords, Steps
  <2> HIDE DEF g
  <2>7. group'[s] = g /\ Len(store) + n \in DOMAIN store' /\ store'[Len(store) + n] = c
    BY <1>5, <2>1, <2>3
  <2>8. No(s)' = No(s)
    BY <2>6, <2>7 DEF No
  <2>9. GroupIsRight(s)'
    BY <1>1, <1>2, <2>5, <2>6, <2>7, <2>8 DEF GroupIsRight, Active
  <2>10. Uploaded'
    <3>1. \A k \in DOMAIN store' : store'[k].data \in {<<>>, Cells(store'[k].no)}
      BY <1>2, <2>4, <2>5 DEF Uploaded
    <3>2. ASSUME NEW i \in DOMAIN sent
          PROVE  /\ sent[i].id \in DOMAIN store'
                 /\ store'[sent[i].id].server = sent[i].server /\ store'[sent[i].id].no = i
                 /\ deleting = 0 => store'[sent[i].id].data = Cells(i)
      <4>1. sent[i].id \in DOMAIN store
        BY <1>2 DEF Uploaded
      <4>2. sent[i].id \in DOMAIN store' /\ store'[sent[i].id] = store[sent[i].id]
        BY <2>3, <4>1
      <4>. QED BY <1>2, <4>2 DEF Uploaded
    <3>3. \A t \in Server, i \in Chunks : LeftTo(t, i)' <=> LeftTo(t, i)
      BY <1>5, <2>1, <2>6 DEF LeftTo
    <3>. QED BY <1>1, <1>2, <3>1, <3>2, <3>3 DEF Uploaded
  <2>11. \A k \in DOMAIN store : store'[k].server = store[k].server /\ store'[k].no = store[k].no
    BY <2>3
  <2>12. DOMAIN store \subseteq DOMAIN store'
    BY <2>3
  <2>13. DOMAIN sent' \subseteq Chunks /\ \A i \in DOMAIN sent' : sent'[i] \in [server : Server, id : Nat]
    BY <1>1, <1>2 DEF TransferTypes
  <2>14. \A i \in Chunks : Contains(g.todo, i) => LeftTo(s, i)
    BY <2>6 DEF LeftTo
  <2>. QED BY <1>1, <1>3, <1>8, <2>1, <2>3, <2>6, <2>9, <2>10, <2>11, <2>12, <2>13, <2>14, GroupAlone
<1>9. ASSUME Fault, Go(s, "failed"), UNCHANGED store
      PROVE  IInv'
  <2> DEFINE g == [group[s] EXCEPT !.pc = "failed"]
  <2>1. group' = [group EXCEPT ![s] = g]
    BY <1>5, <1>9 DEF Go
  <2>2. g \in GroupRecords /\ g.todo = group[s].todo /\ g.pc = "failed" /\ g.id = group[s].id /\ g.data = group[s].data
    BY <1>4 DEF GroupRecords, Steps
  <2> HIDE DEF g
  <2>3. group'[s] = g
    BY <1>5, <2>1
  <2>4. faults' = faults + 1
    BY <1>9 DEF Fault
  <2>5. faults' \in Nat /\ faults <= faults' /\ faults' > 0
    BY <1>2, <2>4
  <2>6. GroupIsRight(s)'
    <3>1. Excuse'
      BY <2>5 DEF Excuse
    <3>. QED BY <1>2, <1>3, <2>2, <2>3, <3>1, FailedIsRight
  <2>7. \A t \in Server, i \in Chunks : LeftTo(t, i)' <=> LeftTo(t, i)
    BY <1>5, <2>1, <2>2 DEF LeftTo
  <2>8. Uploaded'
    BY <1>1, <1>2, <1>9, <2>7 DEF Uploaded
  <2>9. DOMAIN sent' \subseteq Chunks /\ \A i \in DOMAIN sent' : sent'[i] \in [server : Server, id : Nat]
    BY <1>1, <1>2 DEF TransferTypes
  <2>10. \A i \in Chunks : Contains(g.todo, i) => LeftTo(s, i)
    BY <2>2 DEF LeftTo
  <2>11. store' \in Seq([server : Server, no : Chunks, data : Bodies]) /\ DOMAIN store \subseteq DOMAIN store'
         /\ \A k \in DOMAIN store : store'[k].server = store[k].server /\ store'[k].no = store[k].no
    BY <1>5, <1>9
  <2>. QED BY <1>1, <1>3, <2>1, <2>2, <2>5, <2>6, <2>8, <2>9, <2>10, <2>11, GroupAlone
<1>10. CASE store' = store \o NewChunk(s, 1) /\ UNCHANGED faults /\ group' = [group EXCEPT ![s].pc = "put", ![s].id = Len(store) + 1]
  BY <1>2, <1>8, <1>10
<1>11. CASE store' = store \o NewChunk(s, 2) /\ Fault /\ group' = [group EXCEPT ![s].pc = "put", ![s].id = Len(store) + 2]
  <2>1. faults' = faults + 1
    BY <1>11 DEF Fault
  <2>. QED BY <1>2, <1>8, <1>11, <2>1
<1>. QED BY <1>9, <1>10, <1>11 DEF Create

(* The group goes on to its next chunk. *)
LEMMA NextIs ==
  ASSUME TransferTypes, GroupsAreRight, NEW s \in Server, Active(s), NextChunk(s)
  PROVE  \E g \in GroupRecords :
           /\ group' = [group EXCEPT ![s] = g] /\ group'[s] = g
           /\ g.pc \in {"done", "next"} /\ g.data = group[s].data
           /\ \A i \in Chunks : Contains(g.todo, i) <=> LeftTo(s, i) /\ i # No(s)
           /\ GroupIsRight(s)'
<1>1. /\ group[s] \in GroupRecords /\ group[s].todo \in Seq(Chunks) /\ group[s].todo # <<>>
      /\ Increases(group[s].todo) /\ No(s) \in Chunks /\ LeftTo(s, No(s))
  BY FirstIs
<1>2. group \in [Server -> GroupRecords]
  BY DEF TransferTypes
<1> DEFINE todo == group[s].todo
           pc == IF Len(group[s].todo) = 1 THEN "done" ELSE "next"
           g == [group[s] EXCEPT !.todo = Tail(group[s].todo), !.pc = pc]
<1>3. group' = [group EXCEPT ![s] = g]
  BY <1>2 DEF NextChunk
<1>4. /\ Tail(todo) \in Seq(Chunks) /\ Increases(Tail(todo))
      /\ Tail(todo) = <<>> <=> Len(todo) = 1
      /\ \A i \in Chunks : Contains(Tail(todo), i) <=> Contains(todo, i) /\ i # Head(todo)
  BY <1>1, TailIs
<1>5. pc \in {"done", "next"} /\ (pc = "done" <=> Tail(todo) = <<>>)
  BY <1>4
<1>6. g \in GroupRecords /\ g.todo = Tail(todo) /\ g.pc = pc /\ g.data = group[s].data
  BY <1>1, <1>4, <1>5 DEF GroupRecords, Steps
<1> HIDE DEF g, pc
<1>7. group'[s] = g
  BY <1>2, <1>3
<1>8. \A i \in Chunks : Contains(g.todo, i) <=> LeftTo(s, i) /\ i # No(s)
  BY <1>4, <1>6 DEF LeftTo, No
<1>9. GroupIsRight(s)'
  <2>1. \A i, j \in DOMAIN g.todo : i < j => g.todo[i] < g.todo[j]
    BY <1>4, <1>6 DEF Increases
  <2>2. g.pc # "done" <=> g.todo # <<>>
    BY <1>5, <1>6
  <2>. QED BY <1>5, <1>6, <1>7, <2>1, <2>2 DEF GroupIsRight, Active
<1>. QED BY <1>3, <1>5, <1>6, <1>7, <1>8, <1>9

(* A group that fails by itself. *)
LEMMA FailsStep ==
  ASSUME IInv, NEW s \in Server, Active(s), group[s].pc \notin {"read", "storing"}, Go(s, "failed"),
         UNCHANGED workerVars, UNCHANGED <<page, outcome, sent, inner, link, result, deleting, store>>,
         faults' \in Nat, faults <= faults', Excuse'
  PROVE  IInv'
<1>1. TransferTypes /\ GroupsAreRight /\ Uploaded /\ GroupIsRight(s)
  BY DEF IInv, GroupsAreRight
<1>2. group \in [Server -> GroupRecords] /\ store \in Seq([server : Server, no : Chunks, data : Bodies])
      /\ DOMAIN sent \subseteq Chunks /\ \A i \in DOMAIN sent : sent[i] \in [server : Server, id : Nat]
  BY <1>1 DEF TransferTypes
<1> DEFINE g == [group[s] EXCEPT !.pc = "failed"]
<1>3. group' = [group EXCEPT ![s] = g]
  BY <1>2 DEF Go
<1>4. g \in GroupRecords /\ g.todo = group[s].todo /\ g.pc = "failed"
  BY <1>2 DEF GroupRecords, Steps
<1> HIDE DEF g
<1>5. group'[s] = g
  BY <1>2, <1>3
<1>6. GroupIsRight(s)'
  BY <1>1, <1>4, <1>5, FailedIsRight
<1>7. \A t \in Server, i \in Chunks : LeftTo(t, i)' <=> LeftTo(t, i)
  BY <1>2, <1>3, <1>4 DEF LeftTo
<1>8. Uploaded'
  BY <1>1, <1>7 DEF Uploaded, Resolved
<1>9. \A i \in Chunks : Contains(g.todo, i) => LeftTo(s, i)
  BY <1>4 DEF LeftTo
<1>. QED BY <1>2, <1>3, <1>4, <1>6, <1>8, <1>9, GroupAlone

(* uploadXFTPChunk. *)
LEMMA PutStep ==
  ASSUME IInv, NEW s \in Server, Put(s)
  PROVE  IInv'
<1>1. /\ link = <<>> /\ group[s].pc = "put"
      /\ UNCHANGED <<page, outcome, inner, link, result, deleting>> /\ UNCHANGED workerVars
  BY DEF Put, Uploading, At
<1>2. /\ TransferTypes /\ GroupsAreRight /\ Uploaded /\ GroupIsRight(s) /\ faults \in Nat
      /\ Phases
  BY DEF IInv, GroupsAreRight, TransferTypes
<1>3. Active(s)
  BY <1>1 DEF Active
<1>4. /\ group[s] \in GroupRecords /\ group[s].todo \in Seq(Chunks) /\ group[s].todo # <<>>
      /\ Increases(group[s].todo) /\ No(s) \in Chunks /\ LeftTo(s, No(s))
  BY <1>2, <1>3, FirstIs
<1>5. /\ group \in [Server -> GroupRecords] /\ store \in Seq([server : Server, no : Chunks, data : Bodies])
      /\ DOMAIN sent \subseteq Chunks /\ \A i \in DOMAIN sent : sent[i] \in [server : Server, id : Nat]
  BY <1>2 DEF TransferTypes
<1>6. UNCHANGED <<swept, w>>
  BY <1>1 DEF workerVars
<1> DEFINE id == group[s].id
<1>7. /\ id \in Nat /\ id \in DOMAIN store /\ store[id].server = s /\ store[id].no = No(s)
      /\ group[s].data = Cells(No(s)) /\ group[s].data \in Bodies
  BY <1>1, <1>2, <1>4 DEF GroupIsRight, GroupRecords
<1> HIDE DEF id
<1>8. page # "fetching" /\ page # "redirect" /\ page # "resolve"
  <2>1. ~AllDone
    BY <1>3 DEF AllDone
  <2>. QED BY <1>1, <1>2, <2>1 DEF Phases
<1>9. ASSUME store' = [store EXCEPT ![id].data = group[s].data],
             sent' = With(sent, No(s), [server |-> s, id |-> id]),
             NextChunk(s), UNCHANGED faults
      PROVE  IInv'
  <2>1. PICK g \in GroupRecords :
           /\ group' = [group EXCEPT ![s] = g] /\ group'[s] = g
           /\ g.pc \in {"done", "next"} /\ g.data = group[s].data
           /\ \A i \in Chunks : Contains(g.todo, i) <=> LeftTo(s, i) /\ i # No(s)
           /\ GroupIsRight(s)'
    BY <1>2, <1>3, <1>9, NextIs
  <2> DEFINE c == [store[id] EXCEPT !.data = group[s].data]
  <2>2. store[id] \in [server : Server, no : Chunks, data : Bodies]
    <3>1. id \in DOMAIN store
      BY <1>7
    <3> DEFINE R == [server : Server, no : Chunks, data : Bodies]
    <3>2. store \in Seq(R)
      BY <1>5
    <3> HIDE DEF R
    <3>3. store[id] \in R
      BY <3>1, <3>2
    <3>. QED BY <3>3 DEF R
  <2>3. c \in [server : Server, no : Chunks, data : Bodies] /\ c.server = s /\ c.no = No(s) /\ c.data = Cells(No(s))
    BY <1>7, <2>2
  <2>4. /\ store' \in Seq([server : Server, no : Chunks, data : Bodies]) /\ DOMAIN store' = DOMAIN store
        /\ store'[id] = c /\ \A k \in DOMAIN store : k # id => store'[k] = store[k]
    <3>1. store' = [store EXCEPT ![id] = c]
      BY <1>9
    <3> HIDE DEF c
    <3>. QED BY <1>5, <1>7, <2>3, <3>1
  <2> HIDE DEF c
  <2>5. /\ DOMAIN sent' = DOMAIN sent \cup {No(s)} /\ sent'[No(s)] = [server |-> s, id |-> id]
        /\ \A i \in DOMAIN sent : i # No(s) => sent'[i] = sent[i]
    BY <1>9 DEF With
  <2>6. DOMAIN sent' \subseteq Chunks /\ \A i \in DOMAIN sent' : sent'[i] \in [server : Server, id : Nat]
    <3>1. [server |-> s, id |-> id] \in [server : Server, id : Nat]
      BY <1>7
    <3>. QED BY <1>4, <1>5, <2>5, <3>1
  <2>7. \A k \in DOMAIN store : store'[k].server = store[k].server /\ store'[k].no = store[k].no
    BY <1>7, <2>3, <2>4
  <2>8. \A t \in Server, i \in Chunks : LeftTo(t, i) => LeftTo(t, i)' \/ i = No(s)
    <3> SUFFICES ASSUME NEW t \in Server, NEW i \in Chunks, LeftTo(t, i), i # No(s) PROVE LeftTo(t, i)'
      OBVIOUS
    <3>1. CASE t = s
      BY <2>1, <3>1 DEF LeftTo
    <3>2. CASE t # s
      <4>1. group'[t] = group[t]
        BY <1>5, <2>1, <3>2
      <4>. QED BY <4>1 DEF LeftTo
    <3>. QED BY <3>1, <3>2
  <2>9. Uploaded'
    <3>1. \A k \in DOMAIN store' : store'[k].data \in {<<>>, Cells(store'[k].no)}
      BY <1>2, <2>3, <2>4 DEF Uploaded
    <3>2. ASSUME NEW i \in DOMAIN sent'
          PROVE  /\ sent'[i].id \in DOMAIN store'
                 /\ store'[sent'[i].id].server = sent'[i].server /\ store'[sent'[i].id].no = i
                 /\ deleting = 0 => store'[sent'[i].id].data = Cells(i)
      <4>1. CASE i = No(s)
        <5>1. sent'[i].id = id /\ sent'[i].server = s
          BY <2>5, <4>1
        <5>. QED BY <1>7, <2>3, <2>4, <4>1, <5>1
      <4>2. CASE i # No(s)
        <5>1. i \in DOMAIN sent /\ sent'[i] = sent[i]
          BY <2>5, <4>2
        <5>2. /\ sent[i].id \in DOMAIN store
              /\ store[sent[i].id].server = sent[i].server /\ store[sent[i].id].no = i
              /\ deleting = 0 => store[sent[i].id].data = Cells(i)
          BY <1>2, <5>1 DEF Uploaded
        <5>3. sent[i].id # id
          BY <1>7, <4>2, <5>2
        <5>. QED BY <2>4, <5>1, <5>2, <5>3
      <4>. QED BY <4>1, <4>2
    <3>3. page = "uploading" => \A i \in Chunks : i \in DOMAIN sent' \/ \E t \in Server : LeftTo(t, i)'
      <4>1. page = "uploading" => \A i \in Chunks : i \in DOMAIN sent \/ \E t \in Server : LeftTo(t, i)
        BY <1>2 DEF Uploaded
      <4>. QED BY <2>5, <2>8, <4>1
    <3>. QED BY <1>1, <1>8, <3>1, <3>2, <3>3 DEF Uploaded
  <2>10. \A i \in Chunks : Contains(g.todo, i) => LeftTo(s, i)
    BY <2>1
  <2>11. faults' \in Nat /\ faults <= faults'
    BY <1>2, <1>9
  <2>12. group[s].pc \notin {"read", "storing"} /\ DOMAIN store \subseteq DOMAIN store'
    BY <1>1, <2>4
  <2>. QED BY <1>1, <1>3, <1>8, <2>1, <2>4, <2>6, <2>7, <2>9, <2>10, <2>11, <2>12, GroupAlone
<1>10. ASSUME Fault, Go(s, "failed"), UNCHANGED <<store, sent>>
       PROVE  IInv'
  <2>1. faults' = faults + 1
    BY <1>10 DEF Fault
  <2>2. faults' \in Nat /\ faults <= faults' /\ faults' > 0
    BY <1>2, <2>1
  <2>3. Excuse'
    BY <2>2 DEF Excuse
  <2>. QED BY <1>1, <1>3, <1>10, <2>2, <2>3, FailsStep
<1>. QED BY <1>1, <1>9, <1>10 DEF Put, id

(* downloadXFTPChunkRaw. *)
LEMMA FetchStep ==
  ASSUME IInv, NEW s \in Server, Fetch(s)
  PROVE  IInv'
<1> DEFINE data == store[Resolved[No(s)].id].data
<1>1. /\ link # <<>> /\ group[s].pc = "next"
      /\ UNCHANGED <<page, outcome, store, sent, inner, link, result, deleting>> /\ UNCHANGED workerVars
  BY DEF Fetch, Uploading, At
<1>2. /\ TransferTypes /\ GroupsAreRight /\ Uploaded /\ GroupIsRight(s) /\ faults \in Nat
      /\ Phases
  BY DEF IInv, GroupsAreRight, TransferTypes
<1>3. Active(s)
  BY <1>1 DEF Active
<1>4. /\ group[s] \in GroupRecords /\ group[s].todo \in Seq(Chunks) /\ group[s].todo # <<>>
      /\ Increases(group[s].todo) /\ No(s) \in Chunks /\ LeftTo(s, No(s))
  BY <1>2, <1>3, FirstIs
<1>5. /\ group \in [Server -> GroupRecords] /\ store \in Seq([server : Server, no : Chunks, data : Bodies])
      /\ DOMAIN sent \subseteq Chunks /\ \A i \in DOMAIN sent : sent[i] \in [server : Server, id : Nat]
  BY <1>2 DEF TransferTypes
<1>6. /\ data \in {<<>>, Cells(No(s))}
      /\ deleting = 0 => data = Cells(No(s))
  <2>1. No(s) \in DOMAIN sent /\ Resolved[No(s)] = sent[No(s)]
    BY <1>1, <1>2, <1>4 DEF Uploaded
  <2>2. sent[No(s)].id \in DOMAIN store /\ store[sent[No(s)].id].no = No(s)
        /\ (deleting = 0 => store[sent[No(s)].id].data = Cells(No(s)))
    BY <1>2, <2>1 DEF Uploaded
  <2>3. store[sent[No(s)].id].data \in {<<>>, Cells(No(s))}
    BY <1>2, <2>2 DEF Uploaded
  <2>. QED BY <2>1, <2>2, <2>3
<1>7. Fault => faults' \in Nat /\ faults <= faults' /\ faults' > 0
  BY <1>2 DEF Fault
<1>8. ASSUME NEW d, group' = [group EXCEPT ![s].pc = "store", ![s].data = d], faults' \in Nat, faults <= faults',
             d = Cells(No(s)) \/ (d = <<>> /\ faults' > 0)
      PROVE  IInv'
  <2> DEFINE g == [group[s] EXCEPT !.pc = "store", !.data = d]
  <2>1. group' = [group EXCEPT ![s] = g]
    BY <1>5, <1>8
  <2>2. d \in Bodies
    BY <1>4, <1>8 DEF Bodies
  <2>3. g \in GroupRecords /\ g.todo = group[s].todo /\ g.pc = "store" /\ g.data = d
    BY <1>4, <2>2 DEF GroupRecords, Steps
  <2> HIDE DEF g
  <2>4. group'[s] = g
    BY <1>5, <2>1
  <2>5. GroupIsRight(s)'
    <3>1. No(s)' = No(s)
      BY <2>3, <2>4 DEF No
    <3>2. g.pc # "done" /\ g.todo # <<>>
      BY <1>4, <2>3
    <3>3. \A i, j \in DOMAIN g.todo : i < j => g.todo[i] < g.todo[j]
      BY <1>4, <2>3 DEF Increases
    <3>. QED BY <1>1, <1>8, <2>3, <2>4, <3>1, <3>2, <3>3 DEF GroupIsRight, Active
  <2>6. \A t \in Server, i \in Chunks : LeftTo(t, i)' <=> LeftTo(t, i)
    BY <1>5, <2>1, <2>3 DEF LeftTo
  <2>7. Uploaded'
    BY <1>1, <1>2, <2>6 DEF Uploaded, Resolved
  <2>8. \A i \in Chunks : Contains(g.todo, i) => LeftTo(s, i)
    BY <2>3 DEF LeftTo
  <2>. QED BY <1>1, <1>3, <1>5, <1>8, <2>1, <2>3, <2>5, <2>7, <2>8, GroupAlone
<1> HIDE DEF data
<1>9. CASE data # <<>> /\ group' = [group EXCEPT ![s].pc = "store", ![s].data = data] /\ UNCHANGED faults
  <2>1. faults' \in Nat /\ faults <= faults'
    BY <1>2, <1>9
  <2>2. data = Cells(No(s))
    BY <1>6, <1>9
  <2>. QED BY <1>8, <1>9, <2>1, <2>2
<1>10. CASE data = <<>> /\ Go(s, "failed") /\ UNCHANGED faults
  <2>1. deleting # 0
    BY <1>4, <1>6, <1>10, Sizes
  <2>2. faults > 0
    BY <1>2, <2>1 DEF Phases, TransferTypes
  <2>3. Excuse'
    BY <1>10, <2>2 DEF Excuse
  <2>. QED BY <1>1, <1>2, <1>3, <1>10, <2>3, FailsStep
<1>11. CASE Fault /\ Go(s, "failed")
  <2>1. Excuse'
    BY <1>7, <1>11 DEF Excuse
  <2>. QED BY <1>1, <1>3, <1>7, <1>11, <2>1, FailsStep
<1>12. CASE Fault /\ group' = [group EXCEPT ![s].pc = "store", ![s].data = <<>>]
  BY <1>7, <1>8, <1>12
<1>. QED BY <1>9, <1>10, <1>11, <1>12 DEF Fetch, data

(* A step of the page that talks to nobody who waits, and starts no group. *)
LEMMA PageAlone ==
  ASSUME IInv, UNCHANGED workerVars, UNCHANGED group, TransferTypes', Phases', GroupsAreRight', Uploaded',
         Excuse => Excuse',
         page \in {"encrypting", "verifying", "cleaning"} => page' = page,
         page' = "fetching" => page = "fetching",
         link' # <<>> => link # <<>> \/ AllDone,
         page' = "file" => page = "file",
         page' = "uploading" => w.uploadRead,
         page' \in {"link", "resolve"} => w = FreshWorker
  PROVE  IInv'
<1>1. /\ WorkerTypes /\ Pending /\ Waiting /\ InTurn /\ Letters /\ Working /\ FilesAreRight
  BY DEF IInv
<1>2. UNCHANGED <<worker, ready, pending, nextId, inbox, running, outbox, w, opfs, shorts, swept>>
  BY DEF workerVars
<1>3. /\ WorkerTypes' /\ Pending' /\ Waiting' /\ InTurn' /\ Letters'
      /\ Queued' = Queued /\ Requested' = Requested
  BY <1>1, MailStays
<1>4. AllDone' <=> AllDone
  BY DEF AllDone, Active
<1>5. Unverified' => Unverified
  BY <1>2, <1>3, <1>4 DEF Unverified
<1>6. Fallen' <=> Fallen
  BY <1>2 DEF Fallen
<1>7. FilesAreRight'
  BY <1>1, <1>2, <1>5, <1>6, FilesStay
<1>8. page' = "fetching" => \A i \in Chunks : (\A t \in Server : ~LeftTo(t, i)') => Kept(i)
  BY <1>1 DEF Working, LeftTo
<1>9. (\E m \in Queued' : m.type = "verifyAndDecrypt") => AllKept
  BY <1>1, <1>3 DEF Working
<1>10. Working'
  BY <1>1, <1>2, <1>8, <1>9, WorkingStays
<1>. QED BY <1>3, <1>7, <1>10 DEF IInv

(* deleteFile. *)
LEMMA DeleteStep ==
  ASSUME IInv, DeleteChunk
  PROVE  IInv'
<1> DEFINE i == IF deleting = 0 THEN 1 ELSE Len(Size) + 2 - deleting
           id == sent[i].id
<1>1. /\ link # <<>> /\ UNCHANGED <<page, outcome, group, sent, inner, link, result>> /\ UNCHANGED workerVars
      /\ (deleting = 0 /\ Fault) \/ (deleting > 1 /\ UNCHANGED faults)
      /\ store' = [store EXCEPT ![id].data = <<>>]
      /\ deleting' = Len(Size) + 1 - i
  BY DEF DeleteChunk
<1>2. /\ TransferTypes /\ GroupsAreRight /\ Uploaded /\ Phases
      /\ deleting \in Nat /\ deleting <= Len(Size) /\ faults \in Nat
  BY DEF IInv, TransferTypes
<1>3. i \in Chunks /\ deleting' \in Nat /\ deleting' <= Len(Size) /\ deleting' # 0
  BY <1>1, <1>2, Sizes
<1>4. faults' \in Nat /\ faults' > 0
  BY <1>1, <1>2 DEF Fault, Phases
<1> HIDE DEF i
<1>5. id \in DOMAIN store
  BY <1>1, <1>2, <1>3 DEF Uploaded
<1> HIDE DEF id
<1>6. UNCHANGED <<worker, swept, w>>
  BY <1>1 DEF workerVars
<1> DEFINE R == [server : Server, no : Chunks, data : Bodies]
           c == [store[id] EXCEPT !.data = <<>>]
<1>7. store \in Seq(R)
  BY <1>2 DEF TransferTypes
<1>8. store[id] \in R
  <2> HIDE DEF R
  <2>. QED BY <1>5, <1>7
<1>9. c \in R /\ c.server = store[id].server /\ c.no = store[id].no /\ c.data = <<>>
  BY <1>8 DEF Bodies
<1>10. store' = [store EXCEPT ![id] = c]
  BY <1>1
<1>11. /\ store' \in Seq(R) /\ DOMAIN store' = DOMAIN store
       /\ store'[id] = c /\ \A k \in DOMAIN store : k # id => store'[k] = store[k]
  <2> HIDE DEF R, c
  <2>. QED BY <1>5, <1>7, <1>9, <1>10
<1> HIDE DEF c
<1>12. \A k \in DOMAIN store : store'[k].server = store[k].server /\ store'[k].no = store[k].no
  BY <1>9, <1>11
<1>13. TransferTypes'
  BY <1>1, <1>2, <1>3, <1>4, <1>6, <1>11 DEF TransferTypes
<1>14. AllDone' <=> AllDone
  BY <1>1 DEF AllDone, Active
<1>15. Excuse'
  BY <1>4 DEF Excuse
<1>16. Phases'
  BY <1>1, <1>2, <1>3, <1>4, <1>6, <1>14, <1>15 DEF Phases
<1>17. GroupsAreRight'
  <2>1. ASSUME NEW s \in Server PROVE GroupIsRight(s)'
    <3>1. GroupIsRight(s) /\ No(s)' = No(s) /\ (Active(s)' <=> Active(s))
      BY <1>1, <1>2 DEF GroupsAreRight, No, Active
    <3>2. group[s].pc # "put"
      BY <1>1, <3>1 DEF GroupIsRight
    <3>. QED BY <1>1, <1>4, <1>15, <3>1, <3>2 DEF GroupIsRight
  <2>. QED BY <1>1, <1>2, <2>1 DEF GroupsAreRight, LeftTo
<1>18. Uploaded'
  <2>1. \A k \in DOMAIN store' : store'[k].data \in {<<>>, Cells(store'[k].no)}
    BY <1>2, <1>9, <1>11 DEF Uploaded
  <2>2. \A j \in DOMAIN sent' : /\ sent'[j].id \in DOMAIN store'
                                /\ store'[sent'[j].id].server = sent'[j].server /\ store'[sent'[j].id].no = j
    BY <1>1, <1>2, <1>11, <1>12 DEF Uploaded
  <2>. QED BY <1>1, <1>2, <1>3, <2>1, <2>2 DEF Uploaded, Resolved, LeftTo
<1>19. page' = "uploading" => w.uploadRead
  BY <1>1 DEF IInv, FilesAreRight
<1>20. page' \in {"link", "resolve"} => w = FreshWorker
  BY <1>1 DEF IInv, FilesAreRight
<1>. QED BY <1>1, <1>13, <1>15, <1>16, <1>17, <1>18, <1>19, <1>20, PageAlone

(* Promise.all of the upload. *)
LEMMA UploadSettlesStep ==
  ASSUME IInv, UploadSettles
  PROVE  IInv'
<1>1. page = "uploading" /\ UNCHANGED workerVars /\ UNCHANGED <<group, store, sent, inner, result, deleting, faults>>
  BY DEF UploadSettles
<1>2. TransferTypes /\ GroupsAreRight /\ Uploaded /\ Phases
  BY DEF IInv
<1>3. /\ outcome = "none" /\ link = <<>> /\ deleting = 0 /\ result = <<>> /\ worker # "terminated"
  BY <1>1, <1>2 DEF Phases, Over
<1>4. UNCHANGED <<worker, swept, w>>
  BY <1>1 DEF workerVars
<1>5. (AllDone' <=> AllDone) /\ (Excuse' <=> Excuse)
  BY <1>1, <1>4 DEF AllDone, Active, Excuse
<1>6. CASE \A s \in Server : At(s, "done")
  <2>1. AllDone
    BY <1>6 DEF AllDone, Active, At
  <2>2. \A s \in Server, j \in Chunks : ~LeftTo(s, j)
    BY <1>2, <1>6 DEF GroupsAreRight, GroupIsRight, Active, At, LeftTo, Contains
  <2>3. Chunks \subseteq DOMAIN sent
    BY <1>1, <1>2, <2>2 DEF Uploaded
  <2>4. ASSUME page' = "redirect", UNCHANGED <<link, outcome>> PROVE IInv'
    <3>1. TransferTypes'
      BY <1>1, <1>2, <1>4, <2>4 DEF TransferTypes, Pages
    <3>2. Phases'
      BY <1>1, <1>2, <1>3, <1>4, <1>5, <2>1, <2>4 DEF Phases, Over
    <3>3. GroupsAreRight'
      BY <1>1, <1>2, <1>5, <2>4 DEF GroupsAreRight, GroupIsRight, Active, No, LeftTo
    <3>4. Uploaded'
      BY <1>1, <1>2, <1>3, <2>3, <2>4 DEF Uploaded
    <3>. QED BY <1>1, <1>5, <2>4, <3>1, <3>2, <3>3, <3>4, PageAlone
  <2>5. ASSUME link' = << [redirect |-> FALSE, chunks |-> Description] >>, outcome' = "ok", page' = "done"
        PROVE  IInv'
    <3>1. TransferTypes'
      BY <1>1, <1>2, <1>4, <2>5 DEF TransferTypes, Pages
    <3>2. Phases'
      BY <1>1, <1>2, <1>3, <1>4, <1>5, <2>1, <2>5 DEF Phases, Over
    <3>3. GroupsAreRight'
      <4>1. \A s \in Server : GroupIsRight(s)'
        BY <1>1, <1>2, <1>6 DEF GroupsAreRight, GroupIsRight, Active, At
      <4>. QED BY <1>1, <1>2, <4>1 DEF GroupsAreRight, LeftTo
    <3>4. Uploaded'
      <4>1. link'[1].redirect = FALSE /\ link'[1].chunks = [i \in Chunks |-> sent[i]]
        BY <2>5 DEF Description
      <4>2. Resolved' = [i \in Chunks |-> sent'[i]]
        BY <1>1, <4>1 DEF Resolved
      <4>. QED BY <1>1, <1>2, <2>3, <2>5, <4>1, <4>2 DEF Uploaded
    <3>. QED BY <1>1, <1>5, <2>1, <2>5, <3>1, <3>2, <3>3, <3>4, PageAlone
  <2>. QED BY <1>1, <1>3, <1>6, <2>4, <2>5 DEF UploadSettles, At
<1>7. CASE (\E s \in Server : At(s, "failed")) /\ outcome' = "error" /\ page' = "failed" /\ UNCHANGED link
  <2>1. Excuse
    BY <1>2, <1>7 DEF GroupsAreRight, GroupIsRight, At
  <2>2. TransferTypes'
    BY <1>1, <1>2, <1>4, <1>7 DEF TransferTypes, Pages
  <2>3. Phases'
    BY <1>1, <1>2, <1>3, <1>4, <1>5, <1>7, <2>1 DEF Phases, Over
  <2>4. GroupsAreRight'
    BY <1>1, <1>2, <1>5, <1>7 DEF GroupsAreRight, GroupIsRight, Active, No, LeftTo
  <2>5. Uploaded'
    BY <1>1, <1>2, <1>3, <1>7 DEF Uploaded
  <2>. QED BY <1>1, <1>5, <1>7, <2>2, <2>3, <2>4, <2>5, PageAlone
<1>. QED BY <1>6, <1>7 DEF UploadSettles

(* uploadRedirectDescription. *)
LEMMA UploadRedirectStep ==
  ASSUME IInv, UploadRedirect
  PROVE  IInv'
<1>1. page = "redirect" /\ UNCHANGED workerVars /\ UNCHANGED <<group, store, sent, result, deleting>>
  BY DEF UploadRedirect
<1>2. TransferTypes /\ GroupsAreRight /\ Uploaded /\ Phases /\ faults \in Nat
  BY DEF IInv, TransferTypes
<1>3. /\ outcome = "none" /\ link = <<>> /\ deleting = 0 /\ result = <<>> /\ worker # "terminated" /\ AllDone
  BY <1>1, <1>2 DEF Phases, Over
<1>4. UNCHANGED <<worker, swept, w>>
  BY <1>1 DEF workerVars
<1>5. AllDone' <=> AllDone
  BY <1>1 DEF AllDone, Active
<1>6. Chunks \subseteq DOMAIN sent
  BY <1>1, <1>2 DEF Uploaded
<1>7. ASSUME inner' = << Description >>, link' = << [redirect |-> TRUE, chunks |-> <<>>] >>,
             outcome' = "ok", page' = "done", UNCHANGED faults
      PROVE  IInv'
  <2>0. Excuse' <=> Excuse
    BY <1>4, <1>7 DEF Excuse
  <2>1. TransferTypes'
    BY <1>1, <1>2, <1>4, <1>7 DEF TransferTypes, Pages
  <2>2. Phases'
    BY <1>1, <1>2, <1>3, <1>4, <1>5, <1>7 DEF Phases, Over
  <2>3. GroupsAreRight'
    <3>1. \A s \in Server : GroupIsRight(s)'
      BY <1>1, <1>2, <1>3, <1>7 DEF GroupsAreRight, GroupIsRight, Active, AllDone
    <3>. QED BY <1>1, <1>2, <3>1 DEF GroupsAreRight, LeftTo
  <2>4. Uploaded'
    <3>1. link'[1].redirect = TRUE /\ inner'[1] = [i \in Chunks |-> sent[i]]
      BY <1>7 DEF Description
    <3>2. Resolved' = [i \in Chunks |-> sent'[i]]
      BY <1>1, <3>1 DEF Resolved
    <3>. QED BY <1>1, <1>2, <1>6, <1>7, <3>1, <3>2 DEF Uploaded
  <2>. QED BY <1>1, <1>3, <1>7, <2>0, <2>1, <2>2, <2>3, <2>4, PageAlone
<1>8. ASSUME Fault, outcome' = "error", page' = "failed", UNCHANGED <<inner, link>>
      PROVE  IInv'
  <2>0. faults' \in Nat /\ faults' > 0
    BY <1>2, <1>8 DEF Fault
  <2>1. Excuse'
    BY <2>0 DEF Excuse
  <2>2. TransferTypes'
    BY <1>1, <1>2, <1>4, <1>8, <2>0 DEF TransferTypes, Pages
  <2>3. Phases'
    BY <1>1, <1>2, <1>3, <1>4, <1>5, <1>8, <2>1 DEF Phases, Over
  <2>4. GroupsAreRight'
    BY <1>1, <1>2, <1>8, <2>0, <2>1 DEF GroupsAreRight, GroupIsRight, Active, No, LeftTo
  <2>5. Uploaded'
    BY <1>1, <1>2, <1>3, <1>8 DEF Uploaded
  <2>. QED BY <1>1, <1>8, <2>1, <2>2, <2>3, <2>4, <2>5, PageAlone
<1>. QED BY <1>7, <1>8 DEF UploadRedirect

(* Promise.all of the download, when a group failed. *)
LEMMA DownloadRejectsStep ==
  ASSUME IInv, DownloadRejects
  PROVE  IInv'
<1>1. /\ page = "fetching" /\ page' = "failed" /\ outcome' = "error" /\ UNCHANGED workerVars
      /\ UNCHANGED <<group, store, sent, inner, link, result, deleting, faults>>
  BY DEF DownloadRejects
<1>2. TransferTypes /\ GroupsAreRight /\ Uploaded /\ Phases
  BY DEF IInv
<1>3. UNCHANGED <<worker, swept, w>>
  BY <1>1 DEF workerVars
<1>4. (AllDone' <=> AllDone) /\ (Excuse' <=> Excuse)
  BY <1>1, <1>3 DEF AllDone, Active, Excuse
<1>5. Excuse
  BY <1>2 DEF DownloadRejects, GroupsAreRight, GroupIsRight, At
<1>6. TransferTypes'
  BY <1>1, <1>2, <1>3 DEF TransferTypes, Pages
<1>7. Phases'
  BY <1>1, <1>2, <1>3, <1>4, <1>5 DEF Phases, Over
<1>8. GroupsAreRight'
  BY <1>1, <1>2, <1>4 DEF GroupsAreRight, GroupIsRight, Active, No, LeftTo
<1>9. Uploaded'
  BY <1>1, <1>2 DEF Uploaded, Resolved
<1>. QED BY <1>1, <1>4, <1>6, <1>7, <1>8, <1>9, PageAlone

(* Every chunk is in exactly one of the groups that are made. *)
LEMMA FreshGroups ==
  ASSUME NEW assign, \A i \in Chunks : assign[i] \in Server,
         group' = [s \in Server |-> Group(assign, s)]
  PROVE  /\ GroupsAreRight' /\ group' \in [Server -> GroupRecords]
         /\ \A s \in Server : group'[s].pc \in {"done", "next"}
         /\ \A i \in Chunks : \E s \in Server : LeftTo(s, i)'
<1>1. ASSUME NEW s \in Server
      PROVE  /\ group'[s] \in GroupRecords /\ group'[s].data = <<>>
             /\ group'[s].pc = IF group'[s].todo = <<>> THEN "done" ELSE "next"
             /\ Increases(group'[s].todo)
             /\ \A i \in Chunks : LeftTo(s, i)' <=> assign[i] = s
  <2>1. group'[s] = Group(assign, s)
    OBVIOUS
  <2> DEFINE g == Group(assign, s)
  <2>2. /\ g \in GroupRecords /\ g.data = <<>>
        /\ g.pc = IF g.todo = <<>> THEN "done" ELSE "next"
        /\ Increases(g.todo)
        /\ \A i \in Chunks : Contains(g.todo, i) <=> assign[i] = s
    BY GroupIs
  <2> HIDE DEF g
  <2>3. group'[s] = g
    BY <2>1 DEF g
  <2>. QED BY <2>2, <2>3 DEF LeftTo
<1>2. \A s \in Server : GroupIsRight(s)'
  <2> TAKE s \in Server
  <2>1. group'[s].pc \in {"done", "next"} /\ (group'[s].pc # "done" <=> group'[s].todo # <<>>)
    BY <1>1
  <2>2. \A i, j \in DOMAIN group'[s].todo : i < j => group'[s].todo[i] < group'[s].todo[j]
    BY <1>1 DEF Increases
  <2>. QED BY <2>1, <2>2 DEF GroupIsRight, Active
<1>3. group' \in [Server -> GroupRecords]
  <2>1. group' = [s \in Server |-> group'[s]]
    OBVIOUS
  <2>. QED BY <1>1, <2>1
<1>4. \A s, t \in Server : \A i \in Chunks : LeftTo(s, i)' /\ LeftTo(t, i)' => s = t
  BY <1>1
<1>5. GroupsAreRight'
  BY <1>2, <1>4 DEF GroupsAreRight
<1>. QED BY <1>1, <1>3, <1>5

(* The groups of a download begin. *)
LEMMA FetchingBegins ==
  ASSUME IInv, page \in {"link", "resolve"}, page' = "fetching", group' = Groups(Resolved),
         UNCHANGED workerVars, UNCHANGED <<outcome, store, sent, inner, link, result, deleting, faults>>
  PROVE  IInv'
<1>1. /\ WorkerTypes /\ Pending /\ Waiting /\ InTurn /\ Letters /\ Working /\ FilesAreRight
      /\ TransferTypes /\ GroupsAreRight /\ Uploaded /\ Phases
  BY DEF IInv
<1>2. UNCHANGED <<worker, ready, pending, nextId, inbox, running, outbox, w, opfs, shorts, swept>>
  BY DEF workerVars
<1>3. AllDone /\ link # <<>> /\ result = <<>> /\ outcome = "none" /\ worker # "terminated"
  BY <1>1 DEF Phases, Over
<1>4. Excuse' <=> Excuse
  BY <1>2 DEF Excuse
<1> DEFINE assign == [i \in Chunks |-> Resolved[i].server]
<1>5. \A i \in Chunks : assign[i] \in Server
  <2>1. \A i \in Chunks : Resolved[i] = sent[i] /\ i \in DOMAIN sent
    BY <1>1, <1>3 DEF Uploaded
  <2>. QED BY <1>1, <2>1 DEF TransferTypes
<1>6. group' = [s \in Server |-> Group(assign, s)]
  BY DEF Groups
<1> HIDE DEF assign
<1>7. /\ GroupsAreRight' /\ group' \in [Server -> GroupRecords]
      /\ \A s \in Server : group'[s].pc \in {"done", "next"}
      /\ \A i \in Chunks : \E s \in Server : LeftTo(s, i)'
  BY <1>5, <1>6, FreshGroups
<1>8. TransferTypes'
  BY <1>1, <1>2, <1>7 DEF TransferTypes, Pages
<1>9. Phases'
  BY <1>1, <1>2, <1>3, <1>4 DEF Phases, Over
<1>10. Uploaded'
  BY <1>1, <1>3 DEF Uploaded, Resolved
<1>11. \A s \in Server : group[s].pc \notin {"read", "storing"}
  BY <1>3 DEF AllDone, Active
<1>12. /\ WorkerTypes' /\ Pending' /\ Waiting' /\ InTurn' /\ Letters'
       /\ Queued' = Queued /\ Requested' = Requested
  BY <1>1, <1>3, <1>4, <1>11, MailStays
<1>13. w = FreshWorker
  BY <1>1 DEF FilesAreRight
<1>14. Fallen' <=> Fallen
  BY <1>2 DEF Fallen
<1>15. FilesAreRight'
  BY <1>1, <1>2, <1>13, <1>14, FilesStay
<1>16. (\E m \in Queued' : m.type = "verifyAndDecrypt") => AllKept
  BY <1>1, <1>12 DEF Working
<1>17. Working'
  BY <1>1, <1>2, <1>7, <1>16, WorkingStays
<1>. QED BY <1>7, <1>8, <1>9, <1>10, <1>12, <1>15, <1>17 DEF IInv

(* downloadFileRaw. *)
LEMMA StartDownloadStep ==
  ASSUME IInv, StartDownload
  PROVE  IInv'
<1>1. /\ page = "link" /\ UNCHANGED workerVars /\ UNCHANGED <<outcome, store, sent, inner, link, result, deleting, faults>>
  BY DEF StartDownload
<1>2. TransferTypes /\ GroupsAreRight /\ Uploaded /\ Phases /\ FilesAreRight
  BY DEF IInv
<1>3. UNCHANGED <<worker, swept, w>>
  BY <1>1 DEF workerVars
<1>4. CASE link[1].redirect /\ page' = "resolve" /\ UNCHANGED group
  <2>1. (AllDone' <=> AllDone) /\ (Excuse' <=> Excuse)
    BY <1>1, <1>3, <1>4 DEF AllDone, Active, Excuse
  <2>2. TransferTypes'
    BY <1>1, <1>2, <1>3, <1>4 DEF TransferTypes, Pages
  <2>3. Phases'
    BY <1>1, <1>2, <1>3, <1>4, <2>1 DEF Phases, Over
  <2>4. GroupsAreRight'
    BY <1>1, <1>2, <1>4, <2>1 DEF GroupsAreRight, GroupIsRight, Active, No, LeftTo
  <2>5. Uploaded'
    BY <1>1, <1>2, <1>4 DEF Uploaded, Resolved
  <2>6. w = FreshWorker
    BY <1>1, <1>2 DEF FilesAreRight
  <2>. QED BY <1>1, <1>4, <2>1, <2>2, <2>3, <2>4, <2>5, <2>6, PageAlone
<1>5. CASE ~link[1].redirect /\ page' = "fetching" /\ group' = Groups(link[1].chunks)
  <2>1. Resolved = link[1].chunks
    BY <1>5 DEF Resolved
  <2>. QED BY <1>1, <1>5, <2>1, FetchingBegins
<1>. QED BY <1>4, <1>5 DEF StartDownload

(* resolveRedirect. *)
LEMMA ResolveRedirectStep ==
  ASSUME IInv, ResolveRedirect
  PROVE  IInv'
<1>1. page = "resolve" /\ UNCHANGED workerVars /\ UNCHANGED <<store, sent, inner, link, result, deleting>>
  BY DEF ResolveRedirect
<1>2. TransferTypes /\ GroupsAreRight /\ Uploaded /\ Phases /\ FilesAreRight /\ faults \in Nat
  BY DEF IInv, TransferTypes
<1>3. UNCHANGED <<worker, swept, w>>
  BY <1>1 DEF workerVars
<1>0. w = FreshWorker
  BY <1>1, <1>2 DEF FilesAreRight
<1>4. CASE page' = "fetching" /\ group' = Groups(inner[1]) /\ UNCHANGED <<outcome, faults>>
  <2>1. CASE link[1].redirect
    <3>1. Resolved = inner[1]
      BY <2>1 DEF Resolved
    <3>. QED BY <1>1, <1>4, <3>1, FetchingBegins
  <2>2. CASE ~link[1].redirect
    BY <1>1, <1>2, <2>2 DEF Uploaded
  <2>. QED BY <2>1, <2>2
<1>5. CASE Fault /\ page' = "failed" /\ outcome' = "error" /\ UNCHANGED group
  <2>0. faults' \in Nat /\ faults' > 0
    BY <1>2, <1>5 DEF Fault
  <2>1. Excuse' /\ (AllDone' <=> AllDone)
    BY <1>5, <2>0 DEF Excuse, AllDone, Active
  <2>2. TransferTypes'
    BY <1>1, <1>2, <1>3, <1>5, <2>0 DEF TransferTypes, Pages
  <2>3. Phases'
    BY <1>1, <1>2, <1>3, <1>5, <2>0, <2>1 DEF Phases, Over
  <2>4. GroupsAreRight'
    BY <1>1, <1>2, <1>5, <2>0, <2>1 DEF GroupsAreRight, GroupIsRight, Active, No, LeftTo
  <2>5. Uploaded'
    BY <1>1, <1>2, <1>5 DEF Uploaded, Resolved
  <2>. QED BY <1>1, <1>5, <2>1, <2>2, <2>3, <2>4, <2>5, PageAlone
<1>. QED BY <1>4, <1>5 DEF ResolveRedirect

-----------------------------------------------------------------------------
(* Requests.                                                                 *)

(* What asking posts. *)
LEMMA AskPosts ==
  ASSUME WorkerTypes, NEW owner, NEW type \in Requests, NEW no \in Nat, NEW off \in Nat, NEW size \in Nat,
         NEW body \in Bodies, Asks(owner, type, no, off, size, body)
  PROVE  /\ Posts(owner, Message(nextId, type, no, off, size, body))
         /\ Message(nextId, type, no, off, size, body) \in Messages
         /\ Message(nextId, type, no, off, size, body).id = nextId
         /\ UNCHANGED <<worker, ready, running, outbox, w, opfs, shorts, swept>>
<1>1. nextId \in Nat
  BY DEF WorkerTypes
<1>2. Message(nextId, type, no, off, size, body) \in Messages
  BY <1>1 DEF Messages, Message
<1>. QED BY <1>2 DEF Asks, Send, Posts, Message

(* The page asks the worker. *)
LEMMA PagePosts ==
  ASSUME IInv, NEW msg \in Messages, msg.id = nextId, Posts("page", msg),
         UNCHANGED <<worker, ready, running, outbox, w, opfs, shorts, swept>>,
         UNCHANGED <<outcome, group, store, sent, inner, link, result, deleting, faults>>,
         page \notin {"encrypting", "verifying", "cleaning"}, page' \in {"encrypting", "verifying", "cleaning"},
         Phases',
         page' = "encrypting" => msg.type = "encrypt" /\ ~w.uploadRead,
         page' = "verifying" => msg.type = "verifyAndDecrypt" /\ AllKept /\ page = "fetching",
         page' = "cleaning" => msg.type = "cleanup"
  PROVE  IInv'
<1>1. /\ WorkerTypes /\ Pending /\ Waiting /\ InTurn /\ Letters /\ Working /\ FilesAreRight
      /\ TransferTypes /\ GroupsAreRight /\ Uploaded /\ Phases
  BY DEF IInv
<1>2. ASSUME NEW id \in DOMAIN pending PROVE pending[id] \in Server /\ pending[id] # "page"
  <2>1. Waits(pending[id]) /\ pending[id] \in Owners
    BY <1>1 DEF Waiting, Pending
  <2>. QED BY <2>1, TransferConstants DEF Waits, Owners
<1>3. /\ Pending' /\ InTurn'
      /\ inbox' \in Seq(Messages) /\ nextId' \in Nat \ {0}
      /\ \A id \in DOMAIN pending : id \in DOMAIN pending' /\ pending'[id] = pending[id]
      /\ pending'[nextId] = "page" /\ DOMAIN pending' = DOMAIN pending \cup {nextId}
      /\ Queued' \subseteq Queued \cup {msg} /\ Requested' \subseteq Requested \cup {msg}
      /\ Replies' = Replies
  <2>1. "page" \in Owners
    BY DEF Owners
  <2>. QED BY <1>1, <1>2, <2>1, PostKeepsTurn
<1>4. (Excuse' <=> Excuse) /\ (Fallen' <=> Fallen) /\ (AllDone' <=> AllDone)
  BY DEF Excuse, Fallen, AllDone, Active
<1>5. TransferTypes' /\ WorkerTypes'
  <2>1. TransferTypes'
    BY <1>1 DEF TransferTypes, Pages
  <2>. QED BY <1>1, <1>3, <2>1 DEF WorkerTypes
<1>6. GroupsAreRight'
  BY <1>1, <1>4 DEF GroupsAreRight, GroupIsRight, Active, No, LeftTo
<1>7. Uploaded'
  BY <1>1 DEF Uploaded, Resolved
<1>8. Waiting'
  <2>1. \A id \in DOMAIN pending : pending'[id] \in Server /\ pending'[id] # "page" /\ group'[pending'[id]].pc \in {"read", "storing"}
    BY <1>1, <1>2, <1>3 DEF Waiting, Waits
  <2>. QED BY <1>3, <2>1 DEF Waiting, Waits
<1>9. Letters'
  <2>1. ASSUME NEW m \in Requested PROVE Asked(m)'
    <3>1. Asked(m) /\ m.id \in DOMAIN pending
      BY <1>1 DEF Letters, Requested, Queued, InTurn
    <3>2. pending'[m.id] = pending[m.id] /\ pending[m.id] # "page"
      BY <1>2, <1>3, <3>1
    <3>. QED BY <3>1, <3>2, AskedStays
  <2>2. Asked(msg)'
    BY <1>3, TransferConstants DEF Asked
  <2>3. ASSUME NEW a \in Replies PROVE Told(a)'
    <3>1. Told(a) /\ a.id \in DOMAIN pending
      BY <1>1 DEF Letters, Replies, InTurn
    <3>2. pending'[a.id] = pending[a.id] /\ pending[a.id] # "page"
      BY <1>2, <1>3, <3>1
    <3>. QED BY <1>4, <3>1, <3>2, ToldStays
  <2>. QED BY <1>3, <2>1, <2>2, <2>3 DEF Letters
<1>10. FilesAreRight'
  <2>1. Unverified' => Unverified
    BY <1>3, <1>4 DEF Unverified
  <2>. QED BY <1>1, <1>4, <2>1, FilesStay
<1>11. Working'
  <2>1. (\E m \in Queued' : m.type = "verifyAndDecrypt") => AllKept
    BY <1>1, <1>3 DEF Working
  <2>. QED BY <1>1, <2>1, WorkingStays
<1>. QED BY <1>3, <1>5, <1>6, <1>7, <1>8, <1>9, <1>10, <1>11 DEF IInv

(* The page asks for the encrypted file. *)
LEMMA EncryptStep ==
  ASSUME IInv, Encrypt
  PROVE  IInv'
<1>1. page = "file" /\ page' = "encrypting" /\ Asks("page", "encrypt", 0, 0, 0, <<>>)
      /\ UNCHANGED <<outcome, group, store, sent, inner, link, result, deleting, faults>>
  BY DEF Encrypt
<1>2. WorkerTypes /\ Phases /\ FilesAreRight
  BY DEF IInv
<1> DEFINE msg == Message(nextId, "encrypt", 0, 0, 0, <<>>)
<1>3. /\ Posts("page", msg) /\ msg \in Messages /\ msg.id = nextId
      /\ UNCHANGED <<worker, ready, running, outbox, w, opfs, shorts, swept>>
  <2>1. "encrypt" \in Requests /\ <<>> \in Bodies
    BY DEF Requests, Bodies
  <2>. QED BY <1>1, <1>2, <2>1, AskPosts
<1>4. msg.type = "encrypt"
  BY DEF Message
<1> HIDE DEF msg
<1>5. (AllDone' <=> AllDone) /\ (Excuse' <=> Excuse)
  BY <1>1, <1>3 DEF AllDone, Active, Excuse
<1>6. Phases'
  BY <1>1, <1>2, <1>3, <1>5 DEF Phases, Over
<1>7. ~w.uploadRead
  BY <1>1, <1>2 DEF FilesAreRight
<1>. QED BY <1>1, <1>3, <1>4, <1>6, <1>7, PagePosts

(* Every chunk is stored when the page asks to verify. *)
LEMMA VerifyStep ==
  ASSUME IInv, Verify
  PROVE  IInv'
<1>1. page = "fetching" /\ page' = "verifying" /\ Asks("page", "verifyAndDecrypt", 0, 0, 0, <<>>)
      /\ (\A s \in Server : group[s].pc = "done")
      /\ UNCHANGED <<outcome, group, store, sent, inner, link, result, deleting, faults>>
  BY DEF Verify, At
<1>2. WorkerTypes /\ Phases /\ Working /\ GroupsAreRight
  BY DEF IInv
<1> DEFINE msg == Message(nextId, "verifyAndDecrypt", 0, 0, 0, <<>>)
<1>3. /\ Posts("page", msg) /\ msg \in Messages /\ msg.id = nextId
      /\ UNCHANGED <<worker, ready, running, outbox, w, opfs, shorts, swept>>
  <2>1. "verifyAndDecrypt" \in Requests /\ <<>> \in Bodies
    BY DEF Requests, Bodies
  <2>. QED BY <1>1, <1>2, <2>1, AskPosts
<1>4. msg.type = "verifyAndDecrypt"
  BY DEF Message
<1> HIDE DEF msg
<1>5. AllDone /\ AllDone' /\ (Excuse' <=> Excuse)
  BY <1>1, <1>3 DEF AllDone, Active, Excuse
<1>6. Phases'
  BY <1>1, <1>2, <1>3, <1>5 DEF Phases, Over
<1>7. AllKept
  <2>1. \A s \in Server, i \in Chunks : ~LeftTo(s, i)
    BY <1>1, <1>2 DEF GroupsAreRight, GroupIsRight, Active, LeftTo, Contains
  <2>. QED BY <1>1, <1>2, <2>1 DEF Working, AllKept
<1>. QED BY <1>1, <1>3, <1>4, <1>6, <1>7, PagePosts

(* The end of a transfer. *)
LEMMA CleanupStep ==
  ASSUME IInv, Cleanup
  PROVE  IInv'
<1>1. page \in {"done", "failed"} /\ page' = "cleaning" /\ Asks("page", "cleanup", 0, 0, 0, <<>>)
      /\ UNCHANGED <<outcome, group, store, sent, inner, link, result, deleting, faults>>
  BY DEF Cleanup
<1>2. WorkerTypes /\ Phases
  BY DEF IInv
<1> DEFINE msg == Message(nextId, "cleanup", 0, 0, 0, <<>>)
<1>3. /\ Posts("page", msg) /\ msg \in Messages /\ msg.id = nextId
      /\ UNCHANGED <<worker, ready, running, outbox, w, opfs, shorts, swept>>
  <2>1. "cleanup" \in Requests /\ <<>> \in Bodies
    BY DEF Requests, Bodies
  <2>. QED BY <1>1, <1>2, <2>1, AskPosts
<1>4. msg.type = "cleanup"
  BY DEF Message
<1> HIDE DEF msg
<1>5. (AllDone' <=> AllDone) /\ (Excuse' <=> Excuse)
  BY <1>1, <1>3 DEF AllDone, Active, Excuse
<1>6. Phases'
  BY <1>1, <1>2, <1>3, <1>5 DEF Phases, Over
<1>. QED BY <1>1, <1>3, <1>4, <1>6, PagePosts

(* A group asks the worker. *)
LEMMA GroupPosts ==
  ASSUME IInv, NEW s \in Server, NEW msg \in Messages, msg.id = nextId, Posts(s, msg),
         UNCHANGED <<worker, ready, running, outbox, w, opfs, shorts, swept>>,
         UNCHANGED <<page, outcome, store, sent, inner, link, result, deleting, faults>>,
         group[s].pc \in {"next", "store"}, NEW pc \in {"read", "storing"},
         group' = [group EXCEPT ![s].pc = pc],
         pc = "read" => /\ link = <<>> /\ msg.type = "readChunk"
                        /\ msg.off = Offset(No(s)) /\ msg.size = Size[No(s)],
         pc = "storing" => /\ group[s].pc = "store" /\ msg.type = "decryptAndStoreChunk"
                           /\ msg.no = No(s) /\ msg.body = group[s].data
  PROVE  IInv'
<1>1. /\ WorkerTypes /\ Pending /\ Waiting /\ InTurn /\ Letters /\ Working /\ FilesAreRight
      /\ TransferTypes /\ GroupsAreRight /\ Uploaded /\ Phases /\ GroupIsRight(s) /\ faults \in Nat
  BY DEF IInv, GroupsAreRight, TransferTypes
<1>2. Active(s)
  BY DEF Active
<1>3. /\ group[s] \in GroupRecords /\ group[s].todo \in Seq(Chunks) /\ group[s].todo # <<>>
      /\ Increases(group[s].todo) /\ No(s) \in Chunks /\ LeftTo(s, No(s))
  BY <1>1, <1>2, FirstIs
<1>4. /\ group \in [Server -> GroupRecords] /\ store \in Seq([server : Server, no : Chunks, data : Bodies])
      /\ DOMAIN sent \subseteq Chunks /\ \A i \in DOMAIN sent : sent[i] \in [server : Server, id : Nat]
  BY <1>1 DEF TransferTypes
<1> DEFINE g == [group[s] EXCEPT !.pc = pc]
<1>5. group' = [group EXCEPT ![s] = g]
  BY <1>4
<1>6. g \in GroupRecords /\ g.todo = group[s].todo /\ g.pc = pc /\ g.data = group[s].data
  BY <1>3 DEF GroupRecords, Steps
<1> HIDE DEF g
<1>7. group'[s] = g /\ No(s)' = No(s)
  BY <1>4, <1>5, <1>6 DEF No
<1>8. GroupIsRight(s)'
  <2>1. \A i, j \in DOMAIN g.todo : i < j => g.todo[i] < g.todo[j]
    BY <1>3, <1>6 DEF Increases
  <2>2. g.pc # "done" /\ g.todo # <<>>
    BY <1>3, <1>6
  <2>3. pc = "storing" => link # <<>> /\ (g.data = Cells(No(s)) \/ faults > 0)
    BY <1>1, <1>6 DEF GroupIsRight
  <2>. QED BY <1>6, <1>7, <2>1, <2>2, <2>3 DEF GroupIsRight, Active
<1>9. \A id \in DOMAIN pending : pending[id] # s /\ pending[id] \in Owners /\ Waits(pending[id])
  <2>1. s # "page"
    BY TransferConstants
  <2>. QED BY <1>1, <2>1 DEF Waiting, Waits, Pending
<1>10. /\ Pending' /\ InTurn'
       /\ inbox' \in Seq(Messages) /\ nextId' \in Nat \ {0}
       /\ \A id \in DOMAIN pending : id \in DOMAIN pending' /\ pending'[id] = pending[id]
       /\ pending'[nextId] = s /\ DOMAIN pending' = DOMAIN pending \cup {nextId}
       /\ Queued' \subseteq Queued \cup {msg} /\ Requested' \subseteq Requested \cup {msg}
       /\ Replies' = Replies
  <2>1. s \in Owners
    BY DEF Owners
  <2>. QED BY <1>1, <1>9, <2>1, PostKeepsTurn
<1>11. /\ TransferTypes' /\ Phases' /\ GroupsAreRight' /\ FilesAreRight'
       /\ group'[s] = g /\ (\A t \in Server : t # s => group'[t] = group[t])
       /\ \A t \in Server, i \in Chunks : LeftTo(t, i)' => LeftTo(t, i)
  <2>1. \A i \in Chunks : Contains(g.todo, i) => LeftTo(s, i)
    BY <1>6 DEF LeftTo
  <2>2. \A m \in Queued' : m.type = "verifyAndDecrypt" => m \in Queued
    BY <1>10
  <2>3. faults' \in Nat /\ faults <= faults'
    BY <1>1
  <2>. QED BY <1>2, <1>4, <1>5, <1>6, <1>8, <2>1, <2>2, <2>3, GroupStep
<1>12. \A t \in Server, i \in Chunks : LeftTo(t, i)' <=> LeftTo(t, i)
  BY <1>6, <1>11 DEF LeftTo
<1>13. WorkerTypes' /\ (Excuse' <=> Excuse)
  BY <1>1, <1>10 DEF WorkerTypes, Excuse
<1>14. Uploaded'
  BY <1>1, <1>12 DEF Uploaded, Resolved
<1>15. \A id \in DOMAIN pending : pending[id] \in Server => group'[pending[id]] = group[pending[id]]
  BY <1>9, <1>11
<1>16. Waiting'
  <2>1. ASSUME NEW id \in DOMAIN pending
        PROVE  IF pending'[id] = "page" THEN page' \in {"encrypting", "verifying", "cleaning"}
               ELSE group'[pending'[id]].pc \in {"read", "storing"}
    BY <1>9, <1>10, <1>15 DEF Waits, Owners
  <2>2. pending'[nextId] # "page" /\ group'[pending'[nextId]].pc \in {"read", "storing"}
    BY <1>6, <1>7, <1>10, TransferConstants
  <2>. QED BY <1>10, <2>1, <2>2 DEF Waiting, Waits
<1>17. Letters'
  <2>1. ASSUME NEW m \in Requested PROVE Asked(m)'
    <3>1. Asked(m) /\ m.id \in DOMAIN pending
      BY <1>1 DEF Letters, Requested, Queued, InTurn
    <3>2. pending'[m.id] = pending[m.id]
      BY <1>10, <3>1
    <3>. QED BY <1>15, <3>1, <3>2, AskedStays
  <2>2. Asked(msg)'
    BY <1>6, <1>7, <1>10, TransferConstants DEF Asked
  <2>3. ASSUME NEW a \in Replies PROVE Told(a)'
    <3>1. Told(a) /\ a.id \in DOMAIN pending
      BY <1>1 DEF Letters, Replies, InTurn
    <3>2. pending'[a.id] = pending[a.id]
      BY <1>10, <3>1
    <3>3. ASSUME pending[a.id] \in Server, page' = "fetching"
          PROVE  page = "fetching" /\ (Kept(No(pending[a.id])) => Kept(No(pending[a.id]))')
      <4>1. No(pending[a.id])' = No(pending[a.id])
        BY <1>15, <3>1, <3>2, <3>3 DEF No
      <4>. QED BY <3>3, <4>1 DEF Kept, OnDisk
    <3>. QED BY <1>13, <1>15, <3>1, <3>2, <3>3, ToldStays
  <2>. QED BY <1>10, <2>1, <2>2, <2>3 DEF Letters
<1>18. Working'
  <2>1. (\E m \in Queued' : m.type = "verifyAndDecrypt") => AllKept
    BY <1>1, <1>10 DEF Working
  <2>2. page' = "fetching" => \A i \in Chunks : (\A t \in Server : ~LeftTo(t, i)') => Kept(i)
    BY <1>1, <1>12 DEF Working
  <2>. QED BY <1>1, <2>1, <2>2, WorkingStays
<1>. QED BY <1>10, <1>11, <1>13, <1>14, <1>16, <1>17, <1>18 DEF IInv

(* A group asks for the bytes of its chunk. *)
LEMMA ReadChunkStep ==
  ASSUME IInv, NEW s \in Server, ReadChunk(s)
  PROVE  IInv'
<1>1. /\ link = <<>> /\ group[s].pc = "next"
      /\ Asks(s, "readChunk", 0, Offset(No(s)), Size[No(s)], <<>>)
      /\ group' = [group EXCEPT ![s].pc = "read"]
      /\ UNCHANGED <<page, outcome, store, sent, inner, link, result, deleting, faults>>
  BY DEF ReadChunk, Uploading, At, Go
<1>2. WorkerTypes /\ TransferTypes /\ GroupsAreRight
  BY DEF IInv
<1>3. No(s) \in Chunks
  BY <1>1, <1>2, FirstIs DEF Active
<1>4. Offset(No(s)) \in Nat /\ Size[No(s)] \in Nat
  BY <1>3, EncLayout, Sizes
<1> DEFINE msg == Message(nextId, "readChunk", 0, Offset(No(s)), Size[No(s)], <<>>)
<1>5. /\ Posts(s, msg) /\ msg \in Messages /\ msg.id = nextId
      /\ UNCHANGED <<worker, ready, running, outbox, w, opfs, shorts, swept>>
  <2>1. "readChunk" \in Requests /\ <<>> \in Bodies
    BY DEF Requests, Bodies
  <2>. QED BY <1>1, <1>2, <1>4, <2>1, AskPosts
<1>6. msg.type = "readChunk" /\ msg.off = Offset(No(s)) /\ msg.size = Size[No(s)]
  BY DEF Message
<1> HIDE DEF msg
<1>. QED BY <1>1, <1>5, <1>6, GroupPosts

(* A group hands over what it has downloaded. *)
LEMMA StoreChunkStep ==
  ASSUME IInv, NEW s \in Server, StoreChunk(s)
  PROVE  IInv'
<1>1. /\ group[s].pc = "store"
      /\ Asks(s, "decryptAndStoreChunk", No(s), 0, 0, group[s].data)
      /\ group' = [group EXCEPT ![s].pc = "storing"]
      /\ UNCHANGED <<page, outcome, store, sent, inner, link, result, deleting, faults>>
  BY DEF StoreChunk, At, Go
<1>2. WorkerTypes /\ TransferTypes /\ GroupsAreRight
  BY DEF IInv
<1>3. No(s) \in Chunks /\ group[s] \in GroupRecords
  BY <1>1, <1>2, FirstIs DEF Active
<1>4. No(s) \in Nat /\ group[s].data \in Bodies
  BY <1>3, Sizes DEF GroupRecords
<1> DEFINE msg == Message(nextId, "decryptAndStoreChunk", No(s), 0, 0, group[s].data)
<1>5. /\ Posts(s, msg) /\ msg \in Messages /\ msg.id = nextId
      /\ UNCHANGED <<worker, ready, running, outbox, w, opfs, shorts, swept>>
  <2>1. "decryptAndStoreChunk" \in Requests
    BY DEF Requests
  <2>. QED BY <1>1, <1>2, <1>4, <2>1, AskPosts
<1>6. msg.type = "decryptAndStoreChunk" /\ msg.no = No(s) /\ msg.body = group[s].data
  BY DEF Message
<1> HIDE DEF msg
<1>. QED BY <1>1, <1>5, <1>6, GroupPosts

-----------------------------------------------------------------------------
(* Answers.                                                                  *)

(* What is answered to the one who asked is true. *)
LEMMA AnsweredIs ==
  ASSUME IInv, NEW owner, Answered(owner)
  PROVE  /\ Pending' /\ InTurn' /\ WorkerTypes'
         /\ Received \in Answers /\ Received.id \in DOMAIN pending /\ pending[Received.id] = owner
         /\ Told(Received)
         /\ DOMAIN pending' = DOMAIN pending \ {Received.id}
         /\ (\A id \in DOMAIN pending' : pending'[id] = pending[id] /\ pending[id] # owner
                                         /\ pending[id] \in Owners /\ Waits(pending[id]))
         /\ Queued' = Queued /\ Requested' = Requested /\ Replies' \subseteq Replies
         /\ (\A m \in Requested' : m.id \in DOMAIN pending' /\ Asked(m))
         /\ (\A a \in Replies' : a.id \in DOMAIN pending' /\ Told(a))
         /\ UNCHANGED <<worker, ready, nextId, inbox, running, w, opfs, shorts, swept>>
<1>1. WorkerTypes /\ Pending /\ Waiting /\ InTurn /\ Letters
  BY DEF IInv
<1>2. /\ HandleMessage /\ UNCHANGED <<worker, ready, nextId, inbox, running, w, opfs, shorts, swept>>
      /\ Owner = owner
  BY DEF Answered
<1>3. /\ Pending' /\ InTurn' /\ outbox' \in Seq(Answers)
      /\ Received \in Replies /\ Received \in Answers /\ Received.id \in DOMAIN pending
      /\ DOMAIN pending' = DOMAIN pending \ {Received.id}
      /\ (\A id \in DOMAIN pending' : pending'[id] = pending[id] /\ pending[id] # Owner)
      /\ Queued' = Queued /\ Requested' = Requested /\ Replies' \subseteq Replies
      /\ \A m \in Requested' \cup Replies' : m.id \in DOMAIN pending'
  BY <1>1, <1>2, AnswerKeepsTurn
<1>4. WorkerTypes'
  BY <1>1, <1>2, <1>3 DEF WorkerTypes
<1>5. \A id \in DOMAIN pending' : pending[id] \in Owners /\ Waits(pending[id])
  BY <1>1, <1>3 DEF Pending, Waiting
<1>6. /\ Told(Received)
      /\ \A m \in Requested' : Asked(m)
      /\ \A a \in Replies' : Told(a)
  BY <1>1, <1>3 DEF Letters
<1>7. pending[Received.id] = owner
  BY <1>2 DEF Owner
<1>. QED BY <1>2, <1>3, <1>4, <1>5, <1>6, <1>7

(* A group goes on with what it is answered. *)
LEMMA GroupAnswer ==
  ASSUME IInv, NEW s \in Server, Answered(s), group[s].pc \in {"read", "storing"},
         NEW g \in GroupRecords, group' = [group EXCEPT ![s] = g],
         UNCHANGED <<page, outcome, store, sent, inner, link, result, deleting, faults>>,
         GroupIsRight(s)', \A i \in Chunks : Contains(g.todo, i) => LeftTo(s, i),
         \A i \in Chunks : LeftTo(s, i) /\ ~Contains(g.todo, i) =>
           page # "uploading" /\ (page = "fetching" => Kept(i))
  PROVE  IInv'
<1>1. /\ WorkerTypes /\ Pending /\ Waiting /\ InTurn /\ Letters /\ Working /\ FilesAreRight
      /\ TransferTypes /\ GroupsAreRight /\ Uploaded /\ Phases /\ faults \in Nat
  BY DEF IInv, TransferTypes
<1>2. Active(s)
  BY DEF Active
<1>3. /\ group \in [Server -> GroupRecords] /\ store \in Seq([server : Server, no : Chunks, data : Bodies])
      /\ DOMAIN sent \subseteq Chunks /\ \A i \in DOMAIN sent : sent[i] \in [server : Server, id : Nat]
  BY <1>1 DEF TransferTypes
<1>4. /\ Pending' /\ InTurn' /\ WorkerTypes'
      /\ DOMAIN pending' = DOMAIN pending \ {Received.id}
      /\ (\A id \in DOMAIN pending' : pending'[id] = pending[id] /\ pending[id] # s
                                      /\ pending[id] \in Owners /\ Waits(pending[id]))
      /\ Queued' = Queued /\ Requested' = Requested /\ Replies' \subseteq Replies
      /\ (\A m \in Requested' : m.id \in DOMAIN pending' /\ Asked(m))
      /\ (\A a \in Replies' : a.id \in DOMAIN pending' /\ Told(a))
      /\ UNCHANGED <<worker, ready, nextId, inbox, running, w, opfs, shorts, swept>>
  BY AnsweredIs
<1>5. /\ TransferTypes' /\ Phases' /\ GroupsAreRight' /\ FilesAreRight'
      /\ group'[s] = g /\ (\A t \in Server : t # s => group'[t] = group[t])
      /\ \A t \in Server, i \in Chunks : LeftTo(t, i)' => LeftTo(t, i)
  <2>1. \A m \in Queued' : m.type = "verifyAndDecrypt" => m \in Queued
    BY <1>4
  <2>2. faults' \in Nat /\ faults <= faults'
    BY <1>1
  <2>. QED BY <1>2, <1>3, <1>4, <2>1, <2>2, GroupStep
<1>6. Excuse' <=> Excuse
  BY <1>4 DEF Excuse
<1>7. ASSUME NEW t \in Server, NEW i \in Chunks, LeftTo(t, i), ~LeftTo(t, i)'
      PROVE  page # "uploading" /\ (page = "fetching" => Kept(i))
  <2>1. t = s
    BY <1>5, <1>7 DEF LeftTo
  <2>. QED BY <1>5, <1>7, <2>1 DEF LeftTo
<1>8. Uploaded'
  <2>1. page = "uploading" => \A t \in Server, i \in Chunks : LeftTo(t, i)' <=> LeftTo(t, i)
    BY <1>5, <1>7
  <2>. QED BY <1>1, <2>1 DEF Uploaded, Resolved
<1>9. \A id \in DOMAIN pending' : /\ pending'[id] = pending[id]
                                  /\ pending[id] \in Server => group'[pending[id]] = group[pending[id]]
  BY <1>4, <1>5
<1>10. Waiting'
  <2>1. \A id \in DOMAIN pending' : pending'[id] \in Server => group'[pending'[id]] = group[pending'[id]]
    BY <1>9
  <2>. QED BY <1>4, <2>1 DEF Waiting, Waits, Owners
<1>11. Letters'
  <2>1. ASSUME NEW m \in Requested' PROVE Asked(m)'
    <3>1. Asked(m) /\ m.id \in DOMAIN pending'
      BY <1>4
    <3>. QED BY <1>4, <1>9, <3>1, AskedStays
  <2>2. ASSUME NEW a \in Replies' PROVE Told(a)'
    <3>1. Told(a) /\ a.id \in DOMAIN pending'
      BY <1>4
    <3>2. ASSUME pending[a.id] \in Server, page' = "fetching"
          PROVE  page = "fetching" /\ (Kept(No(pending[a.id])) => Kept(No(pending[a.id]))')
      <4>1. No(pending[a.id])' = No(pending[a.id])
        BY <1>9, <3>1, <3>2 DEF No
      <4>. QED BY <1>4, <3>2, <4>1 DEF Kept, OnDisk
    <3>. QED BY <1>4, <1>6, <1>9, <3>1, <3>2, ToldStays
  <2>. QED BY <2>1, <2>2 DEF Letters
<1>12. Working'
  <2>1. (\E m \in Queued' : m.type = "verifyAndDecrypt") => AllKept
    BY <1>1, <1>4 DEF Working
  <2>2. ASSUME page' = "fetching", NEW i \in Chunks, \A t \in Server : ~LeftTo(t, i)' PROVE Kept(i)
    <3>1. CASE \E t \in Server : LeftTo(t, i)
      BY <1>7, <2>2, <3>1
    <3>2. CASE \A t \in Server : ~LeftTo(t, i)
      BY <1>1, <2>2, <3>2 DEF Working
    <3>. QED BY <3>1, <3>2
  <2>. QED BY <1>1, <1>4, <2>1, <2>2, WorkingStays
<1>. QED BY <1>4, <1>5, <1>8, <1>10, <1>11, <1>12 DEF IInv

(* The bytes of the chunk arrive. *)
LEMMA ChunkReadStep ==
  ASSUME IInv, NEW s \in Server, ChunkRead(s)
  PROVE  IInv'
<1> DEFINE pc == IF Received.type = "error" THEN "failed" ELSE "create"
           g == [group[s] EXCEPT !.pc = pc, !.data = Received.data]
<1>1. /\ group[s].pc = "read" /\ Answered(s)
      /\ group' = [group EXCEPT ![s].pc = pc, ![s].data = Received.data]
      /\ UNCHANGED <<page, outcome, store, sent, inner, link, result, deleting, faults>>
  BY DEF ChunkRead, At
<1>2. TransferTypes /\ GroupsAreRight /\ GroupIsRight(s) /\ Active(s)
  BY <1>1 DEF IInv, GroupsAreRight, Active
<1>3. /\ group[s] \in GroupRecords /\ group[s].todo \in Seq(Chunks) /\ group[s].todo # <<>>
      /\ Increases(group[s].todo) /\ No(s) \in Chunks /\ LeftTo(s, No(s))
  BY <1>2, FirstIs
<1>4. /\ pending[Received.id] = s /\ Told(Received) /\ UNCHANGED <<w, swept>>
  BY <1>1, AnsweredIs
<1>5. \/ Received.type = "chunk" /\ Received.data = Cells(No(s))
      \/ Received.type = "error" /\ Excuse /\ Received.data = <<>>
  BY <1>1, <1>4, TransferConstants DEF Told
<1>6. Received.data \in Bodies
  BY <1>3, <1>5 DEF Bodies
<1>7. group' = [group EXCEPT ![s] = g]
  BY <1>1, <1>2 DEF TransferTypes
<1>8. g \in GroupRecords /\ g.todo = group[s].todo /\ g.pc = pc /\ g.data = Received.data
  BY <1>3, <1>6 DEF GroupRecords, Steps
<1> HIDE DEF g
<1>9. group'[s] = g /\ No(s)' = No(s)
  BY <1>2, <1>7, <1>8 DEF No, TransferTypes
<1>10. Excuse => Excuse'
  BY <1>1, <1>4 DEF Excuse
<1>11. GroupIsRight(s)'
  <2>1. \A i, j \in DOMAIN g.todo : i < j => g.todo[i] < g.todo[j]
    BY <1>3, <1>8 DEF Increases
  <2>2. g.pc # "done" /\ g.todo # <<>>
    BY <1>3, <1>8
  <2>3. link' = <<>>
    BY <1>1, <1>2 DEF GroupIsRight
  <2>. QED BY <1>5, <1>8, <1>9, <1>10, <2>1, <2>2, <2>3 DEF GroupIsRight, Active
<1>12. \A i \in Chunks : Contains(g.todo, i) <=> LeftTo(s, i)
  BY <1>8 DEF LeftTo
<1>. QED BY <1>1, <1>7, <1>8, <1>11, <1>12, GroupAnswer

(* The chunk is stored. *)
LEMMA ChunkStoredStep ==
  ASSUME IInv, NEW s \in Server, ChunkStored(s)
  PROVE  IInv'
<1>1. /\ group[s].pc = "storing" /\ Answered(s)
      /\ UNCHANGED <<page, outcome, store, sent, inner, link, result, deleting, faults>>
  BY DEF ChunkStored, At
<1>2. TransferTypes /\ GroupsAreRight /\ GroupIsRight(s) /\ Active(s) /\ Phases
  BY <1>1 DEF IInv, GroupsAreRight, Active
<1>3. /\ group[s] \in GroupRecords /\ group[s].todo \in Seq(Chunks) /\ group[s].todo # <<>>
      /\ Increases(group[s].todo) /\ No(s) \in Chunks /\ LeftTo(s, No(s))
  BY <1>2, FirstIs
<1>4. /\ pending[Received.id] = s /\ Told(Received) /\ UNCHANGED <<w, swept>>
  BY <1>1, AnsweredIs
<1>5. \/ Received.type = "stored" /\ (page = "fetching" => Kept(No(s)))
      \/ Received.type = "error" /\ Excuse
  BY <1>1, <1>4, TransferConstants DEF Told
<1>6. group \in [Server -> GroupRecords]
  BY <1>2 DEF TransferTypes
<1>7. CASE Received.type = "error"
  <2> DEFINE g == [group[s] EXCEPT !.pc = "failed"]
  <2>1. group' = [group EXCEPT ![s] = g]
    BY <1>6, <1>7 DEF ChunkStored, Go
  <2>2. g \in GroupRecords /\ g.todo = group[s].todo /\ g.pc = "failed"
    BY <1>3 DEF GroupRecords, Steps
  <2> HIDE DEF g
  <2>3. group'[s] = g
    BY <1>6, <2>1
  <2>4. Excuse'
    BY <1>1, <1>4, <1>5, <1>7 DEF Excuse
  <2>5. GroupIsRight(s)'
    BY <1>2, <2>2, <2>3, <2>4, FailedIsRight
  <2>6. \A i \in Chunks : Contains(g.todo, i) <=> LeftTo(s, i)
    BY <2>2 DEF LeftTo
  <2>. QED BY <1>1, <2>1, <2>2, <2>5, <2>6, GroupAnswer
<1>8. CASE Received.type # "error"
  <2>1. NextChunk(s)
    BY <1>8 DEF ChunkStored
  <2>2. PICK g \in GroupRecords :
           /\ group' = [group EXCEPT ![s] = g] /\ group'[s] = g
           /\ g.pc \in {"done", "next"} /\ g.data = group[s].data
           /\ \A i \in Chunks : Contains(g.todo, i) <=> LeftTo(s, i) /\ i # No(s)
           /\ GroupIsRight(s)'
    BY <1>2, <2>1, NextIs
  <2>3. page # "uploading"
    BY <1>1, <1>2 DEF GroupIsRight, Phases
  <2>4. page = "fetching" => Kept(No(s))
    BY <1>5, <1>8
  <2>. QED BY <1>1, <2>2, <2>3, <2>4, GroupAnswer
<1>. QED BY <1>7, <1>8

(* An empty map. *)
LEMMA EmptyIs ==
  /\ DOMAIN Empty = {} /\ \A V : Empty \in Maps(V)
<1>1. DOMAIN Empty = {}
  BY DEF Empty
<1>2. ASSUME NEW V PROVE Empty \in Maps(V)
  <2>1. Empty \in [{} -> V]
    BY DEF Empty
  <2>2. {} \in SUBSET Chunks
    OBVIOUS
  <2>. QED BY <2>1, <2>2 DEF Maps
<1>. QED BY <1>1, <1>2

(* The page goes on with what it is answered. *)
LEMMA PageAnswer ==
  ASSUME IInv, Answered("page"), page \in {"encrypting", "verifying"},
         page' \in {"uploading", "failed", "done"}, page' = "uploading" => w.uploadRead,
         TransferTypes', Phases', GroupsAreRight', Uploaded',
         \A s \in Server : group[s].pc \in {"read", "storing"} => group'[s] = group[s],
         link' = <<>> \/ AllDone', faults' = faults
  PROVE  IInv'
<1>1. /\ Working /\ FilesAreRight
  BY DEF IInv
<1>2. /\ Pending' /\ InTurn' /\ WorkerTypes'
      /\ DOMAIN pending' = DOMAIN pending \ {Received.id}
      /\ (\A id \in DOMAIN pending' : pending'[id] = pending[id] /\ pending[id] # "page"
                                      /\ pending[id] \in Owners /\ Waits(pending[id]))
      /\ Queued' = Queued /\ Requested' = Requested /\ Replies' \subseteq Replies
      /\ (\A m \in Requested' : m.id \in DOMAIN pending' /\ Asked(m))
      /\ (\A a \in Replies' : a.id \in DOMAIN pending' /\ Told(a))
      /\ UNCHANGED <<worker, ready, nextId, inbox, running, w, opfs, shorts, swept>>
  BY AnsweredIs
<1>3. \A id \in DOMAIN pending' : /\ pending'[id] = pending[id] /\ pending[id] # "page" /\ pending[id] \in Server
                                  /\ group[pending[id]].pc \in {"read", "storing"}
                                  /\ group'[pending[id]] = group[pending[id]]
  BY <1>2 DEF Owners, Waits
<1>4. Waiting'
  <2>1. \A id \in DOMAIN pending' : pending'[id] # "page" /\ group'[pending'[id]].pc \in {"read", "storing"}
    BY <1>3
  <2>. QED BY <2>1 DEF Waiting, Waits
<1>5. Excuse => Excuse'
  BY <1>2 DEF Excuse
<1>6. Letters'
  <2>1. ASSUME NEW m \in Requested' PROVE Asked(m)'
    <3>1. Asked(m) /\ m.id \in DOMAIN pending'
      BY <1>2
    <3>. QED BY <1>2, <1>3, <3>1, AskedStays
  <2>2. ASSUME NEW a \in Replies' PROVE Told(a)'
    <3>1. Told(a) /\ a.id \in DOMAIN pending'
      BY <1>2
    <3>. QED BY <1>2, <1>3, <1>5, <3>1, ToldStays
  <2>. QED BY <2>1, <2>2 DEF Letters
<1>7. Fallen' <=> Fallen
  BY <1>2 DEF Fallen
<1>8. Unverified' => Unverified
  BY <1>2 DEF Unverified
<1>9. FilesAreRight'
  BY <1>1, <1>2, <1>7, <1>8, FilesStay
<1>10. (\E m \in Queued' : m.type = "verifyAndDecrypt") => AllKept
  BY <1>1, <1>2 DEF Working
<1>11. Working'
  BY <1>1, <1>2, <1>10, WorkingStays
<1>. QED BY <1>2, <1>4, <1>6, <1>9, <1>11 DEF IInv

(* The encrypted file is there, or could not be written. *)
LEMMA EncryptedStep ==
  ASSUME IInv, Encrypted
  PROVE  IInv'
<1>1. page = "encrypting" /\ Answered("page") /\ UNCHANGED <<store, sent, inner, link, result, deleting, faults>>
  BY DEF Encrypted
<1>2. TransferTypes /\ GroupsAreRight /\ Uploaded /\ Phases
  BY DEF IInv
<1>3. /\ outcome = "none" /\ link = <<>> /\ deleting = 0 /\ result = <<>> /\ worker # "terminated" /\ AllDone
  BY <1>1, <1>2 DEF Phases, Over
<1>4. /\ Received \in Answers /\ pending[Received.id] = "page" /\ Told(Received) /\ UNCHANGED <<worker, w, swept>>
  BY <1>1, AnsweredIs
<1>5. \/ Received.type = "encrypted" /\ w.uploadRead
      \/ Received.type = "error" /\ Excuse
  BY <1>1, <1>4, TransferConstants DEF Told
<1>6. Excuse' <=> Excuse
  BY <1>1, <1>4 DEF Excuse
<1>7. CASE Received.type = "error"
  <2>1. page' = "failed" /\ outcome' = "error" /\ UNCHANGED group
    BY <1>7 DEF Encrypted
  <2>2. AllDone' <=> AllDone
    BY <2>1 DEF AllDone, Active
  <2>3. TransferTypes'
    BY <1>1, <1>2, <1>4, <2>1 DEF TransferTypes, Pages
  <2>4. Phases'
    BY <1>1, <1>2, <1>3, <1>4, <1>5, <1>6, <1>7, <2>1, <2>2 DEF Phases, Over
  <2>5. GroupsAreRight'
    BY <1>1, <1>2, <1>6, <2>1 DEF GroupsAreRight, GroupIsRight, Active, No, LeftTo
  <2>6. Uploaded'
    BY <1>1, <1>2, <1>3, <2>1 DEF Uploaded
  <2>. QED BY <1>1, <1>3, <2>1, <2>3, <2>4, <2>5, <2>6, PageAnswer
<1>8. CASE Received.type # "error"
  <2>1. page' = "uploading" /\ UNCHANGED outcome
    BY <1>8 DEF Encrypted
  <2>2. PICK assign \in [Chunks -> Server] : group' = [s \in Server |-> Group(assign, s)]
    BY <1>8 DEF Encrypted
  <2>3. /\ GroupsAreRight' /\ group' \in [Server -> GroupRecords]
        /\ \A s \in Server : group'[s].pc \in {"done", "next"}
        /\ \A i \in Chunks : \E s \in Server : LeftTo(s, i)'
    BY <2>2, FreshGroups
  <2>4. TransferTypes'
    BY <1>1, <1>2, <1>4, <2>1, <2>3 DEF TransferTypes, Pages
  <2>5. Phases'
    BY <1>1, <1>2, <1>3, <1>4, <1>6, <2>1 DEF Phases, Over
  <2>6. Uploaded'
    BY <1>1, <1>2, <1>3, <2>1, <2>3 DEF Uploaded
  <2>7. \A s \in Server : group[s].pc \notin {"read", "storing"}
    BY <1>3 DEF AllDone, Active
  <2>8. w.uploadRead
    BY <1>5, <1>8
  <2>. QED BY <1>1, <1>3, <2>1, <2>3, <2>4, <2>5, <2>6, <2>7, <2>8, PageAnswer
<1>. QED BY <1>7, <1>8

(* The file is there, or could not be verified. *)
LEMMA DecryptedStep ==
  ASSUME IInv, Decrypted
  PROVE  IInv'
<1>1. page = "verifying" /\ Answered("page") /\ UNCHANGED <<group, store, sent, inner, link, deleting, faults>>
  BY DEF Decrypted
<1>2. TransferTypes /\ GroupsAreRight /\ Uploaded /\ Phases
  BY DEF IInv
<1>3. /\ outcome = "none" /\ link # <<>> /\ result = <<>> /\ worker # "terminated" /\ AllDone
  BY <1>1, <1>2 DEF Phases, Over
<1>4. /\ Received \in Answers /\ pending[Received.id] = "page" /\ Told(Received) /\ UNCHANGED <<worker, w, swept>>
  BY <1>1, AnsweredIs
<1>5. \/ Received.type = "decrypted" /\ Received.data = EncData
      \/ Received.type = "error" /\ Excuse
  BY <1>1, <1>4, TransferConstants DEF Told
<1>6. (Excuse' <=> Excuse) /\ (AllDone' <=> AllDone)
  BY <1>1, <1>4 DEF Excuse, AllDone, Active
<1>7. \/ Received.type = "error" /\ page' = "failed" /\ outcome' = "error" /\ UNCHANGED result
      \/ Received.type # "error" /\ page' = "done" /\ outcome' = "ok" /\ result' = <<Received.data>>
  BY DEF Decrypted
<1>8. TransferTypes'
  BY <1>1, <1>2, <1>4, <1>5, <1>7 DEF TransferTypes, Pages
<1>9. Phases'
  BY <1>1, <1>2, <1>3, <1>4, <1>5, <1>6, <1>7 DEF Phases, Over
<1>10. GroupsAreRight'
  BY <1>1, <1>2, <1>6 DEF GroupsAreRight, GroupIsRight, Active, No, LeftTo
<1>11. Uploaded'
  BY <1>1, <1>2, <1>7 DEF Uploaded, Resolved
<1>. QED BY <1>1, <1>3, <1>6, <1>7, <1>8, <1>9, <1>10, <1>11, PageAnswer

(* After the answer to cleanup nothing is left to answer. *)
LEMMA CleanedStep ==
  ASSUME IInv, Cleaned
  PROVE  IInv'
<1>1. /\ page = "cleaning" /\ Received.id \in DOMAIN pending /\ pending[Received.id] = "page"
      /\ worker' = "terminated" /\ inbox' = <<>> /\ running' = {} /\ outbox' = <<>>
      /\ page' = IF outcome = "ok" /\ result = <<>> THEN "shared" ELSE "ended"
      /\ pending' = Restrict(pending, DOMAIN pending \ {Received.id})
      /\ UNCHANGED <<ready, nextId, w, opfs, shorts, swept, outcome, group, store, sent, inner, link, result, deleting, faults>>
  BY DEF Cleaned, Terminate, Owner
<1>2. /\ WorkerTypes /\ Pending /\ Waiting /\ InTurn /\ FilesAreRight
      /\ TransferTypes /\ GroupsAreRight /\ Uploaded /\ Phases
  BY DEF IInv
<1>3. (Excuse' <=> Excuse) /\ (AllDone' <=> AllDone)
  BY <1>1 DEF Excuse, AllDone, Active
<1>4. TransferTypes'
  BY <1>1, <1>2 DEF TransferTypes, Pages
<1>5. Phases'
  <2>1. outcome # "none" /\ (outcome = "ok" => link # <<>> /\ AllDone)
    BY <1>1, <1>2 DEF Phases, Over
  <2>2. page' = "shared" \/ page' = "ended"
    BY <1>1
  <2>. QED BY <1>1, <1>2, <1>3, <2>1, <2>2 DEF Phases, Over
<1>6. GroupsAreRight'
  BY <1>1, <1>2, <1>3 DEF GroupsAreRight, GroupIsRight, Active, No, LeftTo
<1>7. Uploaded'
  BY <1>1, <1>2 DEF Uploaded, Resolved
<1>8. WorkerTypes'
  BY <1>1, <1>2 DEF WorkerTypes
<1>9. /\ DOMAIN pending' = DOMAIN pending \ {Received.id}
      /\ \A id \in DOMAIN pending' : pending'[id] = pending[id] /\ pending[id] # "page"
  <2>1. DOMAIN pending' = DOMAIN pending \ {Received.id} /\ \A id \in DOMAIN pending' : pending'[id] = pending[id]
    BY <1>1 DEF Restrict
  <2>. QED BY <1>1, <1>2, <2>1 DEF Pending
<1>10. Pending'
  <2>1. nextId' = nextId /\ DOMAIN pending' \subseteq DOMAIN pending
    BY <1>1, <1>9
  <2>2. DOMAIN pending' \subseteq 1..(nextId' - 1)
    BY <1>2, <2>1 DEF Pending
  <2>3. \A id \in DOMAIN pending' : pending'[id] \in Server \cup {"page"}
    BY <1>2, <1>9 DEF Pending, Owners
  <2>4. \A a, b \in DOMAIN pending' : pending'[a] = pending'[b] => a = b
    BY <1>2, <1>9 DEF Pending
  <2>. QED BY <2>2, <2>3, <2>4 DEF Pending, Owners
<1>11. Waiting'
  <2>1. \A id \in DOMAIN pending' : pending'[id] # "page" /\ group'[pending'[id]].pc \in {"read", "storing"}
    BY <1>1, <1>2, <1>9 DEF Waiting, Waits
  <2>. QED BY <2>1 DEF Waiting, Waits
<1>12. /\ DOMAIN inbox' = {} /\ DOMAIN outbox' = {} /\ running' = {}
       /\ Queued' = {} /\ Requested' = {} /\ Replies' = {}
  <2>1. DOMAIN inbox' = {} /\ DOMAIN outbox' = {} /\ running' = {}
    BY <1>1
  <2>. QED BY <2>1 DEF Queued, Requested, Replies
<1>13. InTurn'
  BY <1>1, <1>2, <1>9, <1>12 DEF InTurn
<1>14. Letters'
  BY <1>12 DEF Letters
<1>15. FilesAreRight'
  <2>1. Fallen'
    BY <1>1 DEF Fallen
  <2>. QED BY <1>1, <1>2, <2>1 DEF FilesAreRight, Laid
<1>16. Working'
  BY <1>1, <1>12 DEF Working
<1>. QED BY <1>4, <1>5, <1>6, <1>7, <1>8, <1>10, <1>11, <1>13, <1>14, <1>15, <1>16 DEF IInv

(* The state of a worker that was just started. *)
LEMMA FreshIs ==
  /\ FreshWorker \in WorkerStates /\ NoFiles \in [dir : BOOLEAN, upload : Slots, download : Slots]
  /\ ~FreshWorker.sessionDir /\ ~FreshWorker.uploadRead /\ ~FreshWorker.downloadWrite /\ ~FreshWorker.leaked
  /\ ~FreshWorker.useMemory /\ FreshWorker.memory = Empty /\ FreshWorker.meta = Empty /\ FreshWorker.offset = 0
<1>1. Empty \in Maps([offset : Nat, size : Nat]) /\ Empty \in Maps(Bodies)
  BY EmptyIs
<1>2. <<>> \in Slots
  BY DEF Slots
<1>3. FreshWorker \in WorkerStates
  BY <1>1 DEF FreshWorker, WorkerStates
<1>4. NoFiles \in [dir : BOOLEAN, upload : Slots, download : Slots]
  BY <1>2 DEF NoFiles
<1>. QED BY <1>3, <1>4 DEF FreshWorker

(* Another page opens the link with a worker of its own. *)
LEMMA OpenLinkStep ==
  ASSUME IInv, OpenLink
  PROVE  IInv'
<1>1. /\ page = "shared" /\ page' = "link" /\ outcome' = "none"
      /\ worker' = "starting" /\ ready' = FALSE /\ pending' = Empty /\ nextId' = 1
      /\ inbox' = <<>> /\ running' = {} /\ outbox' = <<>>
      /\ w' = FreshWorker /\ opfs' = NoFiles
      /\ group' = [s \in Server |-> NoGroup]
      /\ UNCHANGED <<shorts, swept, store, sent, inner, link, result, deleting, faults>>
  BY DEF OpenLink
<1>2. /\ WorkerTypes /\ TransferTypes /\ Uploaded /\ Phases
  BY DEF IInv
<1>3. outcome = "ok" /\ link # <<>> /\ result = <<>>
  BY <1>1, <1>2 DEF Phases
<1>4. \A s \in Server : group'[s] = NoGroup /\ group'[s].todo = <<>> /\ group'[s].pc = "done"
  BY <1>1 DEF NoGroup
<1>5. AllDone' /\ \A s \in Server, i \in Chunks : ~LeftTo(s, i)'
  BY <1>4 DEF AllDone, Active, LeftTo, Contains
<1>6. NoGroup \in GroupRecords
  BY DEF NoGroup, GroupRecords, Bodies, Steps
<1>7. TransferTypes'
  BY <1>1, <1>2, <1>6 DEF TransferTypes, Pages
<1>8. Phases'
  BY <1>1, <1>2, <1>3, <1>5 DEF Phases, Over
<1>9. GroupsAreRight'
  <2>1. \A s \in Server : GroupIsRight(s)'
    BY <1>4 DEF GroupIsRight, Active
  <2>. QED BY <1>5, <2>1 DEF GroupsAreRight
<1>10. Uploaded'
  BY <1>1, <1>2, <1>3 DEF Uploaded, Resolved
<1>11. WorkerTypes'
  <2>1. nextId' \in Nat \ {0} /\ inbox' \in Seq(Messages) /\ outbox' \in Seq(Answers) /\ running' \in SUBSET Handlers
    BY <1>1
  <2>. QED BY <1>1, <1>2, <2>1, FreshIs DEF WorkerTypes
<1>12. /\ DOMAIN pending' = {} /\ DOMAIN inbox' = {} /\ DOMAIN outbox' = {} /\ running' = {}
       /\ Queued' = {} /\ Requested' = {} /\ Replies' = {}
  <2>1. DOMAIN pending' = {} /\ DOMAIN inbox' = {} /\ DOMAIN outbox' = {} /\ running' = {}
    BY <1>1, EmptyIs
  <2>. QED BY <2>1 DEF Queued, Requested, Replies
<1>13. Pending' /\ Waiting' /\ InTurn' /\ Letters'
  BY <1>1, <1>12 DEF Pending, Waiting, InTurn, Letters
<1>14. FilesAreRight'
  BY <1>1, FreshIs, EmptyIs DEF FilesAreRight
<1>15. Working'
  BY <1>1, <1>12 DEF Working
<1>. QED BY <1>7, <1>8, <1>9, <1>10, <1>11, <1>13, <1>14, <1>15 DEF IInv

(* Nothing has happened yet. *)
LEMMA InitIs == Init => IInv
<1> SUFFICES ASSUME Init PROVE IInv
  OBVIOUS
<1>1. /\ page = "file" /\ outcome = "none" /\ group = [s \in Server |-> NoGroup]
      /\ store = <<>> /\ sent = Empty /\ inner = <<>> /\ link = <<>> /\ result = <<>>
      /\ deleting = 0 /\ faults = 0
      /\ worker = "starting" /\ ready = FALSE /\ pending = Empty /\ nextId = 1
      /\ inbox = <<>> /\ running = {} /\ outbox = <<>>
      /\ w = FreshWorker /\ opfs = NoFiles /\ shorts = 0 /\ swept = 0
  BY DEF Init, WorkerInit
<1>2. \A s \in Server : group[s] = NoGroup /\ group[s].todo = <<>> /\ group[s].pc = "done"
  BY <1>1 DEF NoGroup
<1>3. AllDone /\ \A s \in Server, i \in Chunks : ~LeftTo(s, i)
  BY <1>2 DEF AllDone, Active, LeftTo, Contains
<1>4. NoGroup \in GroupRecords
  BY DEF NoGroup, GroupRecords, Bodies, Steps
<1>5. DOMAIN sent = {} /\ DOMAIN store = {}
  BY <1>1, EmptyIs
<1>6. TransferTypes
  <2>1. store \in Seq([server : Server, no : Chunks, data : Bodies])
    BY <1>1
  <2>2. 0 <= Len(Size)
    BY Sizes
  <2>. QED BY <1>1, <1>4, <1>5, <2>1, <2>2 DEF TransferTypes, Pages
<1>7. Phases
  BY <1>1, <1>3 DEF Phases, Over
<1>8. GroupsAreRight
  <2>1. \A s \in Server : GroupIsRight(s)
    BY <1>2 DEF GroupIsRight, Active
  <2>. QED BY <1>3, <2>1 DEF GroupsAreRight
<1>9. Uploaded
  BY <1>1, <1>5 DEF Uploaded
<1>10. WorkerTypes
  <2>1. nextId \in Nat \ {0} /\ inbox \in Seq(Messages) /\ outbox \in Seq(Answers) /\ running \in SUBSET Handlers
    BY <1>1
  <2>. QED BY <1>1, <2>1, FreshIs DEF WorkerTypes
<1>11. /\ DOMAIN pending = {} /\ DOMAIN inbox = {} /\ DOMAIN outbox = {} /\ running = {}
       /\ Queued = {} /\ Requested = {} /\ Replies = {}
  <2>1. DOMAIN pending = {} /\ DOMAIN inbox = {} /\ DOMAIN outbox = {} /\ running = {}
    BY <1>1, EmptyIs
  <2>. QED BY <2>1 DEF Queued, Requested, Replies
<1>12. Pending /\ Waiting /\ InTurn /\ Letters
  BY <1>1, <1>11 DEF Pending, Waiting, InTurn, Letters
<1>13. FilesAreRight
  BY <1>1, FreshIs, EmptyIs DEF FilesAreRight
<1>14. Working
  BY <1>1, <1>11 DEF Working
<1>. QED BY <1>6, <1>7, <1>8, <1>9, <1>10, <1>12, <1>13, <1>14 DEF IInv

-----------------------------------------------------------------------------
(* The worker.                                                               *)

(* The handler that is running, and the others who wait. *)
LEMMA RunningIs ==
  ASSUME IInv, NEW r \in running
  PROVE  /\ worker = "up" /\ running = {r} /\ r \in Handlers /\ r.msg \in Messages
         /\ r.msg.id \in DOMAIN pending /\ pending[r.msg.id] \in Owners /\ r.msg.id \in Nat
         /\ Asked(r.msg) /\ HandlerIsRight(r)
         /\ \A m \in Queued \cup Replies : m.id \in DOMAIN pending /\ pending[m.id] # pending[r.msg.id]
         /\ \A m \in Queued : m.type # "verifyAndDecrypt"
<1>1. /\ WorkerTypes /\ Pending /\ InTurn /\ Letters /\ Working /\ Phases
  BY DEF IInv
<1>2. worker = "up" /\ running = {r}
  BY <1>1 DEF InTurn
<1>3. r \in Handlers /\ r.msg \in Messages /\ r.msg.id \in Nat
  BY <1>1 DEF WorkerTypes, Handlers, Messages
<1>4. r.msg.id \in DOMAIN pending /\ pending[r.msg.id] \in Owners /\ r.msg \in Requested
  BY <1>1 DEF InTurn, Pending, Requested
<1>5. Asked(r.msg) /\ HandlerIsRight(r)
  BY <1>1, <1>4 DEF Letters, Working
<1>6. \A m \in Queued \cup Replies : m.id \in DOMAIN pending /\ pending[m.id] # pending[r.msg.id]
  <2>1. ASSUME NEW m \in Queued PROVE m.id \in DOMAIN pending /\ m.id # r.msg.id
    BY <1>1, <1>3 DEF Queued, InTurn
  <2>2. ASSUME NEW m \in Replies PROVE m.id \in DOMAIN pending /\ m.id # r.msg.id
    BY <1>1, <1>3 DEF Replies, InTurn
  <2>. QED BY <1>1, <1>4, <2>1, <2>2 DEF Pending
<1>7. ASSUME NEW m \in Queued, m.type = "verifyAndDecrypt" PROVE FALSE
  <2>1. Asked(m) /\ pending[m.id] # pending[r.msg.id]
    BY <1>1, <1>6 DEF Letters, Requested
  <2>2. page = "verifying" /\ pending[m.id] = "page"
    BY <1>7, <2>1 DEF Asked
  <2>3. AllDone
    BY <1>1, <2>2 DEF Phases
  <2>4. pending[r.msg.id] \in Server /\ group[pending[r.msg.id]].pc \in {"read", "storing"}
    BY <1>5, <2>1, <2>2 DEF Asked
  <2>. QED BY <2>3, <2>4 DEF AllDone, Active
<1>. QED BY <1>2, <1>3, <1>4, <1>5, <1>6, <1>7

(* What a step of a handler leaves as it is. *)
LEMMA HandlerMoves ==
  ASSUME IInv, NEW r \in running, UNCHANGED <<worker, ready, pending, nextId, inbox, swept>>, UNCHANGED transferVars,
         w' \in WorkerStates, opfs' \in [dir : BOOLEAN, upload : Slots, download : Slots], shorts' \in Nat,
         w.leaked => w'.leaked,
         w'.uploadRead = w.uploadRead \/ pending[r.msg.id] = "page",
         page = "fetching" => \A i \in Chunks : Kept(i) /\ i # No(pending[r.msg.id]) => Kept(i)',
         InTurn', outbox' \in Seq(Answers), running' \in SUBSET Handlers,
         NEW A, Replies' \subseteq Replies \cup A, \A a \in A : Told(a)',
         \A m \in Requested' : \/ m \in Queued
                               \/ m = r.msg /\ (m.type = "encrypt" => w'.uploadRead = w.uploadRead),
         FilesAreRight', \A q \in running' : HandlerIsRight(q)'
  PROVE  IInv'
<1>1. /\ WorkerTypes /\ Pending /\ Waiting /\ InTurn /\ Letters /\ Working
      /\ TransferTypes /\ GroupsAreRight /\ Uploaded /\ Phases
  BY DEF IInv
<1>2. /\ worker = "up" /\ running = {r} /\ r \in Handlers /\ r.msg \in Messages
      /\ r.msg.id \in DOMAIN pending /\ pending[r.msg.id] \in Owners
      /\ Asked(r.msg)
      /\ \A m \in Queued \cup Replies : m.id \in DOMAIN pending /\ pending[m.id] # pending[r.msg.id]
      /\ \A m \in Queued : m.type # "verifyAndDecrypt"
  BY RunningIs
<1>3. UNCHANGED <<page, outcome, group, store, sent, inner, link, result, deleting, faults>>
  BY DEF transferVars
<1>4. Excuse => Excuse'
  BY <1>3 DEF Excuse
<1>5. TransferTypes' /\ Phases' /\ GroupsAreRight' /\ Uploaded'
  <2>1. swept' \in Nat
    BY <1>1 DEF TransferTypes
  <2>. QED BY <1>1, <1>4, <2>1, PageStays
<1>6. WorkerTypes'
  BY <1>1 DEF WorkerTypes
<1>7. Pending' /\ Waiting'
  BY <1>1, <1>3 DEF Pending, Owners, Waiting, Waits
<1>8. Queued' = Queued
  BY DEF Queued
<1>9. Letters'
  <2>1. ASSUME NEW m \in Requested' PROVE Asked(m)'
    <3>1. Asked(m)
      BY <1>1, <1>2 DEF Letters, Requested
    <3>2. m.type = "encrypt" => w'.uploadRead = w.uploadRead
      <4>1. CASE m \in Queued
        <5>1. m.type = "encrypt" => pending[m.id] = "page"
          BY <3>1, TransferConstants DEF Asked
        <5>. QED BY <1>2, <4>1, <5>1
      <4>. QED BY <4>1
    <3>. QED BY <1>3, <3>1, <3>2, AskedStays
  <2>2. ASSUME NEW a \in Replies PROVE Told(a)'
    <3>1. Told(a) /\ a.id \in DOMAIN pending /\ pending[a.id] # pending[r.msg.id] /\ pending[a.id] \in Owners
      BY <1>1, <1>2 DEF Letters, Pending
    <3>2. pending[a.id] = "page" => w'.uploadRead = w.uploadRead
      BY <3>1
    <3>3. ASSUME pending[a.id] \in Server, group[pending[a.id]].pc = "storing", page' = "fetching"
          PROVE  page = "fetching" /\ (Kept(No(pending[a.id])) => Kept(No(pending[a.id]))')
      <4>1. page = "fetching" /\ pending[r.msg.id] \in Server
        BY <1>2, <1>3, <3>3 DEF Asked
      <4> DEFINE o == pending[a.id]
                 s == pending[r.msg.id]
      <4>2. o \in Server /\ s \in Server /\ o # s
        BY <3>1, <3>3, <4>1
      <4>3. group[o].pc = "storing" /\ group[s].pc \in {"read", "storing"}
        BY <1>2, <3>3, <4>1, TransferConstants DEF Asked
      <4> HIDE DEF o, s
      <4>4. No(o) \in Chunks /\ LeftTo(o, No(o)) /\ LeftTo(s, No(s)) /\ No(s) \in Chunks
        BY <1>1, <4>2, <4>3, FirstIs DEF Active
      <4>5. No(o) # No(s)
        BY <1>1, <4>2, <4>4 DEF GroupsAreRight
      <4>6. ASSUME NEW i \in Chunks, i # No(s), Kept(i) PROVE Kept(i)'
        BY <4>1, <4>6 DEF s
      <4>7. No(pending[a.id])' = No(o)
        BY <1>3 DEF No, o
      <4>8. \A i : i = No(o) /\ Kept(No(o)) => Kept(i)'
        BY <4>4, <4>5, <4>6
      <4>9. Kept(No(o)) => Kept(No(pending[a.id]))'
        BY <4>7, <4>8
      <4>. QED BY <4>1, <4>9 DEF o
    <3>. QED BY <1>3, <1>4, <3>1, <3>2, <3>3, ToldStays
  <2>. QED BY <2>1, <2>2 DEF Letters
<1>10. Working'
  <2>1. ~\E m \in Queued' : m.type = "verifyAndDecrypt"
    BY <1>2, <1>8
  <2>2. ASSUME page' = "fetching", NEW i \in Chunks, \A t \in Server : ~LeftTo(t, i)' PROVE Kept(i)'
    <3>1. \A t \in Server : ~LeftTo(t, i)
      BY <1>3, <2>2 DEF LeftTo
    <3>2. page = "fetching" /\ pending[r.msg.id] \in Server /\ Kept(i)
      BY <1>1, <1>2, <1>3, <2>2, <3>1 DEF Asked, Working
    <3>3. group[pending[r.msg.id]].pc \in {"read", "storing"}
      BY <1>2, <3>2, TransferConstants DEF Asked
    <3>4. i # No(pending[r.msg.id])
      BY <1>1, <3>1, <3>2, <3>3, FirstIs DEF Active
    <3>. QED BY <3>2, <3>4
  <2>. QED BY <2>1, <2>2 DEF Working
<1>. QED BY <1>5, <1>6, <1>7, <1>9, <1>10 DEF IInv

(* A step of the worker that leaves its variables and files. *)
LEMMA WorkerQuiet ==
  ASSUME IInv, UNCHANGED transferVars, UNCHANGED <<w, opfs, swept, pending>>,
         WorkerTypes', InTurn', Pending', worker' = "terminated" <=> worker = "terminated",
         Queued' \subseteq Queued, Requested' \subseteq Requested, Replies' \subseteq Replies,
         Fallen' <=> Fallen, Unverified' => Unverified, \A q \in running' : HandlerIsRight(q)'
  PROVE  IInv'
<1>1. /\ Waiting /\ Letters /\ Working /\ FilesAreRight
      /\ TransferTypes /\ GroupsAreRight /\ Uploaded /\ Phases
  BY DEF IInv
<1>2. UNCHANGED <<page, outcome, group, store, sent, inner, link, result, deleting, faults>>
  BY DEF transferVars
<1>3. Excuse => Excuse'
  BY <1>2 DEF Excuse
<1>4. TransferTypes' /\ Phases' /\ GroupsAreRight' /\ Uploaded'
  <2>1. swept' \in Nat
    BY <1>1 DEF TransferTypes
  <2>. QED BY <1>1, <1>3, <2>1, PageStays
<1>5. Waiting'
  BY <1>1, <1>2 DEF Waiting, Waits
<1>6. (\A i : Kept(i)' <=> Kept(i)) /\ (AllKept' <=> AllKept)
  BY KeptSame
<1>7. Letters'
  <2>1. ASSUME NEW m \in Requested' PROVE Asked(m)'
    <3>1. Asked(m)
      BY <1>1 DEF Letters
    <3>. QED BY <1>2, <3>1, AskedStays
  <2>2. ASSUME NEW a \in Replies' PROVE Told(a)'
    <3>1. Told(a)
      BY <1>1 DEF Letters
    <3>2. ASSUME page' = "fetching"
          PROVE  page = "fetching" /\ (Kept(No(pending[a.id])) => Kept(No(pending[a.id]))')
      <4>1. No(pending[a.id])' = No(pending[a.id])
        BY <1>2 DEF No
      <4>. QED BY <1>2, <3>2, <4>1 DEF Kept, OnDisk
    <3>. QED BY <1>2, <1>3, <3>1, <3>2, ToldStays
  <2>. QED BY <2>1, <2>2 DEF Letters
<1>8. FilesAreRight'
  <2>1. page' = "uploading" => w.uploadRead
    BY <1>1, <1>2 DEF FilesAreRight
  <2>2. page' \in {"link", "resolve"} => w = FreshWorker
    BY <1>1, <1>2 DEF FilesAreRight
  <2>. QED BY <1>1, <1>2, <2>1, <2>2, FilesStay
<1>9. Working'
  <2>1. (\E m \in Queued' : m.type = "verifyAndDecrypt") => AllKept
    BY <1>1 DEF Working
  <2>2. page' = "fetching" => \A i \in Chunks : (\A s \in Server : ~LeftTo(s, i)') => Kept(i)'
    BY <1>1, <1>2, <1>6 DEF Working, LeftTo
  <2>. QED BY <1>6, <2>1, <2>2 DEF Working
<1>. QED BY <1>4, <1>5, <1>7, <1>8, <1>9 DEF IInv

(* The worker is up, or will never be. *)
LEMMA WorkerStartsStep ==
  ASSUME IInv, WorkerStarts, UNCHANGED transferVars
  PROVE  IInv'
<1> DEFINE a == [id |-> 0, type |-> "ready", data |-> <<>>]
<1>1. /\ worker = "starting" /\ UNCHANGED <<ready, pending, nextId, inbox, running, w, opfs, shorts, swept>>
      /\ \/ worker' = "up" /\ outbox' = Append(outbox, a)
         \/ worker' = "broken" /\ UNCHANGED outbox
  BY DEF WorkerStarts
<1>2. WorkerTypes /\ InTurn /\ Pending
  BY DEF IInv
<1>3. inbox = <<>> /\ running = {} /\ outbox = <<>> /\ ~ready
  BY <1>1, <1>2 DEF InTurn
<1>4. a \in Answers
  BY DEF Answers, Bodies
<1> HIDE DEF a
<1>5. /\ outbox' \in Seq(Answers) /\ DOMAIN inbox = {}
      /\ \/ worker' = "up" /\ DOMAIN outbox' = {1} /\ outbox'[1] = a
         \/ worker' = "broken" /\ DOMAIN outbox' = {} /\ outbox' = <<>>
  <2>1. DOMAIN inbox = {}
    BY <1>3
  <2>2. CASE worker' = "up" /\ outbox' = Append(outbox, a)
    <3>1. outbox' = <<a>>
      BY <1>3, <2>2
    <3>. QED BY <1>4, <2>1, <2>2, <3>1
  <2>3. CASE worker' = "broken" /\ UNCHANGED outbox
    BY <1>3, <2>1, <2>3
  <2>. QED BY <1>1, <2>2, <2>3
<1>6. WorkerTypes' /\ Pending'
  BY <1>1, <1>2, <1>5 DEF WorkerTypes, Pending, Owners
<1>7. InTurn'
  BY <1>1, <1>2, <1>3, <1>5 DEF InTurn, a
<1>8. Queued' = Queued /\ Requested' = Requested /\ Replies' \subseteq Replies
  BY <1>1, <1>5 DEF Queued, Requested, Replies, a
<1>9. (Fallen' <=> Fallen) /\ worker # "terminated" /\ worker' # "terminated"
  BY <1>1 DEF Fallen
<1>10. Unverified' => Unverified
  <2>1. UNCHANGED <<page, link, group, running>>
    BY <1>1 DEF transferVars
  <2>. QED BY <1>8, <2>1 DEF Unverified, AllDone, Active
<1>11. running' = {}
  BY <1>1, <1>3
<1>. QED BY <1>1, <1>6, <1>7, <1>8, <1>9, <1>10, <1>11, WorkerQuiet

(* The backend knows that the worker is up. *)
LEMMA HandleReadyStep ==
  ASSUME IInv, HandleReady, UNCHANGED transferVars
  PROVE  IInv'
<1>1. /\ outbox # <<>> /\ outbox' = Tail(outbox) /\ ready' = TRUE
      /\ UNCHANGED <<worker, pending, nextId, inbox, running, w, opfs, shorts, swept>>
  BY DEF HandleReady
<1>2. WorkerTypes /\ InTurn /\ Pending
  BY DEF IInv
<1>3. worker = "up"
  BY <1>1, <1>2 DEF InTurn
<1>4. /\ outbox \in Seq(Answers) /\ Len(outbox) \in Nat /\ outbox' \in Seq(Answers)
      /\ DOMAIN outbox' = 1..(Len(outbox) - 1) /\ DOMAIN outbox = 1..Len(outbox)
      /\ \A k \in 1..(Len(outbox) - 1) : outbox'[k] = outbox[k + 1]
  BY <1>1, <1>2 DEF WorkerTypes
<1>5. \A k \in DOMAIN outbox' : k + 1 \in DOMAIN outbox /\ outbox'[k] = outbox[k + 1]
  BY <1>4
<1>6. WorkerTypes' /\ Pending'
  <2>1. ready' \in BOOLEAN
    BY <1>1
  <2>2. WorkerTypes'
    BY <1>1, <1>2, <1>4, <2>1 DEF WorkerTypes
  <2>. QED BY <1>1, <1>2, <2>2 DEF Pending, Owners
<1>7. InTurn'
  <2>1. \A k, l \in DOMAIN outbox' : k < l => outbox'[k].id < outbox'[l].id
    <3> SUFFICES ASSUME NEW k \in DOMAIN outbox', NEW l \in DOMAIN outbox', k < l
                 PROVE  outbox'[k].id < outbox'[l].id
      OBVIOUS
    <3>1. k + 1 < l + 1
      BY <1>4
    <3>. QED BY <1>2, <1>5, <3>1 DEF InTurn
  <2>2. /\ \A k \in DOMAIN outbox' : outbox'[k].type # "ready" => outbox'[k].id \in DOMAIN pending
        /\ \A k \in DOMAIN outbox' : outbox'[k].type = "ready" => outbox'[k].id = 0
        /\ \A k \in DOMAIN outbox', l \in DOMAIN inbox : outbox'[k].id < inbox[l].id
        /\ \A k \in DOMAIN outbox', r \in running : outbox'[k].id < r.msg.id
    BY <1>2, <1>5 DEF InTurn
  <2>. QED BY <1>1, <1>2, <1>3, <2>1, <2>2 DEF InTurn
<1>8. Queued' = Queued /\ Requested' = Requested /\ Replies' \subseteq Replies
  <2>1. {outbox'[k] : k \in DOMAIN outbox'} \subseteq {outbox[k] : k \in DOMAIN outbox}
    BY <1>5
  <2>. QED BY <1>1, <2>1 DEF Queued, Requested, Replies
<1>9. Fallen' <=> Fallen
  BY <1>1 DEF Fallen
<1>10. UNCHANGED <<page, link, group, running>>
  BY <1>1 DEF transferVars
<1>11. Unverified' => Unverified
  BY <1>8, <1>10 DEF Unverified, AllDone, Active
<1>12. \A q \in running' : HandlerIsRight(q)'
  <2> TAKE q \in running'
  <2>1. HandlerIsRight(q)
    BY <1>1, RunningIs
  <2>2. AllKept' <=> AllKept
    BY <1>1, KeptSame
  <2>. QED BY <1>1, <2>1, <2>2 DEF HandlerIsRight, Genuine
<1>. QED BY <1>1, <1>6, <1>7, <1>8, <1>9, <1>11, <1>12, WorkerQuiet

(* The next request begins. *)
LEMMA DispatchStep ==
  ASSUME IInv, Dispatch, UNCHANGED transferVars
  PROVE  IInv'
<1>1. worker = "up" /\ UNCHANGED <<worker, ready, pending, nextId, outbox, w, opfs, shorts, swept>>
  BY DEF Dispatch
<1>2. WorkerTypes /\ InTurn /\ Pending /\ Working
  BY DEF IInv
<1>3. /\ InTurn' /\ inbox' \in Seq(Messages) /\ running' \in SUBSET Handlers
      /\ (\E m \in Queued : running' = {[msg |-> m, pc |-> "begin", data |-> <<>>]})
      /\ running = {} /\ Queued' \subseteq Queued /\ Requested' \subseteq Requested /\ Replies' = Replies
  BY <1>2, DispatchKeepsTurn
<1>4. PICK m \in Queued : running' = {[msg |-> m, pc |-> "begin", data |-> <<>>]}
  BY <1>3
<1>5. \A q \in running' : q.msg = m /\ q.pc = "begin"
  BY <1>4
<1>6. WorkerTypes' /\ Pending'
  BY <1>1, <1>2, <1>3 DEF WorkerTypes, Pending, Owners
<1>7. Fallen' <=> Fallen
  BY <1>1, <1>3, <1>5 DEF Fallen
<1>8. Unverified' => Unverified
  <2>1. UNCHANGED <<page, link, group>>
    BY DEF transferVars
  <2>. QED BY <1>3, <1>5, <2>1 DEF Unverified, AllDone, Active
<1>9. \A q \in running' : HandlerIsRight(q)'
  <2>1. m.type = "verifyAndDecrypt" => AllKept'
    BY <1>1, <1>2, KeptSame DEF Working
  <2>. QED BY <1>5, <2>1 DEF HandlerIsRight
<1>. QED BY <1>1, <1>3, <1>6, <1>7, <1>8, <1>9, WorkerQuiet

(* What every step of a handler does and leaves. *)
Moving(r) ==
  /\ UNCHANGED <<worker, ready, pending, nextId, inbox, swept>> /\ UNCHANGED transferVars
  /\ w' \in WorkerStates /\ opfs' \in [dir : BOOLEAN, upload : Slots, download : Slots] /\ shorts' \in Nat
  /\ w.leaked => w'.leaked
  /\ w'.uploadRead = w.uploadRead \/ pending[r.msg.id] = "page"
  /\ page = "fetching" => \A i \in Chunks : Kept(i) /\ i # No(pending[r.msg.id]) => Kept(i)'

(* Chunks wait for their verification while the download runs or some group *)
(* still does.                                                               *)
Downloading == page = "fetching" \/ (link # <<>> /\ ~AllDone)

(* A handler awaits. *)
LEMMA HandlerAwaits ==
  ASSUME IInv, NEW r \in running, Moving(r), NEW pc, NEW data, Await(r, pc, data), pc # "begin",
         [r EXCEPT !.pc = pc, !.data = data] \in Handlers,
         r.msg.type = "encrypt" => w'.uploadRead = w.uploadRead,
         (Unverified' => Downloading) /\ (Fallen' <=> pc = "fallback") => FilesAreRight',
         \A q : q.msg = r.msg /\ q.pc = pc /\ q.data = data => HandlerIsRight(q)'
  PROVE  IInv'
<1>1. WorkerTypes /\ Pending /\ InTurn
  BY DEF IInv
<1>2. /\ worker = "up" /\ r \in Handlers /\ r.msg \in Messages
      /\ \A m \in Queued : m.type # "verifyAndDecrypt"
  BY RunningIs
<1>3. /\ InTurn' /\ running = {r} /\ running' = {[r EXCEPT !.pc = pc, !.data = data]}
      /\ Queued' = Queued /\ Requested' = Requested /\ Replies' = Replies
  BY <1>1, <1>2, AwaitKeepsTurn DEF Moving
<1>4. \A q \in running' : q.msg = r.msg /\ q.pc = pc /\ q.data = data
  BY <1>2, <1>3 DEF Handlers
<1>5. running' \in SUBSET Handlers /\ outbox' \in Seq(Answers)
  BY <1>1, <1>3 DEF Await, WorkerTypes
<1>6. FilesAreRight'
  <2>1. Fallen' <=> pc = "fallback"
    <3>1. \E q \in running' : q.pc = pc
      BY <1>3, <1>4
    <3>. QED BY <1>2, <1>4, <3>1 DEF Fallen, Moving
  <2>2. UNCHANGED <<page, link, group>>
    BY DEF Moving, transferVars
  <2>3. Unverified' => Downloading
    BY <1>2, <1>3, <1>4, <2>2 DEF Unverified, AllDone, Active, Downloading
  <2>. QED BY <2>1, <2>3
<1>7. \A m \in Requested' : m \in Queued \/ (m = r.msg /\ (m.type = "encrypt" => w'.uploadRead = w.uploadRead))
  BY <1>3 DEF Requested
<1>8. \A q \in running' : HandlerIsRight(q)'
  BY <1>4
<1> DEFINE A == {}
<1>9. Replies' \subseteq Replies \cup A /\ \A a \in A : Told(a)'
  BY <1>3
<1> HIDE DEF A
<1>. QED BY <1>3, <1>5, <1>6, <1>7, <1>8, <1>9, HandlerMoves DEF Moving

(* A handler answers. *)
LEMMA HandlerReplies ==
  ASSUME IInv, NEW r \in running, Moving(r), NEW type, NEW data, Reply(r, type, data), type # "ready",
         [id |-> r.msg.id, type |-> type, data |-> data] \in Answers,
         (Unverified' => Downloading) /\ ~Fallen' => FilesAreRight',
         \A a : a.id = r.msg.id /\ a.type = type /\ a.data = data => Told(a)'
  PROVE  IInv'
<1>1. WorkerTypes /\ Pending /\ InTurn
  BY DEF IInv
<1>2. /\ worker = "up" /\ r \in Handlers /\ r.msg \in Messages
      /\ \A m \in Queued : m.type # "verifyAndDecrypt"
  BY RunningIs
<1> DEFINE a == [id |-> r.msg.id, type |-> type, data |-> data]
           A == {a}
<1>3. /\ InTurn' /\ running = {r} /\ running' = {} /\ outbox' \in Seq(Answers)
      /\ Queued' = Queued /\ Requested' \subseteq Requested
      /\ Replies' = Replies \cup A
  BY <1>1, <1>2, ReplyKeepsTurn DEF Moving
<1>4. \A b \in A : Told(b)'
  OBVIOUS
<1> HIDE DEF A, a
<1>5. FilesAreRight'
  <2>1. ~Fallen'
    BY <1>2, <1>3 DEF Fallen, Moving
  <2>2. UNCHANGED <<page, link, group>>
    BY DEF Moving, transferVars
  <2>3. Unverified' => Downloading
    BY <1>2, <1>3, <2>2 DEF Unverified, AllDone, Active, Downloading
  <2>. QED BY <2>1, <2>3
<1>6. \A m \in Requested' : m \in Queued
  BY <1>3 DEF Requested, Queued
<1>7. running' \in SUBSET Handlers /\ \A q \in running' : HandlerIsRight(q)'
  BY <1>3
<1>. QED BY <1>3, <1>4, <1>5, <1>6, <1>7, HandlerMoves DEF Moving

(* A handler answers with an error, for a reason. *)
LEMMA HandlerFails ==
  ASSUME IInv, NEW r \in running, UNCHANGED <<worker, ready, pending, nextId, inbox, swept, w, opfs, shorts>>,
         UNCHANGED transferVars, Reply(r, "error", <<>>), Excuse, r.pc # "fallback"
  PROVE  IInv'
<1>1. WorkerTypes /\ FilesAreRight
  BY DEF IInv
<1>2. worker = "up" /\ r.msg.id \in Nat /\ running = {r}
  BY RunningIs
<1>3. UNCHANGED <<page, outcome, group, store, sent, inner, link, result, deleting, faults>>
  BY DEF transferVars
<1>4. Moving(r)
  <2>1. \A i \in Chunks : Kept(i) => Kept(i)'
    BY KeptSame
  <2>. QED BY <1>1, <2>1 DEF Moving, WorkerTypes
<1>5. [id |-> r.msg.id, type |-> "error", data |-> <<>>] \in Answers
  BY <1>2 DEF Answers, Bodies
<1>6. Excuse'
  BY <1>3 DEF Excuse
<1>7. \A a : a.id = r.msg.id /\ a.type = "error" /\ a.data = <<>> => Told(a)'
  BY <1>6 DEF Told
<1>8. ASSUME Unverified' => Downloading, ~Fallen' PROVE FilesAreRight'
  <2>1. Unverified' => Unverified
    BY <1>8 DEF Unverified, Downloading
  <2>2. ~Fallen
    BY <1>2 DEF Fallen
  <2>3. page' = "uploading" => w.uploadRead
    BY <1>1, <1>3 DEF FilesAreRight
  <2>4. page' \in {"link", "resolve"} => w = FreshWorker
    BY <1>1, <1>3 DEF FilesAreRight
  <2>. QED BY <1>1, <1>3, <1>8, <2>1, <2>2, <2>3, <2>4, FilesStay
<1>. QED BY <1>4, <1>5, <1>7, <1>8, HandlerReplies

(* handleReadChunk. *)
LEMMA handleReadChunkStep ==
  ASSUME IInv, NEW r \in running, handleReadChunk(r),
         UNCHANGED <<worker, ready, pending, nextId, inbox, swept>>, UNCHANGED transferVars
  PROVE  IInv'
<1>1. /\ WorkerTypes /\ FilesAreRight /\ Phases /\ GroupsAreRight /\ TransferTypes
  BY DEF IInv
<1>2. /\ worker = "up" /\ r.msg.id \in Nat /\ running = {r} /\ HandlerIsRight(r) /\ Asked(r.msg)
  BY RunningIs
<1>3. r.msg.type = "readChunk" /\ UNCHANGED <<w, opfs, shorts>>
  BY DEF handleReadChunk
<1>4. r.pc = "begin"
  BY <1>2, <1>3 DEF HandlerIsRight
<1> DEFINE s == pending[r.msg.id]
<1>5. /\ s \in Server /\ group[s].pc = "read" /\ r.msg.off = Offset(No(s)) /\ r.msg.size = Size[No(s)]
  BY <1>2, <1>3 DEF Asked
<1>6. No(s) \in Chunks /\ link = <<>> /\ ~AllDone
  BY <1>1, <1>5, FirstIs DEF Active, AllDone, GroupsAreRight, GroupIsRight
<1>7. UNCHANGED <<page, outcome, group, store, sent, inner, link, result, deleting, faults>>
  BY DEF transferVars
<1>8. CASE w.uploadRead
  <2>1. opfs.upload = <<EncData>>
    BY <1>1, <1>8 DEF FilesAreRight
  <2>2. ReadAt(opfs.upload[1], r.msg.off, r.msg.size) = Cells(No(s))
    BY <1>5, <1>6, <2>1, ReadWhole
  <2>3. Reply(r, "chunk", Cells(No(s)))
    BY <1>8, <2>2 DEF handleReadChunk
  <2>4. Moving(r)
    <3>1. \A i \in Chunks : Kept(i) => Kept(i)'
      BY <1>3, KeptSame
    <3>. QED BY <1>1, <1>3, <3>1 DEF Moving, WorkerTypes
  <2>5. [id |-> r.msg.id, type |-> "chunk", data |-> Cells(No(s))] \in Answers
    BY <1>2, <1>6 DEF Answers, Bodies
  <2>6. \A a : a.id = r.msg.id /\ a.type = "chunk" /\ a.data = Cells(No(s)) => Told(a)'
    BY <1>5, <1>7 DEF Told, No
  <2>7. ASSUME Unverified' => Downloading, ~Fallen' PROVE FilesAreRight'
    <3>1. Unverified' => Unverified
      BY <2>7 DEF Unverified, Downloading
    <3>2. ~Fallen
      BY <1>2, <1>4 DEF Fallen
    <3>3. page' = "uploading" => w.uploadRead
      BY <1>1, <1>7 DEF FilesAreRight
    <3>4. page' \in {"link", "resolve"} => w = FreshWorker
      BY <1>1, <1>7 DEF FilesAreRight
    <3>. QED BY <1>1, <1>3, <1>7, <2>7, <3>1, <3>2, <3>3, <3>4, FilesStay
  <2> HIDE DEF s
  <2>. QED BY <2>3, <2>4, <2>5, <2>6, <2>7, HandlerReplies
<1>9. CASE ~w.uploadRead
  <2>1. Reply(r, "error", <<>>)
    BY <1>9 DEF handleReadChunk
  <2>2. page # "uploading"
    BY <1>1, <1>9 DEF FilesAreRight
  <2>3. outcome = "error"
    BY <1>1, <1>2, <1>6, <2>2 DEF Phases, Over, TransferTypes
  <2>4. Excuse
    BY <1>1, <2>3 DEF Phases
  <2>. QED BY <1>3, <1>4, <2>1, <2>4, HandlerFails
<1>. QED BY <1>8, <1>9

(* Opening the session directory. *)
LEMMA OpenIs ==
  ASSUME NEW state \in WorkerStates
  PROVE  /\ OpenDir(state) \in WorkerStates /\ OpenDir(state).sessionDir
         /\ OpenDir(state).uploadRead = state.uploadRead /\ OpenDir(state).leaked = state.leaked
         /\ OpenDir(state).downloadWrite = state.downloadWrite /\ OpenDir(state).meta = state.meta
         /\ OpenDir(state).offset = state.offset /\ OpenDir(state).useMemory = state.useMemory
         /\ OpenDir(state).memory = state.memory
BY DEF OpenDir, WorkerStates

(* The directory is there, unless it was swept. *)
LEMMA MakeIs ==
  ASSUME WorkerTypes, FilesAreRight
  PROVE  LET files == MakeDir(opfs)
         IN /\ files \in [dir : BOOLEAN, upload : Slots, download : Slots]
            /\ swept = 0 => files.dir
            /\ files.upload = opfs.upload /\ files.download = opfs.download
BY DEF WorkerTypes, FilesAreRight, MakeDir

(* What is kept does not depend on the directory. *)
LEMMA KeptAlike ==
  ASSUME w'.meta = w.meta, w'.memory = w.memory, opfs'.download = opfs.download
  PROVE  (\A i : Kept(i)' <=> Kept(i)) /\ (AllKept' <=> AllKept)
BY DEF Kept, OnDisk, AllKept

(* The encrypted file, or a part of it, is a file. *)
LEMMA EncFiles ==
  /\ EncData \in Files /\ SubSeq(EncData, 1, Len(EncData) - 1) \in Files
  /\ <<EncData>> \in Slots /\ <<SubSeq(EncData, 1, Len(EncData) - 1)>> \in Slots
<1> DEFINE V == Chunks \X Nat
           U == V \cup {0}
<1>1. EncData \in Seq(V) /\ V \subseteq U
  BY EncLayout
<1> HIDE DEF V, U
<1>2. EncData \in Seq(U)
  BY <1>1
<1> DEFINE e == EncData
<1>3. e \in Seq(U) /\ Len(e) \in Nat
  BY <1>2
<1> HIDE DEF e
<1>4. SubSeq(e, 1, Len(e) - 1) \in Seq(U)
  BY <1>3
<1>. QED BY <1>2, <1>4 DEF Files, U, V, Slots, e

(* handleEncrypt. *)
LEMMA handleEncryptStep ==
  ASSUME IInv, NEW r \in running, handleEncrypt(r),
         UNCHANGED <<worker, ready, pending, nextId, inbox, swept>>, UNCHANGED transferVars
  PROVE  IInv'
<1>1. /\ WorkerTypes /\ FilesAreRight /\ Phases /\ TransferTypes
  BY DEF IInv
<1>2. /\ worker = "up" /\ r.msg.id \in Nat /\ running = {r} /\ HandlerIsRight(r) /\ Asked(r.msg)
      /\ r \in Handlers
  BY RunningIs
<1>3. r.msg.type = "encrypt"
  BY DEF handleEncrypt
<1>4. pending[r.msg.id] = "page" /\ page = "encrypting" /\ ~w.uploadRead
  BY <1>2, <1>3, TransferConstants DEF Asked
<1>5. UNCHANGED <<page, outcome, group, store, sent, inner, link, result, deleting, faults>>
  BY DEF transferVars
<1>6. ~Downloading /\ r.pc \in {"begin", "write"}
  BY <1>1, <1>2, <1>3, <1>4 DEF Downloading, Phases, HandlerIsRight
<1>7. ~Fallen
  BY <1>2, <1>6 DEF Fallen
<1>8. w \in WorkerStates /\ opfs \in [dir : BOOLEAN, upload : Slots, download : Slots] /\ shorts \in Nat
  BY <1>1 DEF WorkerTypes
<1>9. CASE /\ r.pc = "begin" /\ w' = OpenDir(w) /\ opfs' = MakeDir(opfs)
           /\ Await(r, "write", <<>>) /\ UNCHANGED shorts
  <2>1. /\ w' \in WorkerStates /\ w'.sessionDir /\ w'.uploadRead = w.uploadRead /\ w'.leaked = w.leaked
        /\ w'.downloadWrite = w.downloadWrite /\ w'.meta = w.meta
        /\ w'.offset = w.offset /\ w'.useMemory = w.useMemory /\ w'.memory = w.memory
    BY <1>8, <1>9, OpenIs
  <2>2. /\ opfs' \in [dir : BOOLEAN, upload : Slots, download : Slots] /\ (swept = 0 => opfs'.dir)
        /\ opfs'.upload = opfs.upload /\ opfs'.download = opfs.download
    BY <1>1, <1>9, MakeIs
  <2>3. Moving(r)
    BY <1>4, <1>8, <1>9, <2>1, <2>2 DEF Moving
  <2>4. [r EXCEPT !.pc = "write", !.data = <<>>] \in Handlers
    BY <1>2 DEF Handlers, Bodies
  <2>5. \A q : q.msg = r.msg /\ q.pc = "write" /\ q.data = <<>> => HandlerIsRight(q)'
    BY <1>3, <2>1 DEF HandlerIsRight
  <2>6. ASSUME Unverified' => Downloading, Fallen' <=> "write" = "fallback" PROVE FilesAreRight'
    BY <1>1, <1>4, <1>5, <1>6, <1>7, <2>1, <2>2, <2>6 DEF FilesAreRight, Laid
  <2>. QED BY <1>9, <2>1, <2>3, <2>4, <2>5, <2>6, HandlerAwaits
<1>10. CASE /\ r.pc = "write" /\ opfs.dir /\ opfs' = [opfs EXCEPT !.upload = <<EncData>>]
            /\ w' = [w EXCEPT !.uploadRead = TRUE] /\ Reply(r, "encrypted", Size) /\ UNCHANGED shorts
  <2>1. /\ w' \in WorkerStates /\ w'.uploadRead /\ w'.leaked = w.leaked /\ w'.sessionDir = w.sessionDir
        /\ w'.downloadWrite = w.downloadWrite /\ w'.meta = w.meta
        /\ w'.offset = w.offset /\ w'.useMemory = w.useMemory /\ w'.memory = w.memory
    BY <1>8, <1>10 DEF WorkerStates
  <2>2. /\ opfs' \in [dir : BOOLEAN, upload : Slots, download : Slots] /\ opfs'.dir = opfs.dir
        /\ opfs'.upload = <<EncData>> /\ opfs'.download = opfs.download
    BY <1>8, <1>10, EncFiles
  <2>3. Moving(r)
    BY <1>4, <1>8, <1>10, <2>1, <2>2 DEF Moving
  <2>4. [id |-> r.msg.id, type |-> "encrypted", data |-> Size] \in Answers
    BY <1>2 DEF Answers
  <2>5. \A a : a.id = r.msg.id /\ a.type = "encrypted" /\ a.data = Size => Told(a)'
    BY <1>4, <1>5, <2>1 DEF Told
  <2>6. ASSUME Unverified' => Downloading, ~Fallen' PROVE FilesAreRight'
    BY <1>1, <1>4, <1>5, <1>6, <1>7, <2>1, <2>2, <2>6 DEF FilesAreRight, Laid
  <2>. QED BY <1>10, <2>3, <2>4, <2>5, <2>6, HandlerReplies
<1>11. CASE /\ r.pc = "write" /\ opfs.dir /\ Short
            /\ opfs' = [opfs EXCEPT !.upload = <<SubSeq(EncData, 1, Len(EncData) - 1)>>]
            /\ w' = [w EXCEPT !.leaked = TRUE] /\ Reply(r, "error", <<>>)
  <2>1. /\ w' \in WorkerStates /\ ~w'.uploadRead /\ w'.leaked /\ w'.sessionDir = w.sessionDir
        /\ w'.downloadWrite = w.downloadWrite /\ w'.meta = w.meta
        /\ w'.offset = w.offset /\ w'.useMemory = w.useMemory /\ w'.memory = w.memory
    BY <1>4, <1>8, <1>11 DEF WorkerStates
  <2>2. /\ opfs' \in [dir : BOOLEAN, upload : Slots, download : Slots] /\ opfs'.dir = opfs.dir
        /\ opfs'.download = opfs.download
    BY <1>8, <1>11, EncFiles
  <2>3. shorts' \in Nat
    BY <1>8, <1>11 DEF Short
  <2>4. Moving(r)
    BY <1>4, <1>8, <1>11, <2>1, <2>2, <2>3 DEF Moving
  <2>5. [id |-> r.msg.id, type |-> "error", data |-> <<>>] \in Answers
    BY <1>2 DEF Answers, Bodies
  <2>6. \A a : a.id = r.msg.id /\ a.type = "error" /\ a.data = <<>> => Told(a)'
    BY <2>1 DEF Told, Excuse
  <2>7. ASSUME Unverified' => Downloading, ~Fallen' PROVE FilesAreRight'
    BY <1>1, <1>4, <1>5, <1>6, <1>7, <2>1, <2>2, <2>7 DEF FilesAreRight, Laid
  <2>. QED BY <1>11, <2>4, <2>5, <2>6, <2>7, HandlerReplies
<1>12. CASE r.pc = "write" /\ ~opfs.dir /\ Reply(r, "error", <<>>) /\ UNCHANGED <<w, opfs, shorts>>
  <2>1. w.sessionDir
    BY <1>2, <1>3, <1>12 DEF HandlerIsRight
  <2>2. swept \in Nat /\ swept # 0
    BY <1>1, <1>12, <2>1 DEF FilesAreRight, TransferTypes
  <2>3. Excuse
    BY <2>2 DEF Excuse
  <2>. QED BY <1>12, <2>3, HandlerFails
<1>. QED BY <1>9, <1>10, <1>11, <1>12 DEF handleEncrypt

(* The state without a download. *)
LEMMA ClearedIs ==
  ASSUME w \in WorkerStates
  PROVE  /\ Cleared \in WorkerStates /\ Cleared.sessionDir = w.sessionDir
         /\ Cleared.uploadRead = w.uploadRead /\ Cleared.leaked = w.leaked
         /\ Cleared.downloadWrite = w.downloadWrite /\ Cleared.meta = Empty
         /\ Cleared.offset = 0 /\ ~Cleared.useMemory /\ Cleared.memory = Empty
<1>1. Empty \in Maps([offset : Nat, size : Nat]) /\ Empty \in Maps(Bodies)
  BY EmptyIs
<1>. QED BY <1>1 DEF Cleared, WorkerStates

(* A file that is there has a length. *)
LEMMA FileIs ==
  ASSUME WorkerTypes, opfs.download # <<>>
  PROVE  opfs.download[1] \in Files /\ Len(opfs.download[1]) \in Nat /\ opfs.download = <<opfs.download[1]>>
<1>1. opfs.download \in Slots
  BY DEF WorkerTypes
<1>2. PICK f \in Files : opfs.download = <<f>>
  BY <1>1 DEF Slots
<1>3. opfs.download[1] = f
  BY <1>2
<1>4. Len(f) \in Nat
  BY DEF Files
<1>. QED BY <1>2, <1>3, <1>4

(* handleVerifyAndDecrypt. *)
LEMMA handleVerifyAndDecryptStep ==
  ASSUME IInv, NEW r \in running, handleVerifyAndDecrypt(r),
         UNCHANGED <<worker, ready, pending, nextId, inbox, swept>>, UNCHANGED transferVars
  PROVE  IInv'
<1>1. /\ WorkerTypes /\ FilesAreRight /\ Phases /\ TransferTypes
  BY DEF IInv
<1>2. /\ worker = "up" /\ r.msg.id \in Nat /\ running = {r} /\ HandlerIsRight(r) /\ Asked(r.msg)
      /\ r \in Handlers
  BY RunningIs
<1>3. r.msg.type = "verifyAndDecrypt" /\ UNCHANGED shorts
  BY DEF handleVerifyAndDecrypt
<1>4. pending[r.msg.id] = "page" /\ page = "verifying"
  BY <1>2, <1>3, TransferConstants DEF Asked
<1>5. UNCHANGED <<page, outcome, group, store, sent, inner, link, result, deleting, faults>>
  BY DEF transferVars
<1>6. ~Downloading /\ r.pc \in {"begin", "read", "clear"}
  BY <1>1, <1>2, <1>3, <1>4 DEF Downloading, Phases, HandlerIsRight
<1>7. ~Fallen
  BY <1>2, <1>6 DEF Fallen
<1>8. w \in WorkerStates /\ opfs \in [dir : BOOLEAN, upload : Slots, download : Slots] /\ shorts \in Nat
      /\ DOMAIN w.meta \subseteq Chunks /\ DOMAIN w.memory \subseteq Chunks
  <2>1. w \in WorkerStates /\ opfs \in [dir : BOOLEAN, upload : Slots, download : Slots] /\ shorts \in Nat
    BY <1>1 DEF WorkerTypes
  <2>2. w.meta \in Maps([offset : Nat, size : Nat]) /\ w.memory \in Maps(Bodies)
    BY <2>1 DEF WorkerStates
  <2>. QED BY <2>1, <2>2, MapsIs
<1>9. \A d : d = EncData => /\ [id |-> r.msg.id, type |-> "decrypted", data |-> d] \in Answers
                            /\ \A a : a.id = r.msg.id /\ a.type = "decrypted" /\ a.data = d => Told(a)'
  <2>1. [id |-> r.msg.id, type |-> "decrypted", data |-> EncData] \in Answers
    BY <1>2 DEF Answers
  <2>2. \A a : a.id = r.msg.id /\ a.type = "decrypted" /\ a.data = EncData => Told(a)'
    BY <1>4, <1>5 DEF Told
  <2>. QED BY <2>1, <2>2
<1>10. CASE r.pc = "begin" /\ w.useMemory
  <2>1. AllKept
    BY <1>2, <1>3, <1>10 DEF HandlerIsRight
  <2>2. DOMAIN w.meta = {}
    BY <1>1, <1>10, EmptyIs DEF FilesAreRight
  <2>3. DOMAIN w.memory = Chunks /\ \A i \in Chunks : w.memory[i] = Cells(i)
    BY <1>8, <2>1, <2>2 DEF AllKept, Kept
  <2>4. InOrder(w.memory) = EncData
    BY <2>3, InOrderAll
  <2>5. w' = Cleared /\ Reply(r, "decrypted", EncData) /\ UNCHANGED opfs
    BY <1>10, <2>4 DEF handleVerifyAndDecrypt
  <2>6. /\ w' \in WorkerStates /\ w'.sessionDir = w.sessionDir
        /\ w'.uploadRead = w.uploadRead /\ w'.leaked = w.leaked
        /\ w'.downloadWrite = w.downloadWrite /\ w'.meta = Empty
        /\ w'.offset = 0 /\ ~w'.useMemory /\ w'.memory = Empty
    BY <1>8, <2>5, ClearedIs
  <2>7. Moving(r)
    BY <1>3, <1>4, <1>8, <2>5, <2>6 DEF Moving
  <2>8. ASSUME Unverified' => Downloading, ~Fallen' PROVE FilesAreRight'
    <3>1. w.downloadWrite => opfs.download # <<>> /\ 0 <= Len(opfs.download[1])
      BY <1>1, FileIs DEF FilesAreRight
    <3>2. w'.downloadWrite => opfs'.download # <<>> /\ Laid(w', opfs'.download[1])
      BY <2>5, <2>6, <3>1, EmptyIs DEF Laid
    <3>. QED BY <1>1, <1>4, <1>5, <1>6, <2>5, <2>6, <2>8, <3>2, EmptyIs DEF FilesAreRight
  <2>. QED BY <1>9, <2>5, <2>7, <2>8, HandlerReplies
<1>11. CASE r.pc = "begin" /\ ~w.useMemory
  <2>1. w' = OpenDir([w EXCEPT !.downloadWrite = FALSE]) /\ opfs' = MakeDir(opfs) /\ Await(r, "read", <<>>)
    BY <1>11 DEF handleVerifyAndDecrypt
  <2>2. /\ w' \in WorkerStates /\ w'.sessionDir /\ w'.uploadRead = w.uploadRead /\ w'.leaked = w.leaked
        /\ ~w'.downloadWrite /\ w'.meta = w.meta
        /\ w'.offset = w.offset /\ ~w'.useMemory /\ w'.memory = w.memory
    BY <1>8, <1>11, <2>1 DEF OpenDir, WorkerStates
  <2>3. /\ opfs' \in [dir : BOOLEAN, upload : Slots, download : Slots] /\ (swept = 0 => opfs'.dir)
        /\ opfs'.upload = opfs.upload /\ opfs'.download = opfs.download
    BY <1>1, <2>1, MakeIs
  <2>4. Moving(r)
    BY <1>3, <1>4, <1>8, <2>1, <2>2, <2>3 DEF Moving
  <2>5. [r EXCEPT !.pc = "read", !.data = <<>>] \in Handlers
    BY <1>2 DEF Handlers, Bodies
  <2>6. AllKept'
    <3>1. AllKept
      BY <1>2, <1>3, <1>11 DEF HandlerIsRight
    <3>. QED BY <2>2, <2>3, <3>1, KeptAlike
  <2>7. \A q : q.msg = r.msg /\ q.pc = "read" /\ q.data = <<>> => HandlerIsRight(q)'
    BY <1>3, <2>2, <2>6 DEF HandlerIsRight
  <2>8. ASSUME Unverified' => Downloading, Fallen' <=> "read" = "fallback" PROVE FilesAreRight'
    BY <1>1, <1>4, <1>5, <1>6, <1>7, <1>11, <2>2, <2>3, <2>8 DEF FilesAreRight
  <2>. QED BY <1>3, <2>1, <2>4, <2>5, <2>7, <2>8, HandlerAwaits
<1>12. CASE r.pc = "read"
  <2>1. ~w.useMemory /\ ~w.downloadWrite /\ (swept = 0 => AllKept) /\ UNCHANGED <<w, opfs>>
    BY <1>2, <1>3, <1>12 DEF HandlerIsRight, handleVerifyAndDecrypt
  <2>2. CASE opfs.download # <<>> /\ InOrder(OnDisk) = EncData
    <3>1. Await(r, "clear", EncData)
      BY <1>12, <2>2 DEF handleVerifyAndDecrypt
    <3>2. Moving(r)
      BY <1>3, <1>4, <1>8, <2>1 DEF Moving
    <3>3. [r EXCEPT !.pc = "clear", !.data = EncData] \in Handlers
      BY <1>2 DEF Handlers
    <3>4. \A q : q.msg = r.msg /\ q.pc = "clear" /\ q.data = EncData => HandlerIsRight(q)'
      BY <1>3, <2>1 DEF HandlerIsRight
    <3>5. ASSUME Unverified' => Downloading, Fallen' <=> "clear" = "fallback" PROVE FilesAreRight'
      BY <1>1, <1>4, <1>5, <1>6, <1>7, <2>1, <3>5 DEF FilesAreRight
    <3>. QED BY <1>3, <3>1, <3>2, <3>3, <3>4, <3>5, HandlerAwaits
  <2>3. CASE ~(opfs.download # <<>> /\ InOrder(OnDisk) = EncData)
    <3>1. Reply(r, "error", <<>>)
      BY <1>12, <2>3 DEF handleVerifyAndDecrypt
    <3>2. ASSUME AllKept PROVE FALSE
      <4>1. DOMAIN w.memory = {}
        BY <1>1, <1>7, <2>1, EmptyIs DEF FilesAreRight
      <4>2. \A i \in Chunks : i \in DOMAIN w.meta /\ opfs.download # <<>> /\ OnDisk[i] = Cells(i)
        BY <3>2, <4>1 DEF AllKept, Kept
      <4>3. DOMAIN OnDisk = Chunks
        BY <1>8, <4>2 DEF OnDisk
      <4> DEFINE map == OnDisk
      <4>4. DOMAIN map = Chunks /\ \A i \in Chunks : map[i] = Cells(i)
        BY <4>2, <4>3
      <4> HIDE DEF map
      <4>5. InOrder(map) = EncData
        BY <4>4, InOrderAll
      <4>6. \E i : i \in Chunks
        <5>1. 1 \in Chunks
          BY Sizes
        <5>. QED BY <5>1
      <4>. QED BY <2>3, <4>2, <4>5, <4>6 DEF map
    <3>3. swept \in Nat /\ swept # 0
      BY <1>1, <2>1, <3>2 DEF TransferTypes
    <3>4. Excuse
      BY <3>3 DEF Excuse
    <3>. QED BY <1>3, <1>12, <2>1, <3>1, <3>4, HandlerFails
  <2>. QED BY <2>2, <2>3
<1>13. CASE r.pc = "clear"
  <2>1. /\ ~w.downloadWrite /\ r.data = EncData /\ opfs' = [opfs EXCEPT !.download = <<>>]
        /\ w' = Cleared /\ Reply(r, "decrypted", EncData)
    BY <1>2, <1>3, <1>13 DEF HandlerIsRight, handleVerifyAndDecrypt
  <2>2. /\ w' \in WorkerStates /\ w'.sessionDir = w.sessionDir
        /\ w'.uploadRead = w.uploadRead /\ w'.leaked = w.leaked
        /\ ~w'.downloadWrite /\ w'.meta = Empty
        /\ w'.offset = 0 /\ ~w'.useMemory /\ w'.memory = Empty
    BY <1>8, <2>1, ClearedIs
  <2>3. /\ opfs' \in [dir : BOOLEAN, upload : Slots, download : Slots]
        /\ opfs'.dir = opfs.dir /\ opfs'.upload = opfs.upload
    BY <1>8, <2>1 DEF Slots
  <2>4. Moving(r)
    BY <1>3, <1>4, <1>8, <2>2, <2>3 DEF Moving
  <2>5. ASSUME Unverified' => Downloading, ~Fallen' PROVE FilesAreRight'
    BY <1>1, <1>4, <1>5, <1>6, <2>2, <2>3, <2>5, EmptyIs DEF FilesAreRight
  <2>. QED BY <1>9, <2>1, <2>4, <2>5, HandlerReplies
<1>. QED BY <1>6, <1>10, <1>11, <1>12, <1>13

(* handleCleanup. *)
LEMMA handleCleanupStep ==
  ASSUME IInv, NEW r \in running, handleCleanup(r),
         UNCHANGED <<worker, ready, pending, nextId, inbox, swept>>, UNCHANGED transferVars
  PROVE  IInv'
<1>1. /\ WorkerTypes /\ FilesAreRight /\ Phases /\ TransferTypes
  BY DEF IInv
<1>2. /\ worker = "up" /\ r.msg.id \in Nat /\ running = {r} /\ HandlerIsRight(r) /\ Asked(r.msg)
      /\ r \in Handlers
  BY RunningIs
<1>3. r.msg.type = "cleanup" /\ UNCHANGED shorts
  BY DEF handleCleanup
<1>4. pending[r.msg.id] = "page" /\ page = "cleaning"
  BY <1>2, <1>3, TransferConstants DEF Asked
<1>5. UNCHANGED <<page, outcome, group, store, sent, inner, link, result, deleting, faults>>
  BY DEF transferVars
<1>6. r.pc \in {"begin", "remove"}
  BY <1>2, <1>3 DEF HandlerIsRight
<1>7. ~Fallen
  BY <1>2, <1>6 DEF Fallen
<1>8. w \in WorkerStates /\ opfs \in [dir : BOOLEAN, upload : Slots, download : Slots] /\ shorts \in Nat
  BY <1>1 DEF WorkerTypes
<1>9. CASE r.pc = "begin"
  <2>1. /\ w' = [Cleared EXCEPT !.uploadRead = FALSE, !.downloadWrite = FALSE]
        /\ Await(r, "remove", <<>>) /\ UNCHANGED opfs
    BY <1>9 DEF handleCleanup
  <2> DEFINE c == Cleared
  <2>2. /\ c \in WorkerStates /\ c.sessionDir = w.sessionDir /\ c.leaked = w.leaked /\ c.meta = Empty
        /\ c.offset = 0 /\ ~c.useMemory /\ c.memory = Empty
    BY <1>8, ClearedIs
  <2>3. w' = [c EXCEPT !.uploadRead = FALSE, !.downloadWrite = FALSE]
    BY <2>1
  <2> HIDE DEF c
  <2>4. /\ w' \in WorkerStates /\ w'.sessionDir = w.sessionDir
        /\ ~w'.uploadRead /\ w'.leaked = w.leaked
        /\ ~w'.downloadWrite /\ w'.meta = Empty
        /\ w'.offset = 0 /\ ~w'.useMemory /\ w'.memory = Empty
    BY <2>2, <2>3 DEF WorkerStates
  <2>5. Moving(r)
    BY <1>3, <1>4, <1>8, <2>1, <2>4 DEF Moving
  <2>6. [r EXCEPT !.pc = "remove", !.data = <<>>] \in Handlers
    BY <1>2 DEF Handlers, Bodies
  <2>7. \A q : q.msg = r.msg /\ q.pc = "remove" /\ q.data = <<>> => HandlerIsRight(q)'
    BY <1>3, <2>4 DEF HandlerIsRight
  <2>8. ASSUME Unverified' => Downloading, Fallen' <=> "remove" = "fallback" PROVE FilesAreRight'
    BY <1>1, <1>4, <1>5, <2>1, <2>4, <2>8, EmptyIs DEF FilesAreRight
  <2>. QED BY <1>3, <2>1, <2>5, <2>6, <2>7, <2>8, HandlerAwaits
<1>10. CASE r.pc = "remove"
  <2>1. /\ ~w.uploadRead /\ ~w.downloadWrite /\ opfs' = (IF w.leaked THEN opfs ELSE NoFiles)
        /\ w' = [w EXCEPT !.sessionDir = FALSE] /\ Reply(r, "cleaned", <<>>)
    BY <1>2, <1>3, <1>10 DEF HandlerIsRight, handleCleanup
  <2>2. /\ w' \in WorkerStates /\ ~w'.sessionDir /\ ~w'.uploadRead /\ w'.leaked = w.leaked
        /\ ~w'.downloadWrite /\ w'.meta = w.meta
        /\ w'.offset = w.offset /\ w'.useMemory = w.useMemory /\ w'.memory = w.memory
    BY <1>8, <2>1 DEF WorkerStates
  <2>3. opfs' \in [dir : BOOLEAN, upload : Slots, download : Slots]
    BY <1>8, <2>1, FreshIs
  <2>4. Moving(r)
    BY <1>3, <1>4, <1>8, <2>2, <2>3 DEF Moving
  <2>5. [id |-> r.msg.id, type |-> "cleaned", data |-> <<>>] \in Answers
    BY <1>2 DEF Answers, Bodies
  <2>6. \A a : a.id = r.msg.id /\ a.type = "cleaned" /\ a.data = <<>> => Told(a)'
    BY <1>4, <1>5 DEF Told
  <2>7. ASSUME Unverified' => Downloading, ~Fallen' PROVE FilesAreRight'
    <3>1. Unverified' => Unverified
      BY <2>7 DEF Unverified, Downloading
    <3>. QED BY <1>1, <1>4, <1>5, <1>7, <2>1, <2>2, <3>1 DEF FilesAreRight
  <2>. QED BY <2>1, <2>4, <2>5, <2>6, <2>7, HandlerReplies
<1>. QED BY <1>6, <1>9, <1>10

(* Where chunks are laid they can be read. *)
LEMMA LaidReads ==
  ASSUME NEW state \in WorkerStates, NEW file \in Files, Laid(state, file), NEW i \in DOMAIN state.meta
  PROVE  /\ i \in Chunks
         /\ ReadAt(file, state.meta[i].offset, state.meta[i].size) = Cells(i)
<1>1. state.meta \in Maps([offset : Nat, size : Nat]) /\ state.offset \in Nat
  BY DEF WorkerStates
<1>2. i \in Chunks /\ state.meta[i] \in [offset : Nat, size : Nat]
  BY <1>1, MapsIs
<1> DEFINE off == state.meta[i].offset
           n == state.meta[i].size
<1>3. off \in Nat /\ n = Size[i] /\ off + n <= state.offset /\ n \in Nat
      /\ \A k \in 1..Size[i] : file[off + k] = <<i, k>>
  BY <1>2 DEF Laid
<1>4. state.offset <= Len(file) /\ Len(file) \in Nat
  BY DEF Laid, Files
<1> HIDE DEF off, n
<1>5. \A k \in 1..n : off + k <= Len(file) /\ file[off + k] = <<i, k>>
  BY <1>1, <1>3, <1>4
<1>6. ReadAt(file, off, n) = [k \in 1..n |-> <<i, k>>]
  BY <1>5 DEF ReadAt
<1>. QED BY <1>2, <1>3, <1>6 DEF Cells, off, n

(* A chunk written at the end is laid there, and the others stay. *)
LEMMA WriteLaid ==
  ASSUME NEW state \in WorkerStates, NEW file \in Files, Laid(state, file), NEW no \in Chunks,
         NEW noted, noted.offset = state.offset + Size[no],
         noted.meta = With(state.meta, no, [offset |-> state.offset, size |-> Size[no]])
  PROVE  /\ WriteAt(file, state.offset, Cells(no)) \in Files
         /\ Laid(noted, WriteAt(file, state.offset, Cells(no)))
<1> DEFINE U == (Chunks \X Nat) \cup {0}
           off == state.offset
           new == Cells(no)
           n == Len(new)
           end == IF off + n > Len(file) THEN off + n ELSE Len(file)
           f == WriteAt(file, off, new)
<1>1. off \in Nat /\ state.meta \in Maps([offset : Nat, size : Nat])
  BY DEF WorkerStates
<1>2. n = Size[no] /\ n \in Nat /\ new \in Seq(Chunks \X Nat) /\ \A k \in 1..n : new[k] = <<no, k>>
  BY Sizes DEF Cells
<1>3. file \in Seq(U) /\ Len(file) \in Nat /\ off <= Len(file)
  BY DEF Files, Laid
<1>4. f = [k \in 1..end |-> IF k \in (off + 1)..(off + n) THEN new[k - off]
                            ELSE IF k <= Len(file) THEN file[k] ELSE 0]
  BY DEF WriteAt
<1>5. end \in Nat /\ off + n <= end /\ Len(file) <= end
  BY <1>1, <1>2, <1>3
<1>6. \A k \in 1..n : new[k] \in U
  BY <1>2
<1>a. \A k \in 1..Len(file) : file[k] \in U
  BY <1>3
<1> HIDE DEF U, off, new, n, f, end
<1>7. \A k \in 1..end : f[k] \in U
  <2> TAKE k \in 1..end
  <2>1. CASE k \in (off + 1)..(off + n)
    <3>1. k - off \in 1..n
      BY <1>1, <1>2, <2>1
    <3>. QED BY <1>4, <1>6, <2>1, <3>1
  <2>2. CASE k \notin (off + 1)..(off + n) /\ k <= Len(file)
    <3>1. k \in 1..Len(file)
      BY <1>3, <1>5, <2>2
    <3>. QED BY <1>4, <1>a, <2>2, <3>1
  <2>3. CASE k \notin (off + 1)..(off + n) /\ ~(k <= Len(file))
    <3>1. f[k] = 0
      BY <1>4, <2>3
    <3>. QED BY <3>1 DEF U
  <2>. QED BY <2>1, <2>2, <2>3
<1>8. f \in Seq(U) /\ Len(f) = end
  <2>1. f \in [1..end -> U]
    BY <1>4, <1>7
  <2>. QED BY <1>5, <2>1
<1>9. \A k \in 1..n : f[off + k] = <<no, k>>
  <2> TAKE k \in 1..n
  <2>1. off + k \in (off + 1)..(off + n) /\ off + k \in 1..end /\ (off + k) - off = k
    BY <1>1, <1>2, <1>5
  <2>. QED BY <1>2, <1>4, <2>1
<1>10. \A k \in 1..off : f[k] = file[k]
  <2> TAKE k \in 1..off
  <2>1. k \notin (off + 1)..(off + n) /\ k \in 1..end /\ k <= Len(file)
    BY <1>1, <1>2, <1>3, <1>5
  <2>. QED BY <1>4, <2>1
<1>11. /\ DOMAIN noted.meta = DOMAIN state.meta \cup {no}
       /\ noted.meta[no] = [offset |-> off, size |-> Size[no]]
       /\ \A i \in DOMAIN state.meta : i # no => noted.meta[i] = state.meta[i]
  BY DEF With, off
<1>12. noted.offset = off + n
  BY <1>2 DEF off
<1>13. ASSUME NEW i \in DOMAIN noted.meta
       PROVE  /\ noted.meta[i].size = Size[i] /\ noted.meta[i].offset + noted.meta[i].size <= noted.offset
              /\ \A k \in 1..Size[i] : f[noted.meta[i].offset + k] = <<i, k>>
  <2>1. CASE i = no
    <3>1. noted.meta[i].offset = off /\ noted.meta[i].size = Size[no]
      BY <1>11, <2>1
    <3>2. Size[i] = n
      BY <1>2, <2>1
    <3>3. off + n <= noted.offset
      BY <1>1, <1>2, <1>12
    <3>4. \A k \in 1..n : f[off + k] = <<i, k>>
      BY <1>9, <2>1
    <3> HIDE DEF Laid
    <3>. QED BY <2>1, <3>1, <3>2, <3>3, <3>4
  <2>2. CASE i # no
    <3>1. i \in DOMAIN state.meta /\ noted.meta[i] = state.meta[i]
      BY <1>11, <2>2
    <3>2. i \in Chunks /\ state.meta[i] \in [offset : Nat, size : Nat]
      BY <1>1, <3>1, MapsIs
    <3> DEFINE o == state.meta[i].offset
               z == state.meta[i].size
    <3>3. o \in Nat /\ z \in Nat /\ z = Size[i] /\ o + z <= off /\ \A k \in 1..Size[i] : file[o + k] = <<i, k>>
      BY <3>1, <3>2 DEF Laid, off
    <3>4. noted.meta[i].offset = o /\ noted.meta[i].size = z
      BY <3>1
    <3> HIDE DEF o, z
    <3>5. \A k \in 1..Size[i] : o + k \in 1..off
      BY <1>1, <3>3
    <3>6. \A k \in 1..Size[i] : f[o + k] = <<i, k>>
      BY <1>10, <3>3, <3>5
    <3>7. o + z <= off + n
      BY <1>1, <1>2, <3>3
    <3>. QED BY <1>12, <3>3, <3>4, <3>6, <3>7
  <2>. QED BY <2>1, <2>2
<1>14. noted.offset <= Len(f)
  BY <1>5, <1>8, <1>12
<1>15. Laid(noted, f)
  BY <1>13, <1>14 DEF Laid
<1>. QED BY <1>8, <1>15 DEF Files, U, f, off, new

(* Who stores a chunk, and which. *)
LEMMA StoringIs ==
  ASSUME IInv, NEW r \in running, r.msg.type = "decryptAndStoreChunk"
  PROVE  LET s == pending[r.msg.id]
         IN /\ s \in Server /\ group[s].pc = "storing" /\ r.msg.no = No(s) /\ No(s) \in Chunks
            /\ s # "page"
            /\ r.msg.body = Cells(r.msg.no) \/ faults > 0
            /\ link # <<>> /\ ~AllDone /\ Unverified /\ Downloading
            /\ page \notin {"file", "encrypting", "uploading", "link", "resolve"}
<1>1. Asked(r.msg) /\ GroupsAreRight /\ TransferTypes /\ Phases
  BY RunningIs DEF IInv
<1> DEFINE s == pending[r.msg.id]
<1>2. /\ s \in Server /\ group[s].pc = "storing" /\ r.msg.no = No(s) /\ r.msg.body = group[s].data
  BY <1>1 DEF Asked
<1>3. s # "page"
  BY <1>2, TransferConstants
<1> HIDE DEF s
<1>4. Active(s) /\ GroupIsRight(s)
  BY <1>1, <1>2 DEF Active, GroupsAreRight
<1>5. No(s) \in Chunks
  BY <1>1, <1>2, <1>4, FirstIs
<1>6. link # <<>> /\ (r.msg.body = Cells(r.msg.no) \/ faults > 0) /\ ~AllDone
  BY <1>2, <1>4 DEF GroupIsRight, AllDone
<1>7. page \notin {"file", "encrypting", "uploading", "link", "resolve"}
  BY <1>1, <1>6 DEF Phases
<1>. QED BY <1>2, <1>3, <1>5, <1>6, <1>7 DEF s, Unverified, Downloading

(* The answer that a chunk is stored. *)
LEMMA StoredIs ==
  ASSUME IInv, NEW r \in running, r.msg.type = "decryptAndStoreChunk", UNCHANGED transferVars, UNCHANGED pending,
         \A i \in Chunks : i = r.msg.no => Kept(i)'
  PROVE  /\ [id |-> r.msg.id, type |-> "stored", data |-> <<>>] \in Answers
         /\ \A a : a.id = r.msg.id /\ a.type = "stored" /\ a.data = <<>> => Told(a)'
<1>1. r.msg.id \in Nat
  BY RunningIs
<1>2. [id |-> r.msg.id, type |-> "stored", data |-> <<>>] \in Answers
  BY <1>1 DEF Answers, Bodies
<1> DEFINE s == pending[r.msg.id]
<1>3. s \in Server /\ group[s].pc = "storing" /\ r.msg.no = No(s) /\ No(s) \in Chunks
  BY StoringIs
<1> HIDE DEF s
<1>4. UNCHANGED <<page, group>>
  BY DEF transferVars
<1>5. No(s)' = No(s)
  BY <1>4 DEF No, s
<1>6. Kept(No(s))'
  <2>1. \A i \in Chunks : i = No(s) => Kept(i)'
    BY <1>3
  <2>. QED BY <1>3, <1>5, <2>1
<1>7. pending'[r.msg.id] = s
  BY DEF s
<1>8. ASSUME NEW a, a.id = r.msg.id, a.type = "stored" PROVE Told(a)'
  <2>1. pending'[a.id] = s /\ group'[s].pc = "storing"
    BY <1>3, <1>4, <1>7, <1>8
  <2>2. Kept(No(pending[a.id]))'
    BY <1>6, <1>7, <1>8 DEF s
  <2>. QED BY <1>3, <1>8, <2>1, <2>2 DEF Told
<1>. QED BY <1>2, <1>8

(* A chunk that is laid in the file is kept. *)
LEMMA LaidKept ==
  ASSUME w' \in WorkerStates, DOMAIN w'.memory = {}, NEW f \in Files, opfs'.download = <<f>>, Laid(w', f),
         NEW i \in Chunks, i \in DOMAIN w'.meta
  PROVE  Kept(i)'
<1> DEFINE state == w'
<1>1. state \in WorkerStates /\ Laid(state, f) /\ i \in DOMAIN state.meta
  OBVIOUS
<1> HIDE DEF state
<1>2. ReadAt(f, state.meta[i].offset, state.meta[i].size) = Cells(i)
  BY <1>1, LaidReads
<1>3. opfs'.download[1] = f /\ opfs'.download # <<>>
  OBVIOUS
<1>4. OnDisk'[i] = Cells(i)
  BY <1>2, <1>3 DEF OnDisk, state
<1>. QED BY <1>3, <1>4 DEF Kept

(* The write of a chunk at the end of the file. *)
LEMMA WriteChunkStep ==
  ASSUME IInv, NEW r \in running, r.msg.type = "decryptAndStoreChunk", Genuine(r.msg), r.pc # "fallback",
         UNCHANGED <<worker, ready, pending, nextId, inbox, swept>>, UNCHANGED transferVars,
         ~w.useMemory, NEW state \in WorkerStates, state.downloadWrite, state.meta = w.meta, state.offset = w.offset,
         state.memory = w.memory, state.sessionDir = w.sessionDir, state.uploadRead = w.uploadRead,
         state.leaked = w.leaked, state.useMemory = w.useMemory,
         Laid(state, IF opfs.download = <<>> THEN <<>> ELSE opfs.download[1]),
         WriteChunk(r, state, opfs)
  PROVE  IInv'
<1> DEFINE no == r.msg.no
           file == IF opfs.download = <<>> THEN <<>> ELSE opfs.download[1]
           size == Len(r.msg.body)
           place == [offset |-> state.offset, size |-> size]
           noted == [state EXCEPT !.offset = state.offset + size, !.meta = With(state.meta, no, place)]
           moved == DOMAIN state.meta \ {no}
           memory == [cn \in DOMAIN noted.memory \cup moved |->
                        IF cn \in moved THEN Migrated(state, file, no)[cn] ELSE noted.memory[cn]]
<1>1. /\ WorkerTypes /\ FilesAreRight /\ TransferTypes
  BY DEF IInv
<1>2. /\ worker = "up" /\ r.msg.id \in Nat /\ running = {r} /\ HandlerIsRight(r) /\ r \in Handlers
  BY RunningIs
<1>3. /\ no = No(pending[r.msg.id]) /\ no \in Chunks /\ Downloading
      /\ page \notin {"file", "encrypting", "uploading", "link", "resolve"}
  BY StoringIs
<1>4. r.msg.body = Cells(no) /\ Len(r.msg.body) = Size[no] /\ Size[no] \in Nat
  BY <1>3, Sizes DEF Genuine
<1>5. UNCHANGED <<page, outcome, group, store, sent, inner, link, result, deleting, faults>>
  BY DEF transferVars
<1>6. w \in WorkerStates /\ opfs \in [dir : BOOLEAN, upload : Slots, download : Slots] /\ shorts \in Nat
  BY <1>1 DEF WorkerTypes
<1>7. ~Fallen
  BY <1>2 DEF Fallen
<1>8. state.memory = Empty /\ DOMAIN state.memory = {}
  BY <1>1, <1>7, EmptyIs DEF FilesAreRight
<1>9. file \in Files
  <2>1. <<>> \in Files
    BY DEF Files
  <2>. QED BY <1>1, <2>1, FileIs
<1>10. \/ /\ w' = noted
          /\ opfs' = [opfs EXCEPT !.download = <<WriteAt(file, state.offset, r.msg.body)>>]
          /\ Reply(r, "stored", <<>>) /\ UNCHANGED shorts
       \/ /\ Short /\ w' = [noted EXCEPT !.downloadWrite = FALSE, !.memory = memory]
          /\ opfs' = [opfs EXCEPT !.download = <<file>>]
          /\ Await(r, "fallback", <<>>)
  BY DEF WriteChunk
<1>11. Laid(state, file) /\ r.msg.no = no /\ size = Size[no]
  BY <1>4
<1> HIDE DEF file, no, size
<1>12. state.meta \in Maps([offset : Nat, size : Nat]) /\ state.offset \in Nat /\ DOMAIN state.meta \subseteq Chunks
  <2>1. state.meta \in Maps([offset : Nat, size : Nat]) /\ state.offset \in Nat
    BY DEF WorkerStates
  <2>. QED BY <2>1, MapsIs
<1>13. With(state.meta, no, place) \in Maps([offset : Nat, size : Nat])
       /\ DOMAIN With(state.meta, no, place) = DOMAIN state.meta \cup {no}
  <2> DEFINE V == [offset : Nat, size : Nat]
  <2>1. place \in V /\ state.meta \in Maps(V)
    BY <1>4, <1>11, <1>12
  <2> HIDE DEF place, V, noted, memory, moved
  <2>2. With(state.meta, no, place) \in Maps(V)
    BY <1>3, <2>1, WithMaps
  <2>3. DOMAIN With(state.meta, no, place) = DOMAIN state.meta \cup {no}
    BY DEF With
  <2>. QED BY <2>2, <2>3 DEF V
<1>14. /\ noted \in WorkerStates /\ noted.offset = state.offset + size /\ noted.meta = With(state.meta, no, place)
       /\ noted.downloadWrite /\ noted.memory = state.memory /\ noted.sessionDir = state.sessionDir
       /\ noted.uploadRead = state.uploadRead /\ noted.leaked = state.leaked /\ noted.useMemory = state.useMemory
  <2> DEFINE meta == With(state.meta, no, place)
             off == state.offset + size
  <2>1. meta \in Maps([offset : Nat, size : Nat]) /\ off \in Nat
    BY <1>4, <1>11, <1>12, <1>13
  <2>2. noted = [state EXCEPT !.offset = off, !.meta = meta]
    OBVIOUS
  <2> HIDE DEF meta, off, place, noted
  <2>3. /\ noted \in WorkerStates /\ noted.offset = off /\ noted.meta = meta
        /\ noted.downloadWrite /\ noted.memory = state.memory /\ noted.sessionDir = state.sessionDir
        /\ noted.uploadRead = state.uploadRead /\ noted.leaked = state.leaked /\ noted.useMemory = state.useMemory
    BY <2>1, <2>2 DEF WorkerStates
  <2>. QED BY <2>3 DEF meta, off, noted
<1> HIDE DEF noted
<1>15. \A i \in Chunks : Kept(i) => i \in DOMAIN state.meta
  BY <1>8 DEF Kept
<1>16. ASSUME w' = noted, opfs' = [opfs EXCEPT !.download = <<WriteAt(file, state.offset, r.msg.body)>>],
              Reply(r, "stored", <<>>), UNCHANGED shorts
       PROVE  IInv'
  <2> DEFINE f == WriteAt(file, state.offset, r.msg.body)
  <2>1. f \in Files /\ Laid(noted, f)
    <3>1. /\ noted.offset = state.offset + Size[no]
          /\ noted.meta = With(state.meta, no, [offset |-> state.offset, size |-> Size[no]])
      BY <1>11, <1>14
    <3>2. WriteAt(file, state.offset, Cells(no)) \in Files /\ Laid(noted, WriteAt(file, state.offset, Cells(no)))
      BY <1>3, <1>9, <1>11, <3>1, WriteLaid
    <3>. QED BY <1>4, <3>2
  <2> HIDE DEF f
  <2>2. /\ opfs' \in [dir : BOOLEAN, upload : Slots, download : Slots] /\ opfs'.dir = opfs.dir
        /\ opfs'.upload = opfs.upload /\ opfs'.download = <<f>>
    <3>1. <<f>> \in Slots
      BY <2>1 DEF Slots
    <3>. QED BY <1>6, <1>16, <3>1 DEF f
  <2>3. ASSUME NEW i \in Chunks, i \in DOMAIN state.meta \cup {no} PROVE Kept(i)'
    <3>1. w' \in WorkerStates /\ DOMAIN w'.memory = {} /\ Laid(w', f) /\ i \in DOMAIN w'.meta
      BY <1>8, <1>13, <1>14, <1>16, <2>1, <2>3
    <3>. QED BY <2>1, <2>2, <3>1, LaidKept
  <2>4. Moving(r)
    BY <1>6, <1>14, <1>15, <1>16, <2>2, <2>3 DEF Moving
  <2>5. /\ [id |-> r.msg.id, type |-> "stored", data |-> <<>>] \in Answers
        /\ \A a : a.id = r.msg.id /\ a.type = "stored" /\ a.data = <<>> => Told(a)'
    BY <1>11, <2>3, StoredIs
  <2>6. opfs'.download # <<>> /\ Laid(w', opfs'.download[1])
    <3>1. opfs'.download[1] = f
      BY <2>2
    <3>. QED BY <1>16, <2>1, <2>2, <3>1
  <2>7. FilesAreRight'
    BY <1>1, <1>3, <1>5, <1>8, <1>14, <1>16, <2>2, <2>6, EmptyIs DEF FilesAreRight
  <2>. QED BY <1>16, <2>4, <2>5, <2>7, HandlerReplies
<1>17. ASSUME Short, w' = [noted EXCEPT !.downloadWrite = FALSE, !.memory = memory],
              opfs' = [opfs EXCEPT !.download = <<file>>], Await(r, "fallback", <<>>)
       PROVE  IInv'
  <2>1. \A i \in moved : i \in Chunks /\ memory[i] = Cells(i)
    <3> TAKE i \in moved
    <3>1. i \in DOMAIN state.meta
      OBVIOUS
    <3>2. i \in Chunks /\ ReadAt(file, state.meta[i].offset, state.meta[i].size) = Cells(i)
      BY <1>9, <1>11, <3>1, LaidReads
    <3>. QED BY <3>2 DEF Migrated
  <2>2. DOMAIN memory = moved
    BY <1>8, <1>14
  <2>3. memory \in Maps(Bodies)
    <3>1. memory \in [moved -> Bodies] /\ moved \in SUBSET Chunks
      <4>1. memory = [cn \in moved |-> memory[cn]]
        BY <1>8, <1>14
      <4>2. \A i \in moved : memory[i] \in Bodies
        BY <2>1 DEF Bodies
      <4> HIDE DEF memory, moved
      <4>3. moved \in SUBSET Chunks
        BY <2>1
      <4>. QED BY <4>1, <4>2, <4>3
    <3>. QED BY <3>1 DEF Maps
  <2> HIDE DEF memory
  <2>4. /\ w' \in WorkerStates /\ ~w'.downloadWrite /\ w'.memory = memory /\ w'.meta = With(state.meta, no, place)
        /\ w'.sessionDir = w.sessionDir /\ w'.uploadRead = w.uploadRead
        /\ w'.leaked = w.leaked /\ ~w'.useMemory
    BY <1>14, <1>17, <2>3 DEF WorkerStates
  <2>5. /\ opfs' \in [dir : BOOLEAN, upload : Slots, download : Slots] /\ opfs'.dir = opfs.dir
        /\ opfs'.upload = opfs.upload
    <3>1. <<file>> \in Slots
      BY <1>9 DEF Slots
    <3>. QED BY <1>6, <1>17, <3>1
  <2>6. ASSUME NEW i \in Chunks, i \in moved PROVE Kept(i)'
    BY <2>1, <2>2, <2>4, <2>6 DEF Kept
  <2>7. shorts' \in Nat
    BY <1>6, <1>17 DEF Short
  <2>8. Moving(r)
    <3>1. \A i \in Chunks : Kept(i) /\ i # No(pending[r.msg.id]) => i \in moved
      BY <1>3, <1>15
    <3>. QED BY <2>4, <2>5, <2>6, <2>7, <3>1 DEF Moving
  <2>9. [r EXCEPT !.pc = "fallback", !.data = <<>>] \in Handlers
    BY <1>2 DEF Handlers, Bodies
  <2>10. \A q : q.msg = r.msg /\ q.pc = "fallback" /\ q.data = <<>> => HandlerIsRight(q)'
    <3>1. DOMAIN w'.meta \subseteq DOMAIN w'.memory \cup {r.msg.no}
      BY <1>11, <1>13, <2>2, <2>4
    <3> SUFFICES ASSUME NEW q, q.msg = r.msg, q.pc = "fallback" PROVE HandlerIsRight(q)'
      OBVIOUS
    <3>2. Genuine(q.msg)
      OBVIOUS
    <3>. QED BY <2>4, <3>1, <3>2 DEF HandlerIsRight, Genuine
  <2>11. ASSUME Fallen' PROVE FilesAreRight'
    BY <1>1, <1>3, <1>5, <2>1, <2>2, <2>4, <2>5, <2>11 DEF FilesAreRight
  <2>. QED BY <1>17, <2>4, <2>8, <2>9, <2>10, <2>11, HandlerAwaits
<1>. QED BY <1>10, <1>16, <1>17

(* A chunk is put among those in memory. *)
LEMMA ToMemory ==
  ASSUME IInv, NEW r \in running, r.msg.type = "decryptAndStoreChunk", Genuine(r.msg),
         UNCHANGED <<worker, ready, pending, nextId, inbox, swept>>, UNCHANGED transferVars,
         w' \in WorkerStates, w'.memory = With(w.memory, r.msg.no, r.msg.body), w'.useMemory,
         w'.meta = Empty,
         \/ ~w'.downloadWrite /\ w'.offset = 0
         \/ UNCHANGED opfs /\ w'.offset = w.offset /\ w'.downloadWrite = w.downloadWrite /\ w.meta = Empty /\ ~Fallen,
         w'.sessionDir = w.sessionDir, w'.uploadRead = w.uploadRead, w'.leaked = w.leaked,
         DOMAIN w.meta \subseteq DOMAIN w.memory \cup {r.msg.no},
         opfs' \in [dir : BOOLEAN, upload : Slots, download : Slots], opfs'.dir = opfs.dir, opfs'.upload = opfs.upload,
         UNCHANGED shorts, Reply(r, "stored", <<>>)
  PROVE  IInv'
<1> DEFINE no == r.msg.no
<1>1. /\ WorkerTypes /\ FilesAreRight /\ TransferTypes
  BY DEF IInv
<1>2. /\ worker = "up" /\ running = {r}
  BY RunningIs
<1>3. /\ no = No(pending[r.msg.id]) /\ no \in Chunks /\ Unverified
      /\ page \notin {"file", "encrypting", "uploading", "link", "resolve"}
  BY StoringIs
<1>4. UNCHANGED <<page, outcome, group, store, sent, inner, link, result, deleting, faults>>
  BY DEF transferVars
<1>5. w \in WorkerStates /\ shorts \in Nat
  BY <1>1 DEF WorkerTypes
<1>6. /\ DOMAIN w'.memory = DOMAIN w.memory \cup {no} /\ w'.memory[no] = Cells(no)
      /\ \A i \in DOMAIN w.memory : i # no => w'.memory[i] = w.memory[i]
  BY DEF Genuine, With
<1>7. r.msg.no = no
  OBVIOUS
<1> HIDE DEF no
<1>8. \A i \in DOMAIN w'.memory : w'.memory[i] = Cells(i)
  BY <1>1, <1>6 DEF FilesAreRight
<1>9. \A i \in Chunks : Kept(i) \/ i = no => Kept(i)'
  BY <1>6, <1>7, <1>8 DEF Kept
<1>10. Moving(r)
  BY <1>3, <1>5, <1>9 DEF Moving
<1>11. /\ [id |-> r.msg.id, type |-> "stored", data |-> <<>>] \in Answers
       /\ \A a : a.id = r.msg.id /\ a.type = "stored" /\ a.data = <<>> => Told(a)'
  BY <1>7, <1>9, StoredIs
<1>12. ~w'.downloadWrite => w'.offset = 0
  BY <1>1, <1>3 DEF FilesAreRight
<1>13. w'.downloadWrite => opfs'.download # <<>> /\ Laid(w', opfs'.download[1])
  <2> SUFFICES ASSUME w'.downloadWrite PROVE opfs'.download # <<>> /\ Laid(w', opfs'.download[1])
    OBVIOUS
  <2>1. opfs' = opfs /\ w'.offset = w.offset /\ w.meta = w'.meta /\ w.downloadWrite
    OBVIOUS
  <2>2. opfs.download # <<>> /\ Laid(w, opfs.download[1])
    BY <1>1, <2>1 DEF FilesAreRight
  <2>3. \A f : Laid(w, f) => Laid(w', f)
    BY <2>1 DEF Laid
  <2>. QED BY <2>1, <2>2, <2>3
<1>14. FilesAreRight'
  BY <1>1, <1>3, <1>4, <1>8, <1>12, <1>13 DEF FilesAreRight
<1>. QED BY <1>10, <1>11, <1>14, HandlerReplies

(* handleDecryptAndStore. *)
LEMMA handleDecryptAndStoreStep ==
  ASSUME IInv, NEW r \in running, handleDecryptAndStore(r),
         UNCHANGED <<worker, ready, pending, nextId, inbox, swept>>, UNCHANGED transferVars
  PROVE  IInv'
<1>1. /\ WorkerTypes /\ FilesAreRight /\ TransferTypes
  BY DEF IInv
<1>2. /\ worker = "up" /\ r.msg.id \in Nat /\ running = {r} /\ HandlerIsRight(r) /\ r \in Handlers /\ r.msg \in Messages
  BY RunningIs
<1>3. r.msg.type = "decryptAndStoreChunk"
  BY DEF handleDecryptAndStore
<1>4. /\ r.msg.body = Cells(r.msg.no) \/ faults > 0
      /\ r.msg.no \in Chunks /\ Unverified /\ Downloading
      /\ page \notin {"file", "encrypting", "uploading", "link", "resolve"}
  BY <1>3, StoringIs
<1>5. UNCHANGED <<page, outcome, group, store, sent, inner, link, result, deleting, faults>>
  BY DEF transferVars
<1>6. /\ w \in WorkerStates /\ opfs \in [dir : BOOLEAN, upload : Slots, download : Slots] /\ shorts \in Nat
      /\ w.memory \in Maps(Bodies)
  BY <1>1 DEF WorkerTypes, WorkerStates
<1>7. r.pc # "fallback" => ~Fallen
  BY <1>2 DEF Fallen
<1>8. CASE r.pc = "begin" /\ ~Genuine(r.msg) /\ Reply(r, "error", <<>>) /\ UNCHANGED <<w, opfs, shorts>>
  <2>1. Excuse
    BY <1>4, <1>8 DEF Genuine, Excuse
  <2>. QED BY <1>8, <2>1, HandlerFails
<1>9. Genuine(r.msg) => With(w.memory, r.msg.no, r.msg.body) \in Maps(Bodies)
  <2>1. Genuine(r.msg) => r.msg.body \in Bodies
    BY <1>4 DEF Genuine, Bodies
  <2>. QED BY <1>4, <1>6, <2>1, WithMaps
<1>10. CASE /\ r.pc = "begin" /\ Genuine(r.msg) /\ w.useMemory
            /\ w' = [w EXCEPT !.memory = With(w.memory, r.msg.no, r.msg.body)]
            /\ Reply(r, "stored", <<>>) /\ UNCHANGED <<opfs, shorts>>
  <2> DEFINE map == With(w.memory, r.msg.no, r.msg.body)
  <2>1. map \in Maps(Bodies) /\ w' = [w EXCEPT !.memory = map]
    BY <1>9, <1>10
  <2> HIDE DEF map
  <2>2. /\ w' \in WorkerStates /\ w'.memory = map /\ w'.useMemory /\ w'.meta = w.meta
        /\ w'.downloadWrite = w.downloadWrite /\ w'.offset = w.offset
        /\ w'.sessionDir = w.sessionDir /\ w'.uploadRead = w.uploadRead /\ w'.leaked = w.leaked
    BY <1>6, <1>10, <2>1 DEF WorkerStates
  <2>3. w.meta = Empty /\ ~Fallen /\ w'.meta = Empty /\ DOMAIN w.meta \subseteq DOMAIN w.memory \cup {r.msg.no}
    BY <1>1, <1>7, <1>10, <2>2, EmptyIs DEF FilesAreRight
  <2>4. w'.memory = With(w.memory, r.msg.no, r.msg.body)
    BY <2>2 DEF map
  <2>5. /\ opfs' \in [dir : BOOLEAN, upload : Slots, download : Slots] /\ opfs'.dir = opfs.dir
        /\ opfs'.upload = opfs.upload /\ UNCHANGED <<shorts, opfs>>
    BY <1>6, <1>10
  <2>. QED BY <1>3, <1>10, <2>2, <2>3, <2>4, <2>5, ToMemory
<1>11. CASE /\ r.pc = "begin" /\ Genuine(r.msg) /\ ~w.useMemory /\ ~w.downloadWrite
            /\ w' = OpenDir(w) /\ opfs' = MakeDir(opfs) /\ Await(r, "open", <<>>) /\ UNCHANGED shorts
  <2>1. /\ w' \in WorkerStates /\ w'.sessionDir /\ w'.uploadRead = w.uploadRead /\ w'.leaked = w.leaked
        /\ w'.downloadWrite = w.downloadWrite /\ w'.meta = w.meta
        /\ w'.offset = w.offset /\ w'.useMemory = w.useMemory /\ w'.memory = w.memory
    BY <1>6, <1>11, OpenIs
  <2>2. /\ opfs' \in [dir : BOOLEAN, upload : Slots, download : Slots] /\ (swept = 0 => opfs'.dir)
        /\ opfs'.upload = opfs.upload /\ opfs'.download = opfs.download
    BY <1>1, <1>11, MakeIs
  <2>3. Moving(r)
    BY <1>6, <1>11, <2>1, <2>2, KeptAlike DEF Moving
  <2>4. [r EXCEPT !.pc = "open", !.data = <<>>] \in Handlers
    BY <1>2 DEF Handlers, Bodies
  <2>5. \A q : q.msg = r.msg /\ q.pc = "open" /\ q.data = <<>> => HandlerIsRight(q)'
    BY <1>3, <1>11, <2>1 DEF HandlerIsRight, Genuine
  <2>6. ASSUME Unverified' => Downloading, Fallen' <=> "open" = "fallback" PROVE FilesAreRight'
    BY <1>1, <1>4, <1>5, <1>7, <1>11, <2>1, <2>2, <2>6 DEF FilesAreRight
  <2>. QED BY <1>3, <1>11, <2>3, <2>4, <2>5, <2>6, HandlerAwaits
<1>12. CASE r.pc = "begin" /\ Genuine(r.msg) /\ ~w.useMemory /\ w.downloadWrite /\ WriteChunk(r, w, opfs)
  <2>1. Laid(w, IF opfs.download = <<>> THEN <<>> ELSE opfs.download[1])
    BY <1>1, <1>12 DEF FilesAreRight
  <2>. QED BY <1>3, <1>6, <1>12, <2>1, WriteChunkStep
<1>13. CASE /\ r.pc = "open" /\ (~opfs.dir \/ w.downloadWrite)
            /\ Reply(r, "error", <<>>) /\ UNCHANGED <<w, opfs, shorts>>
  <2>1. w.sessionDir /\ ~w.downloadWrite
    BY <1>2, <1>3, <1>13 DEF HandlerIsRight
  <2>2. swept \in Nat /\ swept # 0
    BY <1>1, <1>13, <2>1 DEF FilesAreRight, TransferTypes
  <2>3. Excuse
    BY <2>2 DEF Excuse
  <2>. QED BY <1>13, <2>3, HandlerFails
<1>14. CASE /\ r.pc = "open" /\ opfs.dir /\ ~w.downloadWrite /\ WriteChunk(r, [w EXCEPT !.downloadWrite = TRUE], opfs)
  <2> DEFINE state == [w EXCEPT !.downloadWrite = TRUE]
             file == IF opfs.download = <<>> THEN <<>> ELSE opfs.download[1]
  <2>1. /\ state \in WorkerStates /\ state.downloadWrite /\ state.meta = w.meta /\ state.offset = w.offset
        /\ state.memory = w.memory /\ state.sessionDir = w.sessionDir /\ state.uploadRead = w.uploadRead
        /\ state.leaked = w.leaked /\ state.useMemory = w.useMemory
    BY <1>6 DEF WorkerStates
  <2>2. WriteChunk(r, state, opfs)
    BY <1>14
  <2> HIDE DEF state
  <2>3. ~w.useMemory /\ Genuine(r.msg)
    BY <1>2, <1>3, <1>14 DEF HandlerIsRight
  <2>4. Len(file) \in Nat
    <3>1. <<>> \in Files
      BY DEF Files
    <3>2. file \in Files
      BY <1>1, <3>1, FileIs
    <3> HIDE DEF file
    <3>. QED BY <3>2 DEF Files
  <2>5. w.meta = Empty /\ w.offset = 0
    BY <1>1, <1>4, <1>7, <1>14 DEF FilesAreRight
  <2>6. Laid(state, file)
    <3> HIDE DEF file
    <3>. QED BY <2>1, <2>4, <2>5, EmptyIs DEF Laid
  <2>. QED BY <1>3, <1>14, <2>1, <2>2, <2>3, <2>6, WriteChunkStep
<1>15. CASE r.pc = "fallback" /\ Fallback(r)
  <2>1. Genuine(r.msg) /\ ~w.downloadWrite /\ DOMAIN w.meta \subseteq DOMAIN w.memory \cup {r.msg.no}
    BY <1>2, <1>3, <1>15 DEF HandlerIsRight
  <2> DEFINE map == With(w.memory, r.msg.no, r.msg.body)
  <2>2. map \in Maps(Bodies) /\ w' = [w EXCEPT !.meta = Empty, !.offset = 0, !.useMemory = TRUE, !.memory = map]
    BY <1>9, <1>15, <2>1 DEF Fallback
  <2> HIDE DEF map
  <2>3. Empty \in Maps([offset : Nat, size : Nat])
    BY EmptyIs
  <2>4. /\ w' \in WorkerStates /\ w'.memory = map /\ w'.useMemory /\ w'.meta = Empty
        /\ w'.downloadWrite = w.downloadWrite /\ w'.offset = 0
        /\ w'.sessionDir = w.sessionDir /\ w'.uploadRead = w.uploadRead /\ w'.leaked = w.leaked
    BY <1>6, <2>2, <2>3 DEF WorkerStates
  <2>5. /\ opfs' \in [dir : BOOLEAN, upload : Slots, download : Slots] /\ opfs'.dir = opfs.dir
        /\ opfs'.upload = opfs.upload /\ UNCHANGED shorts /\ Reply(r, "stored", <<>>)
    <3>1. <<>> \in Slots
      BY DEF Slots
    <3>. QED BY <1>6, <1>15, <3>1 DEF Fallback
  <2>6. w'.memory = With(w.memory, r.msg.no, r.msg.body)
    BY <2>4 DEF map
  <2>. QED BY <1>3, <2>1, <2>4, <2>5, <2>6, ToMemory
<1>. QED BY <1>8, <1>10, <1>11, <1>12, <1>13, <1>14, <1>15 DEF handleDecryptAndStore

-----------------------------------------------------------------------------
(* A sweep by another page loses no chunk of a download: while chunks are   *)
(* written the handle protects the directory, and otherwise all of them are *)
(* in memory.                                                                *)
LEMMA SweptKeeps ==
  ASSUME IInv, UNCHANGED w, Unverified, ~w.downloadWrite, worker # "terminated", NEW i \in Chunks, Kept(i),
         \A r \in running : r.pc = "fallback" => i # r.msg.no
  PROVE  Kept(i)'
<1>1. /\ FilesAreRight /\ Working
  BY DEF IInv
<1>2. CASE Fallen
  <2>1. PICK r \in running : r.pc = "fallback"
    BY <1>2 DEF Fallen
  <2>2. HandlerIsRight(r) /\ Asked(r.msg)
    BY RunningIs
  <2>3. DOMAIN w.meta \subseteq DOMAIN w.memory \cup {r.msg.no}
    BY <2>1, <2>2 DEF HandlerIsRight, Asked
  <2>4. i \in DOMAIN w.memory
    BY <2>1, <2>3 DEF Kept
  <2>. QED BY <2>4 DEF Kept
<1>3. CASE ~Fallen
  <2>1. DOMAIN w.meta = {}
    BY <1>1, <1>3, EmptyIs DEF FilesAreRight
  <2>. QED BY <2>1 DEF Kept
<1>. QED BY <1>2, <1>3

(* Another page sweeps the session directory. *)
LEMMA SweptByOtherStep ==
  ASSUME IInv, SweptByOther, UNCHANGED transferVars
  PROVE  IInv'
<1>1. /\ opfs.dir /\ ~w.uploadRead /\ ~w.downloadWrite /\ ~w.leaked /\ swept' = swept + 1 /\ opfs' = NoFiles
      /\ UNCHANGED <<worker, ready, pending, nextId, inbox, running, outbox, w, shorts>>
  BY DEF SweptByOther
<1>2. /\ TransferTypes /\ WorkerTypes /\ Phases /\ GroupsAreRight /\ Uploaded
      /\ Pending /\ Waiting /\ InTurn /\ Letters /\ FilesAreRight /\ Working
  BY DEF IInv
<1>3. UNCHANGED <<page, outcome, group, store, sent, inner, link, result, deleting, faults>>
  BY DEF transferVars
<1>4. swept' \in Nat /\ swept' > 0 /\ swept' # 0
  BY <1>1, <1>2 DEF TransferTypes
<1>5. Excuse'
  BY <1>4 DEF Excuse
<1>6. TransferTypes' /\ Phases' /\ GroupsAreRight' /\ Uploaded'
  BY <1>1, <1>2, <1>4, <1>5, PageStays
<1>7. WorkerTypes'
  BY <1>1, <1>2, FreshIs DEF WorkerTypes
<1>8. Pending' /\ Waiting' /\ InTurn'
  BY <1>1, <1>2, <1>3 DEF Pending, Owners, Waiting, Waits, InTurn
<1>9. Queued' = Queued /\ Requested' = Requested /\ Replies' = Replies
  BY <1>1 DEF Queued, Requested, Replies
<1>10. page = "fetching" => worker # "terminated" /\ Unverified
  BY <1>2 DEF Phases, Unverified
<1>11. ASSUME NEW r \in running, r.pc = "fallback", NEW o \in Server, group[o].pc = "storing",
              NEW id \in DOMAIN pending, pending[id] = o, id # r.msg.id
       PROVE  No(o) # r.msg.no
  <2>1. /\ HandlerIsRight(r) /\ Asked(r.msg) /\ r.msg.id \in DOMAIN pending /\ pending[r.msg.id] \in Owners
    BY RunningIs
  <2>2. r.msg.type = "decryptAndStoreChunk"
    BY <1>11, <2>1 DEF HandlerIsRight, Asked
  <2> DEFINE s == pending[r.msg.id]
  <2>3. s \in Server /\ group[s].pc = "storing" /\ r.msg.no = No(s)
    BY <2>2, StoringIs
  <2>4. s # o
    BY <1>2, <1>11, <2>1 DEF Pending
  <2> HIDE DEF s
  <2>5. No(o) \in Chunks /\ LeftTo(o, No(o)) /\ LeftTo(s, No(s)) /\ No(s) \in Chunks
    BY <1>2, <1>11, <2>3, FirstIs DEF Active
  <2>. QED BY <1>2, <2>3, <2>4, <2>5 DEF GroupsAreRight
<1>12. Letters'
  <2>1. ASSUME NEW m \in Requested' PROVE Asked(m)'
    <3>1. Asked(m)
      BY <1>2, <1>9 DEF Letters
    <3>. QED BY <1>1, <1>3, <3>1, AskedStays
  <2>2. ASSUME NEW a \in Replies' PROVE Told(a)'
    <3>1. a \in Replies /\ Told(a)
      BY <1>2, <1>9 DEF Letters
    <3>2. a.id \in DOMAIN pending /\ \A r \in running : a.id # r.msg.id
      <4>1. PICK k \in DOMAIN outbox : outbox[k] = a /\ a.type # "ready"
        BY <3>1 DEF Replies
      <4>2. a.id \in Nat
        <5>1. outbox \in Seq(Answers)
          BY <1>2 DEF WorkerTypes
        <5>2. outbox[k] \in Answers
          BY <5>1
        <5>. QED BY <4>1, <5>2 DEF Answers
      <4>. QED BY <1>2, <4>1, <4>2, RunningIs DEF InTurn
    <3> DEFINE o == pending[a.id]
    <3>3. ASSUME o \in Server, group[o].pc = "storing", page' = "fetching", Kept(No(o))
          PROVE  \A i : i = No(o) => Kept(i)'
      <4>1. page = "fetching"
        BY <1>3, <3>3
      <4> HIDE DEF o
      <4>2. No(o) \in Chunks
        BY <1>2, <3>3, FirstIs DEF Active
      <4>3. \A r \in running : r.pc = "fallback" => No(o) # r.msg.no
        BY <1>11, <3>2, <3>3 DEF o
      <4>4. ASSUME NEW i, i = No(o) PROVE Kept(i)'
        BY <1>1, <1>10, <3>3, <4>1, <4>2, <4>3, <4>4, SweptKeeps
      <4>. QED BY <4>4
    <3>4. No(pending[a.id])' = No(o)
      BY <1>1, <1>3 DEF No
    <3>5. o \in Server /\ group[o].pc = "storing" /\ page' = "fetching" =>
            page = "fetching" /\ (Kept(No(o)) => Kept(No(pending[a.id]))')
      BY <1>3, <3>3, <3>4
    <3>. QED BY <1>1, <1>3, <1>5, <3>1, <3>5, ToldStays
  <2>. QED BY <2>1, <2>2 DEF Letters
<1>13. Fallen' <=> Fallen
  BY <1>1 DEF Fallen
<1>14. Unverified' <=> Unverified
  BY <1>1, <1>3, <1>9 DEF Unverified, AllDone, Active
<1>15. FilesAreRight'
  BY <1>1, <1>2, <1>3, <1>4, <1>13, <1>14 DEF FilesAreRight
<1>16. ASSUME Unverified, \A r \in running : r.pc # "fallback", worker # "terminated", AllKept PROVE AllKept'
  <2>1. ASSUME NEW i \in Chunks PROVE Kept(i)'
    BY <1>1, <1>16, SweptKeeps DEF AllKept
  <2>. QED BY <2>1 DEF AllKept
<1>17. \A q \in running' : HandlerIsRight(q)'
  <2> TAKE q \in running'
  <2>1. q \in running /\ running = {q} /\ worker = "up" /\ HandlerIsRight(q)
    BY <1>1, RunningIs
  <2>2. q.msg.type = "verifyAndDecrypt" /\ q.pc = "begin" /\ AllKept => AllKept'
    BY <1>16, <2>1 DEF Unverified
  <2>. QED BY <1>1, <1>4, <2>1, <2>2 DEF HandlerIsRight, Genuine
<1>18. (\E m \in Queued' : m.type = "verifyAndDecrypt") => AllKept'
  <2> SUFFICES ASSUME NEW m \in Queued, m.type = "verifyAndDecrypt" PROVE AllKept'
    BY <1>9
  <2>1. worker = "up"
    <3>1. inbox # <<>>
      BY DEF Queued
    <3>. QED BY <1>2, <3>1 DEF InTurn
  <2>2. \A r \in running : FALSE
    BY RunningIs
  <2>. QED BY <1>2, <1>16, <2>1, <2>2 DEF Unverified, Working
<1>19. ASSUME page' = "fetching", NEW i \in Chunks, \A s \in Server : ~LeftTo(s, i)' PROVE Kept(i)'
  <2>1. page = "fetching" /\ \A s \in Server : ~LeftTo(s, i)
    BY <1>3, <1>19 DEF LeftTo
  <2>2. Kept(i)
    BY <1>2, <2>1 DEF Working
  <2>3. \A r \in running : r.pc = "fallback" => i # r.msg.no
    <3> TAKE r \in running
    <3>1. HandlerIsRight(r) /\ Asked(r.msg)
      BY RunningIs
    <3>2. r.pc = "fallback" => r.msg.type = "decryptAndStoreChunk"
      BY <3>1 DEF HandlerIsRight, Asked
    <3>3. r.pc = "fallback" => pending[r.msg.id] \in Server /\ group[pending[r.msg.id]].pc = "storing"
                               /\ r.msg.no = No(pending[r.msg.id])
      BY <3>2, StoringIs
    <3>4. r.pc = "fallback" => LeftTo(pending[r.msg.id], r.msg.no)
      BY <1>2, <3>3, FirstIs DEF Active
    <3>. QED BY <2>1, <3>3, <3>4
  <2>. QED BY <1>1, <1>10, <2>1, <2>2, <2>3, SweptKeeps
<1>20. Working'
  BY <1>17, <1>18, <1>19 DEF Working
<1>. QED BY <1>6, <1>7, <1>8, <1>12, <1>15, <1>20 DEF IInv

-----------------------------------------------------------------------------
(* The theorems.                                                             *)

(* Every step of a handler keeps the invariant. *)
LEMMA HandlersStep ==
  ASSUME IInv, HandlerStep, UNCHANGED transferVars
  PROVE  IInv'
<1>1. UNCHANGED <<worker, ready, pending, nextId, inbox, swept>>
  BY DEF HandlerStep
<1>2. PICK r \in running : \/ handleEncrypt(r) \/ handleReadChunk(r) \/ handleDecryptAndStore(r)
                           \/ handleVerifyAndDecrypt(r) \/ handleCleanup(r)
  BY DEF HandlerStep
<1>3. CASE handleEncrypt(r)
  BY <1>1, <1>3, handleEncryptStep
<1>4. CASE handleReadChunk(r)
  BY <1>1, <1>4, handleReadChunkStep
<1>5. CASE handleDecryptAndStore(r)
  BY <1>1, <1>5, handleDecryptAndStoreStep
<1>6. CASE handleVerifyAndDecrypt(r)
  BY <1>1, <1>6, handleVerifyAndDecryptStep
<1>7. CASE handleCleanup(r)
  BY <1>1, <1>7, handleCleanupStep
<1>. QED BY <1>2, <1>3, <1>4, <1>5, <1>6, <1>7

(* A step that changes nothing keeps the invariant. *)
LEMMA StutterStep ==
  ASSUME IInv, UNCHANGED vars
  PROVE  IInv'
<1>1. UNCHANGED <<worker, ready, pending, nextId, inbox, running, outbox, w, opfs, shorts, swept>>
      /\ UNCHANGED transferVars
  BY DEF vars, workerVars
<1>2. WorkerTypes /\ Pending /\ InTurn /\ Working
  BY DEF IInv
<1>3. WorkerTypes' /\ Pending' /\ InTurn'
  BY <1>1, <1>2 DEF WorkerTypes, Pending, Owners, InTurn
<1>4. Queued' = Queued /\ Requested' = Requested /\ Replies' = Replies
  BY <1>1 DEF Queued, Requested, Replies
<1>5. Fallen' <=> Fallen
  BY <1>1 DEF Fallen
<1>6. UNCHANGED <<page, link, group>>
  BY <1>1 DEF transferVars
<1>7. Unverified' => Unverified
  BY <1>1, <1>4, <1>6 DEF Unverified, AllDone, Active
<1>8. \A q \in running' : HandlerIsRight(q)'
  BY <1>1, <1>2, KeptSame DEF Working, HandlerIsRight, Genuine
<1>. QED BY <1>1, <1>3, <1>4, <1>5, <1>7, <1>8, WorkerQuiet

(* Every step keeps the invariant. *)
LEMMA NextKeeps == IInv /\ [Next]_vars => IInv'
<1> SUFFICES ASSUME IInv, [Next]_vars PROVE IInv'
  OBVIOUS
<1>1. CASE WorkerSteps
  <2>1. UNCHANGED transferVars
    BY <1>1 DEF WorkerSteps
  <2>2. CASE WorkerStarts
    BY <2>1, <2>2, WorkerStartsStep
  <2>3. CASE Dispatch
    BY <2>1, <2>3, DispatchStep
  <2>4. CASE HandlerStep
    BY <2>1, <2>4, HandlersStep
  <2>5. CASE HandleReady
    BY <2>1, <2>5, HandleReadyStep
  <2>. QED BY <1>1, <2>2, <2>3, <2>4, <2>5 DEF WorkerSteps
<1>2. CASE SweptByOther /\ UNCHANGED transferVars
  BY <1>2, SweptByOtherStep
<1>3. CASE Encrypt
  BY <1>3, EncryptStep
<1>4. CASE PageSteps
  <2>1. CASE Encrypted
    BY <2>1, EncryptedStep
  <2>2. CASE UploadSettles
    BY <2>2, UploadSettlesStep
  <2>3. CASE UploadRedirect
    BY <2>3, UploadRedirectStep
  <2>4. CASE Cleanup
    BY <2>4, CleanupStep
  <2>5. CASE Cleaned
    BY <2>5, CleanedStep
  <2>6. CASE ResolveRedirect
    BY <2>6, ResolveRedirectStep
  <2>7. CASE Verify
    BY <2>7, VerifyStep
  <2>8. CASE DownloadRejects
    BY <2>8, DownloadRejectsStep
  <2>9. CASE Decrypted
    BY <2>9, DecryptedStep
  <2>. QED BY <1>4, <2>1, <2>2, <2>3, <2>4, <2>5, <2>6, <2>7, <2>8, <2>9 DEF PageSteps
<1>5. CASE OpenLink
  BY <1>5, OpenLinkStep
<1>6. CASE StartDownload
  BY <1>6, StartDownloadStep
<1>7. CASE DeleteChunk
  BY <1>7, DeleteStep
<1>8. CASE \E s \in Server : GroupSteps(s)
  <2>1. PICK s \in Server : GroupSteps(s)
    BY <1>8
  <2>2. CASE ReadChunk(s)
    BY <2>2, ReadChunkStep
  <2>3. CASE ChunkRead(s)
    BY <2>3, ChunkReadStep
  <2>4. CASE Create(s)
    BY <2>4, CreateStep
  <2>5. CASE Put(s)
    BY <2>5, PutStep
  <2>6. CASE Fetch(s)
    BY <2>6, FetchStep
  <2>7. CASE StoreChunk(s)
    BY <2>7, StoreChunkStep
  <2>8. CASE ChunkStored(s)
    BY <2>8, ChunkStoredStep
  <2>. QED BY <2>1, <2>2, <2>3, <2>4, <2>5, <2>6, <2>7, <2>8 DEF GroupSteps
<1>9. CASE UNCHANGED vars
  BY <1>9, StutterStep
<1>. QED BY <1>1, <1>2, <1>3, <1>4, <1>5, <1>6, <1>7, <1>8, <1>9 DEF Next

(* The inductive invariant of a transfer, in both directions, between the   *)
(* page, its worker with the files, and the servers.                         *)
THEOREM TransferInvariant == Spec => []IInv
<1>1. Init => IInv
  BY InitIs
<1>2. IInv /\ [Next]_vars => IInv'
  BY NextKeeps
<1>. QED BY <1>1, <1>2, PTL DEF Spec

(* A link is given out only when uploadFile has put every chunk it leads to *)
(* on the server it names, whole and under its own number, whatever was     *)
(* repeated on the way and in whatever order the groups ran.                 *)
THEOREM LinkComplete == Spec => []LinkIsComplete
<1>1. IInv => LinkIsComplete
  <2> SUFFICES ASSUME IInv, link # <<>>, deleting = 0, NEW i \in Chunks
               PROVE  LET c == store[Resolved[i].id]
                      IN c.server = Resolved[i].server /\ c.no = i /\ c.data = Cells(i)
    BY DEF LinkIsComplete
  <2>1. Uploaded
    BY DEF IInv
  <2>2. i \in DOMAIN sent /\ Resolved[i] = sent[i]
    BY <2>1 DEF Uploaded
  <2>. QED BY <2>1, <2>2 DEF Uploaded
<1>. QED BY <1>1, TransferInvariant, PTL

(* While a download runs, every chunk of which handleDecryptAndStore said   *)
(* that it is stored can be read back, also when a write falls short and    *)
(* the chunks move from the file to memory between two steps.                *)
THEOREM StoredKept == Spec => []StoredIsKept
<1>1. IInv => StoredIsKept
  <2> SUFFICES ASSUME IInv, page = "fetching", NEW i \in Chunks, \A s \in Server : ~Contains(group[s].todo, i)
               PROVE  IF i \in DOMAIN w.memory THEN w.memory[i] = Cells(i)
                      ELSE i \in DOMAIN w.meta /\ opfs.download # <<>> /\ OnDisk[i] = Cells(i)
    BY DEF StoredIsKept
  <2>1. Working
    BY DEF IInv
  <2>. QED BY <2>1 DEF Working, LeftTo, Kept
<1>. QED BY <1>1, TransferInvariant, PTL

(* A transfer fails only when a command failed or answered the wrong body,  *)
(* the directory was swept or the encrypted file could not be written, and  *)
(* a download that succeeds yields the uploaded bytes.                       *)
THEOREM FailsForReason == Spec => []FailsForAReason
<1>1. IInv => FailsForAReason
  <2> SUFFICES ASSUME IInv PROVE FailsForAReason
    OBVIOUS
  <2>1. Phases /\ TransferTypes
    BY DEF IInv
  <2>2. outcome = "error" => faults > 0 \/ swept > 0 \/ w.leaked
    BY <2>1 DEF Phases, Excuse
  <2>3. result # <<>> => result[1] = EncData
    BY <2>1 DEF TransferTypes
  <2>. QED BY <2>2, <2>3 DEF FailsForAReason
<1>. QED BY <1>1, TransferInvariant, PTL
=============================================================================
