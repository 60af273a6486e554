-------------------------- MODULE Containers_proofs --------------------------
(***************************************************************************)
(* What Containers' operators return.  A finite set in some order is a     *)
(* sequence of its elements: the rank of an element, how many there are    *)
(* before it, is an injection into as many numbers, and so takes each of   *)
(* them.  The elements of a subsequence are those at the chosen positions. *)
(***************************************************************************)
EXTENDS Containers, SequencesExt, FiniteSetTheorems, SequenceTheorems, TLAPS

\* Setting an entry.
LEMMA UpdatedIs ==
    ASSUME NEW f, NEW k, NEW v
    PROVE  /\ DOMAIN Updated(f, k, v) = DOMAIN f \cup {k}
           /\ Updated(f, k, v)[k] = v
           /\ \A x \in DOMAIN f : x # k => Updated(f, k, v)[x] = f[x]
  BY DEF Updated

\* Erasing entries.
LEMMA WithoutIs ==
    ASSUME NEW f, NEW keys
    PROVE  /\ DOMAIN Without(f, keys) = DOMAIN f \ keys
           /\ \A x \in DOMAIN f \ keys : Without(f, keys)[x] = f[x]
  BY DEF Without

\* Laying one map over another.
LEMMA LaidOverIs ==
    ASSUME NEW f, NEW g
    PROVE  /\ DOMAIN LaidOver(f, g) = DOMAIN f \cup DOMAIN g
           /\ \A x \in DOMAIN f : LaidOver(f, g)[x] = f[x]
           /\ \A x \in DOMAIN g : x \notin DOMAIN f => LaidOver(f, g)[x] = g[x]
  BY DEF LaidOver

-----------------------------------------------------------------------------

\* The rank of an element: how many there are before it.
Rank(R, P, x) == Cardinality({y \in P : <<y, x>> \in R})

IsOrder(R, P) ==
    /\ \A x \in P : <<x, x>> \notin R
    /\ \A x, y \in P : x # y => <<x, y>> \in R \/ <<y, x>> \in R
    /\ \A x, y, z \in P : <<x, y>> \in R /\ <<y, z>> \in R => <<x, z>> \in R

\* Ranks are numbers below the number of elements, and grow with the element.
LEMMA Ranks ==
    ASSUME NEW P, IsFiniteSet(P), NEW R, IsOrder(R, P)
    PROVE  /\ Cardinality(P) \in Nat
           /\ \A x \in P : Rank(R, P, x) \in 0..(Cardinality(P) - 1)
           /\ \A x, y \in P : <<x, y>> \in R => Rank(R, P, x) < Rank(R, P, y)
  <1>1. Cardinality(P) \in Nat
    BY FS_CardinalityType
  <1> DEFINE Below(x) == {y \in P : <<y, x>> \in R}
  <1>2. ASSUME NEW x \in P
        PROVE  /\ Below(x) \subseteq P /\ IsFiniteSet(Below(x))
               /\ Cardinality(Below(x)) \in Nat
               /\ Cardinality(Below(x)) < Cardinality(P)
    <2>1. Below(x) \subseteq P /\ x \notin Below(x)
      BY <1>2 DEF IsOrder
    <2> HIDE DEF Below
    <2>2. IsFiniteSet(Below(x)) /\ Cardinality(Below(x)) <= Cardinality(P)
      BY <2>1, FS_Subset
    <2>3. Cardinality(Below(x)) # Cardinality(P)
      <3>1. SUFFICES ASSUME Cardinality(P) = Cardinality(Below(x)) PROVE FALSE
        OBVIOUS
      <3>2. P = Below(x)
        BY <2>1, <3>1, FS_Subset
      <3> QED
        BY <1>2, <2>1, <3>2
    <2>4. Cardinality(Below(x)) \in Nat
      BY <2>2, FS_CardinalityType
    <2> QED
      BY <1>1, <2>1, <2>2, <2>3, <2>4
  <1>3. ASSUME NEW x \in P, NEW y \in P, <<x, y>> \in R
        PROVE  Cardinality(Below(x)) < Cardinality(Below(y))
    <2>1. Below(x) \subseteq Below(y) /\ x \in Below(y) /\ x \notin Below(x)
      BY <1>3 DEF IsOrder
    <2>2. IsFiniteSet(Below(y)) /\ Cardinality(Below(y)) \in Nat /\ Cardinality(Below(x)) \in Nat
      BY <1>2
    <2> HIDE DEF Below
    <2>3. Cardinality(Below(x)) <= Cardinality(Below(y))
      BY <2>1, <2>2, FS_Subset
    <2>4. Cardinality(Below(x)) # Cardinality(Below(y))
      <3>1. SUFFICES ASSUME Cardinality(Below(y)) = Cardinality(Below(x)) PROVE FALSE
        OBVIOUS
      <3>2. Below(y) = Below(x)
        BY <2>1, <2>2, <3>1, FS_Subset
      <3> QED
        BY <2>1, <3>2
    <2> QED
      BY <2>2, <2>3, <2>4
  <1>4. \A x \in P : Rank(R, P, x) \in 0..(Cardinality(P) - 1)
    BY <1>1, <1>2 DEF Rank
  <1>5. \A x, y \in P : <<x, y>> \in R => Rank(R, P, x) < Rank(R, P, y)
    BY <1>3 DEF Rank
  <1> QED
    BY <1>1, <1>4, <1>5

\* Every rank is taken, once.
LEMMA RanksTaken ==
    ASSUME NEW P, IsFiniteSet(P), NEW R, IsOrder(R, P)
    PROVE  /\ \A x, y \in P : Rank(R, P, x) = Rank(R, P, y) => x = y
           /\ \A r \in 0..(Cardinality(P) - 1) : \E x \in P : Rank(R, P, x) = r
  <1> DEFINE f == [x \in P |-> Rank(R, P, x)]
             T == 0..(Cardinality(P) - 1)
  <1>1. /\ Cardinality(P) \in Nat
        /\ \A x \in P : Rank(R, P, x) \in T
        /\ \A x, y \in P : <<x, y>> \in R => Rank(R, P, x) < Rank(R, P, y)
    BY Ranks
  <1>2. ASSUME NEW x \in P, NEW y \in P, Rank(R, P, x) = Rank(R, P, y) PROVE x = y
    <2>1. Rank(R, P, x) \in Int /\ Rank(R, P, y) \in Int
      BY <1>1
    <2>2. <<x, y>> \notin R /\ <<y, x>> \notin R
      BY <1>1, <1>2, <2>1
    <2> QED
      BY <2>2 DEF IsOrder
  <1>3. IsFiniteSet(T) /\ Cardinality(T) = Cardinality(P)
    BY <1>1, FS_Interval
  <1>4. f \in Injection(P, T)
    <2>1. f \in [P -> T]
      BY <1>1
    <2>2. \A x, y \in P : f[x] = f[y] => x = y
      BY <1>2
    <2> HIDE DEF T
    <2> QED
      BY <2>1, <2>2 DEF Injection, IsInjective
  <1> HIDE DEF f, T
  <1>5. f \in Surjection(P, T)
    BY <1>3, <1>4, FS_Injection
  <1>6. \A r \in T : \E x \in P : f[x] = r
    BY <1>5 DEF Surjection
  <1> QED
    BY <1>2, <1>6 DEF f, T

\* The k-th element is one, later ones come later, and every element is some k-th.
LEMMA NthByIs ==
    ASSUME NEW P, IsFiniteSet(P), NEW R, IsOrder(R, P)
    PROVE  /\ Cardinality(P) \in Nat
           /\ \A k \in 1..Cardinality(P) : NthBy(R, P, k) \in P
           /\ \A k, m \in 1..Cardinality(P) : k < m => <<NthBy(R, P, k), NthBy(R, P, m)>> \in R
           /\ \A x \in P : \E k \in 1..Cardinality(P) : NthBy(R, P, k) = x
  <1>1. /\ Cardinality(P) \in Nat
        /\ \A x \in P : Rank(R, P, x) \in 0..(Cardinality(P) - 1)
        /\ \A x, y \in P : <<x, y>> \in R => Rank(R, P, x) < Rank(R, P, y)
    BY Ranks
  <1>2. /\ \A x, y \in P : Rank(R, P, x) = Rank(R, P, y) => x = y
        /\ \A r \in 0..(Cardinality(P) - 1) : \E x \in P : Rank(R, P, x) = r
    BY RanksTaken
  <1>3. ASSUME NEW k \in 1..Cardinality(P)
        PROVE  NthBy(R, P, k) \in P /\ Rank(R, P, NthBy(R, P, k)) = k - 1
    <2>1. k - 1 \in 0..(Cardinality(P) - 1)
      BY <1>1
    <2>2. \E x \in P : Rank(R, P, x) = k - 1
      BY <1>2, <2>1
    <2> QED
      BY <2>2 DEF NthBy, Rank
  <1>4. ASSUME NEW k \in 1..Cardinality(P), NEW m \in 1..Cardinality(P), k < m
        PROVE  <<NthBy(R, P, k), NthBy(R, P, m)>> \in R
    <2> DEFINE x == NthBy(R, P, k)
               y == NthBy(R, P, m)
    <2>1. x \in P /\ y \in P /\ Rank(R, P, x) = k - 1 /\ Rank(R, P, y) = m - 1
      BY <1>3
    <2> HIDE DEF x, y
    <2>2. k \in Int /\ m \in Int
      BY <1>1
    <2>3. x # y /\ ~(Rank(R, P, y) < Rank(R, P, x))
      BY <1>4, <2>1, <2>2
    <2>4. <<x, y>> \in R \/ <<y, x>> \in R
      BY <2>1, <2>3 DEF IsOrder
    <2>5. <<x, y>> \in R
      BY <1>1, <2>1, <2>3, <2>4
    <2> QED
      BY <2>5 DEF x, y
  <1>5. ASSUME NEW x \in P
        PROVE  \E k \in 1..Cardinality(P) : NthBy(R, P, k) = x
    <2> DEFINE k == Rank(R, P, x) + 1
    <2>1. k \in 1..Cardinality(P) /\ Rank(R, P, x) = k - 1
      BY <1>1
    <2> HIDE DEF k
    <2>2. NthBy(R, P, k) \in P /\ Rank(R, P, NthBy(R, P, k)) = Rank(R, P, x)
      BY <1>3, <2>1
    <2> QED
      BY <1>2, <2>1, <2>2
  <1> QED
    BY <1>1, <1>3, <1>4, <1>5

\* A set in order is a sequence of its elements, each once.
LEMMA InOrderIs ==
    ASSUME NEW P, IsFiniteSet(P), NEW R, IsOrder(R, P)
    PROVE  /\ InOrder(R, P) \in Seq(P)
           /\ \A x \in P : \E k \in DOMAIN InOrder(R, P) : InOrder(R, P)[k] = x
           /\ \A k, m \in DOMAIN InOrder(R, P) : InOrder(R, P)[k] = InOrder(R, P)[m] => k = m
  <1>1. /\ Cardinality(P) \in Nat
        /\ \A k \in 1..Cardinality(P) : NthBy(R, P, k) \in P
        /\ \A k, m \in 1..Cardinality(P) : k < m => <<NthBy(R, P, k), NthBy(R, P, m)>> \in R
        /\ \A x \in P : \E k \in 1..Cardinality(P) : NthBy(R, P, k) = x
    BY NthByIs
  <1>2. ASSUME NEW k \in 1..Cardinality(P), NEW m \in 1..Cardinality(P), NthBy(R, P, k) = NthBy(R, P, m)
        PROVE  k = m
    <2>1. k \in Int /\ m \in Int
      BY <1>1
    <2>2. ~(k < m) /\ ~(m < k)
      BY <1>1, <1>2 DEF IsOrder
    <2> QED
      BY <2>1, <2>2
  <1>3. InOrder(R, P) \in [1..Cardinality(P) -> P]
    BY <1>1 DEF InOrder
  <1>4. InOrder(R, P) \in Seq(P)
    BY <1>1, <1>3
  <1> QED
    BY <1>1, <1>2, <1>4 DEF InOrder

-----------------------------------------------------------------------------

\* The k-th position is a chosen one, later ones come later, and every chosen one is some k-th.
LEMMA NthIs ==
    ASSUME NEW n \in Nat, NEW P, P \subseteq 1..n
    PROVE  /\ Cardinality(P) \in Nat
           /\ \A k \in 1..Cardinality(P) : Nth(P, k) \in P
           /\ \A k, m \in 1..Cardinality(P) : k < m => Nth(P, k) < Nth(P, m)
           /\ \A i \in P : \E k \in 1..Cardinality(P) : Nth(P, k) = i
  <1> DEFINE R == {p \in P \X P : p[1] < p[2]}
  <1>0. IsFiniteSet(1..n)
    BY FS_Interval
  <1>1. IsFiniteSet(P)
    BY <1>0, FS_Subset
  <1>2. \A i, j \in P : <<i, j>> \in R <=> i < j
    OBVIOUS
  <1>3. \A i \in P : i \in Int
    OBVIOUS
  <1> HIDE DEF R
  <1>4. IsOrder(R, P)
    BY <1>2, <1>3 DEF IsOrder
  <1>5. /\ Cardinality(P) \in Nat
        /\ \A k \in 1..Cardinality(P) : NthBy(R, P, k) \in P
        /\ \A k, m \in 1..Cardinality(P) : k < m => <<NthBy(R, P, k), NthBy(R, P, m)>> \in R
        /\ \A i \in P : \E k \in 1..Cardinality(P) : NthBy(R, P, k) = i
    BY <1>1, <1>4, NthByIs
  <1>6. \A k \in 1..Cardinality(P) : Nth(P, k) = NthBy(R, P, k)
    BY DEF Nth, R
  <1> QED
    BY <1>2, <1>5, <1>6

\* The least of some positions is one of them, and none is before it.
LEMMA LeastIs ==
    ASSUME NEW n \in Nat, NEW P, P \subseteq 1..n, P # {}
    PROVE  Least(P) \in P /\ \A i \in P : Least(P) <= i
  <1>1. /\ Cardinality(P) \in Nat
        /\ \A k \in 1..Cardinality(P) : Nth(P, k) \in P
        /\ \A k, m \in 1..Cardinality(P) : k < m => Nth(P, k) < Nth(P, m)
        /\ \A i \in P : \E k \in 1..Cardinality(P) : Nth(P, k) = i
    BY NthIs
  <1>2. 1 \in 1..Cardinality(P)
    <2>1. \E k : k \in 1..Cardinality(P)
      BY <1>1
    <2> QED
      BY <1>1, <2>1
  <1>3. ASSUME NEW i \in P PROVE Nth(P, 1) <= i
    <2>1. PICK k \in 1..Cardinality(P) : Nth(P, k) = i
      BY <1>1
    <2>2. k = 1 \/ 1 < k
      BY <1>1
    <2>3. Nth(P, 1) \in Int /\ i \in Int
      <3>1. Nth(P, 1) \in P
        BY <1>1, <1>2
      <3>2. Nth(P, 1) \in 1..n /\ i \in 1..n
        BY <3>1
      <3> HIDE DEF Nth
      <3> QED
        BY <3>2
    <2>4. CASE k = 1
      BY <2>1, <2>3, <2>4
    <2>5. CASE 1 < k
      BY <1>1, <1>2, <2>1, <2>3, <2>5
    <2> QED
      BY <2>2, <2>4, <2>5
  <1> QED
    BY <1>1, <1>2, <1>3 DEF Least

\* A subsequence has the elements at the chosen positions, each position once.
LEMMA SubsequenceIs ==
    ASSUME NEW S, NEW s \in Seq(S), NEW P, P \subseteq DOMAIN s
    PROVE  /\ Subsequence(s, P) \in Seq(S)
           /\ ToSet(Subsequence(s, P)) = {s[i] : i \in P}
           /\ Distinct(s) => Distinct(Subsequence(s, P))
  <1> DEFINE t == Subsequence(s, P)
  <1>1. Len(s) \in Nat /\ DOMAIN s = 1..Len(s) /\ P \subseteq 1..Len(s)
    OBVIOUS
  <1>2. /\ Cardinality(P) \in Nat
        /\ \A k \in 1..Cardinality(P) : Nth(P, k) \in P
        /\ \A k, m \in 1..Cardinality(P) : k < m => Nth(P, k) < Nth(P, m)
        /\ \A i \in P : \E k \in 1..Cardinality(P) : Nth(P, k) = i
    BY <1>1, NthIs
  <1>3. \A i \in DOMAIN s : s[i] \in S
    OBVIOUS
  <1>4. /\ DOMAIN t = 1..Cardinality(P)
        /\ \A k \in 1..Cardinality(P) : t[k] = s[Nth(P, k)]
        /\ t = [k \in 1..Cardinality(P) |-> t[k]]
    BY DEF Subsequence
  <1> HIDE DEF t
  <1>5. t \in [1..Cardinality(P) -> S]
    BY <1>2, <1>3, <1>4
  <1>6. t \in Seq(S)
    BY <1>2, <1>5
  <1>7. ToSet(t) = {s[i] : i \in P}
    BY <1>2, <1>4 DEF ToSet
  <1>8. ASSUME Distinct(s) PROVE Distinct(t)
    <2>1. ASSUME NEW k \in DOMAIN t, NEW m \in DOMAIN t, t[k] = t[m] PROVE k = m
      <3>1. Nth(P, k) = Nth(P, m)
        BY <1>2, <1>4, <1>8, <2>1 DEF Distinct
      <3>2. k \in Int /\ m \in Int /\ Nth(P, k) \in Int
        BY <1>1, <1>2, <1>4
      <3>3. ~(k < m) /\ ~(m < k)
        BY <1>2, <1>4, <3>1, <3>2
      <3> QED
        BY <3>2, <3>3
    <2>2. t \in Seq({t[i] : i \in DOMAIN t})
      <3> DEFINE T == {t[i] : i \in DOMAIN t}
      <3>1. \A k \in 1..Cardinality(P) : t[k] \in T
        BY <1>4
      <3> HIDE DEF T
      <3>2. t \in [1..Cardinality(P) -> T]
        BY <1>4, <3>1
      <3>3. t \in Seq(T)
        BY <1>2, <3>2
      <3> QED
        BY <3>3 DEF T
    <2> QED
      BY <2>1, <2>2 DEF Distinct
  <1> QED
    BY <1>6, <1>7, <1>8 DEF t

-----------------------------------------------------------------------------

\* A vector that holds nothing twice is a sequence of its elements.
LEMMA DistinctIs ==
    ASSUME NEW s, Distinct(s)
    PROVE  s \in Seq(ToSet(s)) /\ Len(s) \in Nat /\ DOMAIN s = 1..Len(s)
  <1>1. s \in Seq(ToSet(s))
    BY DEF Distinct, ToSet
  <1> QED
    BY <1>1

\* A sequence of distinct values, given by its entries.
LEMMA DistinctOf ==
    ASSUME NEW n \in Nat, NEW s, DOMAIN s = 1..n, s = [i \in 1..n |-> s[i]],
           \A i, j \in 1..n : s[i] = s[j] => i = j
    PROVE  Distinct(s) /\ Len(s) = n
  <1> DEFINE T == {s[i] : i \in DOMAIN s}
  <1>1. \A i \in 1..n : s[i] \in T
    OBVIOUS
  <1> HIDE DEF T
  <1>2. s \in [1..n -> T]
    BY <1>1
  <1>3. s \in Seq(T) /\ Len(s) = n
    BY <1>2
  <1> QED
    BY <1>3 DEF T, Distinct

\* The empty vector.
LEMMA EmptyDistinct == Distinct(<<>>) /\ ToSet(<<>>) = {}
  <1> DEFINE T == {<<>>[i] : i \in DOMAIN <<>>}
  <1>1. <<>> \in Seq(T) /\ DOMAIN <<>> = {}
    OBVIOUS
  <1>2. Distinct(<<>>)
    BY <1>1 DEF Distinct
  <1> QED
    BY <1>1, <1>2 DEF ToSet

\* An element that is not there yet is appended.
LEMMA AppendDistinct ==
    ASSUME NEW s, Distinct(s), NEW e, e \notin ToSet(s)
    PROVE  Distinct(Append(s, e)) /\ ToSet(Append(s, e)) = ToSet(s) \cup {e}
  <1> DEFINE t == Append(s, e)
             T == ToSet(s) \cup {e}
             n == Len(s)
  <1>1. s \in Seq(ToSet(s)) /\ n \in Nat /\ DOMAIN s = 1..n
    BY DistinctIs
  <1>2. /\ t \in Seq(T) /\ Len(t) = n + 1
        /\ \A i \in 1..n : t[i] = s[i]
        /\ t[n + 1] = e
    <2>1. s \in Seq(T) /\ e \in T
      BY <1>1
    <2> HIDE DEF T
    <2> QED
      BY <2>1, AppendProperties
  <1> HIDE DEF t
  <1>3. DOMAIN t = 1..(n + 1) /\ t = [i \in 1..(n + 1) |-> t[i]] /\ n + 1 \in Nat
    BY <1>1, <1>2
  <1>4. \A i \in 1..n : s[i] \in ToSet(s)
    BY <1>1 DEF ToSet
  <1>5. ASSUME NEW i \in 1..(n + 1), NEW j \in 1..(n + 1), t[i] = t[j] PROVE i = j
    <2>1. CASE i \in 1..n /\ j \in 1..n
      BY <1>1, <1>2, <1>5, <2>1 DEF Distinct
    <2>2. CASE i = n + 1 /\ j \in 1..n
      BY <1>2, <1>4, <1>5, <2>2
    <2>3. CASE j = n + 1 /\ i \in 1..n
      BY <1>2, <1>4, <1>5, <2>3
    <2>4. CASE i = n + 1 /\ j = n + 1
      BY <2>4
    <2> QED
      BY <1>1, <2>1, <2>2, <2>3, <2>4
  <1>6. Distinct(t)
    BY <1>3, <1>5, DistinctOf
  <1>7. ToSet(t) = T
    <2>1. ASSUME NEW x \in T PROVE \E i \in 1..(n + 1) : t[i] = x
      <3>1. CASE x = e
        BY <1>1, <1>2, <3>1
      <3>2. CASE x \in ToSet(s)
        <4>1. PICK i \in 1..n : s[i] = x
          BY <1>1, <3>2 DEF ToSet
        <4> QED
          BY <1>1, <1>2, <4>1
      <3> QED
        BY <3>1, <3>2
    <2>2. \A i \in 1..(n + 1) : t[i] \in T
      BY <1>2
    <2> QED
      BY <1>3, <2>1, <2>2 DEF ToSet
  <1> QED
    BY <1>6, <1>7 DEF t

\* One vector after another that shares nothing with it.
LEMMA ConcatDistinct ==
    ASSUME NEW s, Distinct(s), NEW u, Distinct(u), ToSet(s) \cap ToSet(u) = {}
    PROVE  Distinct(s \o u) /\ ToSet(s \o u) = ToSet(s) \cup ToSet(u)
  <1> DEFINE t == s \o u
             T == ToSet(s) \cup ToSet(u)
             n == Len(s)
             m == Len(u)
  <1>1. /\ s \in Seq(ToSet(s)) /\ n \in Nat /\ DOMAIN s = 1..n
        /\ u \in Seq(ToSet(u)) /\ m \in Nat /\ DOMAIN u = 1..m
    BY DistinctIs
  <1>2. /\ t \in Seq(T) /\ Len(t) = n + m
        /\ \A i \in 1..(n + m) : t[i] = IF i <= n THEN s[i] ELSE u[i - n]
    <2>1. s \in Seq(T) /\ u \in Seq(T)
      BY <1>1
    <2> HIDE DEF T
    <2> QED
      BY <2>1, ConcatProperties
  <1> HIDE DEF t
  <1>3. DOMAIN t = 1..(n + m) /\ t = [i \in 1..(n + m) |-> t[i]] /\ n + m \in Nat
    BY <1>1, <1>2
  <1>4. /\ \A i \in 1..n : s[i] \in ToSet(s)
        /\ \A i \in 1..m : u[i] \in ToSet(u)
    BY <1>1 DEF ToSet
  <1>5. ASSUME NEW i \in 1..(n + m)
        PROVE  /\ i <= n => i \in 1..n /\ t[i] = s[i]
               /\ ~(i <= n) => i - n \in 1..m /\ t[i] = u[i - n]
    BY <1>1, <1>2
  <1>6. ASSUME NEW i \in 1..(n + m), NEW j \in 1..(n + m), t[i] = t[j] PROVE i = j
    <2>1. CASE i <= n /\ j <= n
      <3>1. i \in 1..n /\ j \in 1..n /\ s[i] = s[j]
        BY <1>5, <1>6, <2>1
      <3>2. \A k, l \in 1..n : s[k] = s[l] => k = l
        BY <1>1 DEF Distinct
      <3> QED
        BY <3>1, <3>2
    <2>2. CASE ~(i <= n) /\ j <= n
      BY <1>4, <1>5, <1>6, <2>2
    <2>3. CASE i <= n /\ ~(j <= n)
      BY <1>4, <1>5, <1>6, <2>3
    <2>4. CASE ~(i <= n) /\ ~(j <= n)
      <3>0. \A k, l \in 1..m : u[k] = u[l] => k = l
        BY <1>1 DEF Distinct
      <3>1. i - n = j - n
        BY <1>5, <1>6, <2>4, <3>0
      <3> QED
        BY <1>1, <3>1
    <2> QED
      BY <2>1, <2>2, <2>3, <2>4
  <1>7. Distinct(t)
    BY <1>3, <1>6, DistinctOf
  <1>8. ToSet(t) = T
    <2>1. ASSUME NEW x \in T PROVE \E i \in 1..(n + m) : t[i] = x
      <3>1. CASE x \in ToSet(s)
        <4>1. PICK i \in 1..n : s[i] = x
          BY <1>1, <3>1 DEF ToSet
        <4>2. i \in 1..(n + m) /\ i <= n
          BY <1>1
        <4> QED
          BY <1>2, <4>1, <4>2
      <3>2. CASE x \in ToSet(u)
        <4>1. PICK i \in 1..m : u[i] = x
          BY <1>1, <3>2 DEF ToSet
        <4>2. i + n \in 1..(n + m) /\ ~(i + n <= n) /\ (i + n) - n = i
          BY <1>1
        <4> QED
          BY <1>2, <4>1, <4>2
      <3> QED
        BY <3>1, <3>2
    <2>2. \A i \in 1..(n + m) : t[i] \in T
      BY <1>4, <1>5
    <2> QED
      BY <1>3, <2>1, <2>2 DEF ToSet
  <1> QED
    BY <1>7, <1>8 DEF t

\* Erasing from a vector that holds nothing twice.
LEMMA SubDistinct ==
    ASSUME NEW s, Distinct(s), NEW P, P \subseteq DOMAIN s
    PROVE  /\ Distinct(Subsequence(s, P))
           /\ ToSet(Subsequence(s, P)) = {s[i] : i \in P}
  <1>1. s \in Seq(ToSet(s))
    BY DistinctIs
  <1> QED
    BY <1>1, SubsequenceIs

\* A finite set as a sequence has the set's elements.
LEMMA SetToSeqIs ==
    ASSUME NEW S, IsFiniteSet(S)
    PROVE  /\ SetToSeq(S) \in [1..Cardinality(S) -> S]
           /\ Cardinality(S) \in Nat
           /\ ToSet(SetToSeq(S)) = S
  <1> DEFINE D == 1..Cardinality(S)
             s == SetToSeq(S)
  <1>1. Cardinality(S) \in Nat /\ ExistsBijection(D, S)
    BY FS_CardinalityType
  <1>2. \E f \in [D -> S] : IsInjective(f)
    BY <1>1 DEF ExistsBijection, Bijection, Injection
  <1>3. s \in [D -> S] /\ IsInjective(s)
    BY <1>2 DEF SetToSeq
  <1>4. IsFiniteSet(D) /\ Cardinality(D) = Cardinality(S)
    BY <1>1, FS_Interval
  <1> HIDE DEF s, D
  <1>5. s \in Injection(D, S)
    BY <1>3 DEF Injection
  <1>6. s \in Surjection(D, S)
    BY <1>4, <1>5, FS_Injection
  <1>7. ToSet(s) = S
    BY <1>3, <1>6 DEF ToSet, Surjection
  <1> QED
    BY <1>1, <1>3, <1>7 DEF s, D

\* And has each of them once.
LEMMA SetToSeqDistinct ==
    ASSUME NEW S, IsFiniteSet(S)
    PROVE  Distinct(SetToSeq(S))
  <1> DEFINE n == Cardinality(S)
             s == SetToSeq(S)
  <1>1. n \in Nat /\ ExistsBijection(1..n, S)
    BY FS_CardinalityType
  <1>2. \E f \in [1..n -> S] : IsInjective(f)
    BY <1>1 DEF ExistsBijection, Bijection, Injection
  <1>3. s \in [1..n -> S] /\ IsInjective(s)
    BY <1>2 DEF SetToSeq
  <1> HIDE DEF s, n
  <1>4. /\ DOMAIN s = 1..n /\ s = [i \in 1..n |-> s[i]]
        /\ \A i, j \in 1..n : s[i] = s[j] => i = j
    BY <1>3 DEF IsInjective
  <1>5. Distinct(s)
    BY <1>1, <1>4, DistinctOf
  <1> QED
    BY <1>5 DEF s

\* The elements of a sequence are finitely many.
LEMMA FinitelyMany ==
    ASSUME NEW S, NEW s \in Seq(S)
    PROVE  IsFiniteSet(ToSet(s))
  <1> DEFINE D == 1..Len(s)
  <1>1. Len(s) \in Nat /\ DOMAIN s = D /\ s = [i \in D |-> s[i]]
    OBVIOUS
  <1>2. IsFiniteSet(D)
    <2>1. 1 \in Int /\ Len(s) \in Int
      BY <1>1
    <2> QED
      BY <2>1, FS_Interval
  <1>3. s \in Surjection(D, ToSet(s))
    BY <1>1 DEF Surjection, ToSet
  <1> QED
    BY <1>2, <1>3, FS_Surjection

\* The values of a map with finitely many entries, each a finite set, are finitely many.
LEMMA FiniteUnion ==
    ASSUME NEW D, IsFiniteSet(D), NEW m, DOMAIN m = D, \A x \in D : IsFiniteSet(m[x])
    PROVE  IsFiniteSet(UNION {m[x] : x \in D})
  <1> DEFINE V == {m[x] : x \in D}
             f == [x \in D |-> m[x]]
  <1>1. f \in Surjection(D, V)
    BY DEF Surjection
  <1> HIDE DEF f
  <1>2. IsFiniteSet(V)
    <2> HIDE DEF V
    <2> QED
      BY <1>1, FS_Surjection
  <1>3. \A v \in V : IsFiniteSet(v)
    OBVIOUS
  <1> HIDE DEF V
  <1>4. IsFiniteSet(UNION V)
    BY <1>2, <1>3, FS_UNION
  <1> QED
    BY <1>4 DEF V
===============================================================================
