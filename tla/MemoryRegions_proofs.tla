------------------------- MODULE MemoryRegions_proofs -------------------------
(***************************************************************************)
(* Comparing each region with the next in the order of the bounds is       *)
(* enough: any two regions of an accepted list are disjoint.  Between a    *)
(* region and a later one lies, or is, its neighbour, which begins after   *)
(* the first has ended.                                                    *)
(***************************************************************************)
EXTENDS MemoryRegions, TLAPS, WellFoundedInduction

\* A nonempty set of naturals has a least element.
LEMMA LeastNatural ==
    ASSUME NEW T, T \subseteq Nat, T # {}
    PROVE  \E k \in T : \A m \in T : k <= m
  <1> DEFINE R == {ss \in Nat \X Nat : ss[1] < ss[2]}
  <1>1. IsWellFoundedOn(R, Nat)
    BY NatLessThanWellFounded DEF OpToRel
  <1> HIDE DEF R
  <1>2. PICK k \in T : \A m \in T : ~(<<m, k>> \in R)
    BY <1>1, WFMin
  <1>3. ASSUME NEW m \in T PROVE k <= m
    <2>1. m \in Nat /\ k \in Nat
      OBVIOUS
    <2>2. ~(m < k)
      BY <1>2, <2>1 DEF R
    <2> QED
      BY <2>1, <2>2
  <1> QED
    BY <1>3

\* A natural number that fits an int is that int.
LEMMA IntsKept ==
    ASSUME NEW u \in Nat, u < IntLimit
    PROVE  AsInt(u) = u
  <1>1. IntLimit \in Nat /\ IntLimit > 0
    BY IntLimitAssumption
  <1> DEFINE L == 2 * IntLimit
  <1>2. L \in Nat /\ L > 0 /\ u < L
    BY <1>1
  <1> HIDE DEF L
  <1>3. u % L = u
    BY <1>2
  <1> QED
    BY <1>1, <1>3 DEF AsInt, L

-----------------------------------------------------------------------------

\* Lists of regions: n of them, at natural addresses.
ListOfRegions(rs, n) ==
    /\ n \in Nat
    /\ DOMAIN rs = 1..n
    /\ \A i \in 1..n : rs[i].start \in Nat /\ rs[i].size \in Nat

\* The bounds of a region that fits are its own.
LEMMA Bounds ==
    ASSUME NEW rs, NEW n, ListOfRegions(rs, n), Fits(rs), NEW i \in 1..n
    PROVE  /\ First(rs, i) = rs[i].start /\ First(rs, i) \in Nat
           /\ Second(rs, i) = rs[i].start + rs[i].size /\ Second(rs, i) \in Nat
  <1>1. /\ rs[i].start \in Nat /\ rs[i].size \in Nat
        /\ rs[i].start + rs[i].size < IntLimit
    BY DEF ListOfRegions, Fits
  <1>2. IntLimit \in Nat
    BY IntLimitAssumption
  <1>3. AsInt(rs[i].start) = rs[i].start
    BY <1>1, <1>2, IntsKept
  <1>4. AsInt(rs[i].start + rs[i].size) = rs[i].start + rs[i].size
    BY <1>1, IntsKept
  <1> QED
    BY <1>1, <1>3, <1>4 DEF First, Second

\* After a region that is not the last comes its neighbour.
LEMMA NeighbourExists ==
    ASSUME NEW rs, NEW n, ListOfRegions(rs, n), Fits(rs),
           NEW i \in 1..n, NEW j \in 1..n, Before(rs, i, j)
    PROVE  \E k \in 1..n : <<i, k>> \in Neighbours(rs) /\ First(rs, k) <= First(rs, j)
  <1> DEFINE F(k) == First(rs, k)
             S(k) == Second(rs, k)
             After == {k \in 1..n : Before(rs, i, k)}
  <1>1. \A k \in 1..n : F(k) \in Nat /\ S(k) \in Nat
    BY Bounds
  <1>2. j \in After /\ After \subseteq 1..n /\ 1..n \subseteq Nat
    BY DEF ListOfRegions
  <1> DEFINE Firsts == {F(k) : k \in After}
  <1>3. PICK k1 \in After : \A k \in After : F(k1) <= F(k)
    <2>1. Firsts \subseteq Nat /\ Firsts # {}
      BY <1>1, <1>2
    <2> HIDE DEF Firsts
    <2>2. PICK f \in Firsts : \A m \in Firsts : f <= m
      BY <2>1, LeastNatural
    <2> QED
      BY <2>2 DEF Firsts
  <1> DEFINE Early == {k \in After : F(k) = F(k1)}
             Seconds == {S(k) : k \in Early}
  <1>4. PICK k2 \in Early : \A k \in Early : S(k2) <= S(k)
    <2>1. k1 \in Early /\ Early \subseteq 1..n
      BY <1>2
    <2>2. Seconds \subseteq Nat /\ Seconds # {}
      BY <1>1, <2>1
    <2> HIDE DEF Seconds
    <2>3. PICK s \in Seconds : \A m \in Seconds : s <= m
      BY <2>2, LeastNatural
    <2> QED
      BY <2>3 DEF Seconds
  <1> DEFINE Least1 == {k \in Early : S(k) = S(k2)}
  <1>5. PICK k \in Least1 : \A m \in Least1 : k <= m
    <2>1. k2 \in Least1 /\ Least1 \subseteq Nat
      BY <1>2
    <2> HIDE DEF Least1
    <2> QED
      BY <2>1, LeastNatural
  <1>6. k \in 1..n /\ Before(rs, i, k) /\ F(k) = F(k1) /\ S(k) = S(k2)
    OBVIOUS
  <1>7. ASSUME NEW m \in 1..n, Before(rs, i, m), Before(rs, m, k) PROVE FALSE
    <2>1. m \in After /\ F(k) <= F(m)
      BY <1>3, <1>6, <1>7
    <2>2. F(m) = F(k) /\ m \in Early
      BY <1>1, <1>6, <1>7, <2>1 DEF Before
    <2>3. S(k) <= S(m)
      BY <1>4, <1>6, <2>2
    <2>4. S(m) = S(k) /\ m < k
      BY <1>1, <1>6, <1>7, <2>2, <2>3 DEF Before
    <2>5. m \in Least1
      BY <1>6, <2>2, <2>4
    <2> QED
      BY <1>2, <1>5, <1>6, <2>4, <2>5
  <1>8. <<i, k>> \in Neighbours(rs)
    BY <1>6, <1>7 DEF Neighbours, ListOfRegions
  <1> QED
    BY <1>2, <1>3, <1>6, <1>8

\* A region ends before any later one begins.
LEMMA EndsBefore ==
    ASSUME NEW rs, NEW n, ListOfRegions(rs, n), Fits(rs), Accepted(rs),
           NEW i \in 1..n, NEW j \in 1..n, Before(rs, i, j)
    PROVE  Words(rs[i]) \cap Words(rs[j]) = {}
  <1>1. PICK k \in 1..n : <<i, k>> \in Neighbours(rs) /\ First(rs, k) <= First(rs, j)
    BY NeighbourExists
  <1>2. ~Overlapping(rs, i, k)
    BY <1>1 DEF Accepted
  <1>3. /\ First(rs, k) \in Nat /\ Second(rs, i) \in Nat
        /\ First(rs, j) = rs[j].start /\ Second(rs, i) = rs[i].start + rs[i].size
        /\ rs[i].start \in Nat /\ rs[i].size \in Nat /\ rs[j].start \in Nat /\ rs[j].size \in Nat
    BY Bounds DEF ListOfRegions
  <1>4. rs[i].start + rs[i].size < rs[j].start
    BY <1>1, <1>2, <1>3 DEF Overlapping
  <1> QED
    BY <1>3, <1>4 DEF Words

\* prepare_abstraction accepts only regions that have no address in common, however many
\* there are and in whatever order they are given, as long as their bounds fit an int.
THEOREM AcceptedDisjoint ==
    ASSUME NEW rs, NEW n, ListOfRegions(rs, n), Fits(rs), Accepted(rs)
    PROVE  Disjoint(rs)
  <1>1. SUFFICES ASSUME NEW i \in 1..n, NEW j \in 1..n, i # j
                 PROVE  Words(rs[i]) \cap Words(rs[j]) = {}
    BY DEF Disjoint, ListOfRegions
  <1>2. /\ First(rs, i) \in Nat /\ Second(rs, i) \in Nat
        /\ First(rs, j) \in Nat /\ Second(rs, j) \in Nat
    BY Bounds
  <1>3. i \in Nat /\ j \in Nat
    BY DEF ListOfRegions
  <1>4. Before(rs, i, j) \/ Before(rs, j, i)
    BY <1>1, <1>2, <1>3 DEF Before
  <1>5. CASE Before(rs, i, j)
    BY <1>5, EndsBefore
  <1>6. CASE Before(rs, j, i)
    <2>1. Words(rs[j]) \cap Words(rs[i]) = {}
      BY <1>6, EndsBefore
    <2> QED
      BY <2>1
  <1> QED
    BY <1>4, <1>5, <1>6
===============================================================================
