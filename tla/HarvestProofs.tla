--------------------------- MODULE HarvestProofs ---------------------------
(***************************************************************************)
(* What planning, executing and publishing a harvest establish for every    *)
(* set of groups, every weighting, every grid, every quota, every design    *)
(* and every surface that a solver may return or fail to return.            *)
(***************************************************************************)
EXTENDS HarvestVerify, TLAPS, FiniteSetTheorems, FunctionTheorems

-----------------------------------------------------------------------------
(* The inductive invariant of planning.                                     *)

OrderInv ==
    /\ order \in Seq(Groups) /\ weights \in Weightings /\ computesVega \in BOOLEAN
    /\ pc \in {"plan", "repair", "refused", "execute", "returned", "raised"}

\* Groups are moved between partitions and never made or lost, and only when a
\* partition cannot be filled by its share.
SizesInv == pc \notin {"plan", "refused"} =>
    /\ IsInjective(order) /\ Total >= Len(Partitions) * MinGroups
    /\ sizes \in [PartitionIds -> Nat] /\ sizes[1] + sizes[2] + sizes[3] = Total
    /\ (\E q \in PartitionIds : Exact(q) < MinGroups * Unit) \/ sizes = Apportioned

AssignedInv == pc \in {"execute", "returned", "raised"} =>
    Deficient = {} /\ assignment = Assigned

PlanInv == OrderInv /\ SizesInv /\ AssignedInv

-----------------------------------------------------------------------------
(* Partition counts.                                                        *)

LEMMA PartitionsAre ==
  PartitionIds = {1, 2, 3} /\ Len(Partitions) = 3
  BY DEF PartitionIds, Partitions

One(b) == IF b THEN 1 ELSE 0

LEMMA CountOfThree ==
  ASSUME NEW S \in SUBSET {1, 2, 3}
  PROVE  Cardinality(S) = One(1 \in S) + One(2 \in S) + One(3 \in S)
  <1> DEFINE S1 == S \cap {1}
             S2 == S \cap {1, 2}
  <1>1. IsFiniteSet({}) /\ Cardinality({}) = 0
    BY FS_EmptySet
  <1>2. S1 = IF 1 \in S THEN {} \cup {1} ELSE {}
    OBVIOUS
  <1>3. IsFiniteSet(S1) /\ Cardinality(S1) = One(1 \in S)
    BY <1>1, <1>2, FS_AddElement DEF One
  <1>4. S2 = IF 2 \in S THEN S1 \cup {2} ELSE S1
    OBVIOUS
  <1> HIDE DEF S1
  <1>5. 2 \notin S1
    BY DEF S1
  <1>6. IsFiniteSet(S2) /\ Cardinality(S2) = One(1 \in S) + One(2 \in S)
    BY <1>3, <1>4, <1>5, FS_AddElement DEF One
  <1>7. S = IF 3 \in S THEN S2 \cup {3} ELSE S2
    OBVIOUS
  <1> HIDE DEF S2
  <1>8. 3 \notin S2
    BY DEF S2
  <1> QED
    BY <1>6, <1>7, <1>8, FS_AddElement DEF One

\* Quotient and remainder.
LEMMA Division ==
  ASSUME NEW a \in Nat, NEW u \in Nat \ {0}
  PROVE  /\ a \div u \in Nat /\ a % u \in Nat /\ a % u < u
         /\ a = u * (a \div u) + (a % u)
  OBVIOUS

\* As many partitions gain a group as groups were left, and one gains a group
\* only if its share was not whole.
LEMMA Placing ==
  ASSUME NEW r1 \in Nat, NEW r2 \in Nat, NEW r3 \in Nat, NEW u \in Nat \ {0}, NEW left \in Int,
         r1 < u, r2 < u, r3 < u, r1 + r2 + r3 = left * u,
         NEW p1, NEW p2, NEW p3,
         p1 = (IF r2 > r1 THEN 1 ELSE 0) + (IF r3 > r1 THEN 1 ELSE 0),
         p2 = (IF r1 > r2 \/ r1 = r2 THEN 1 ELSE 0) + (IF r3 > r2 THEN 1 ELSE 0),
         p3 = (IF r1 > r3 \/ r1 = r3 THEN 1 ELSE 0) + (IF r2 > r3 \/ r2 = r3 THEN 1 ELSE 0)
  PROVE  /\ (IF p1 < left THEN 1 ELSE 0) + (IF p2 < left THEN 1 ELSE 0) + (IF p3 < left THEN 1 ELSE 0) = left
         /\ p1 < left => r1 > 0
         /\ p2 < left => r2 > 0
         /\ p3 < left => r3 > 0
  <1>1. left \in {0, 1, 2}
    <2>1. left * u >= 0 /\ left * u < 3 * u
      OBVIOUS
    <2>2. left >= 0
      BY <2>1
    <2>3. left < 3
      BY <2>1
    <2> QED
      BY <2>2, <2>3
  <1>2. CASE left = 0
    BY <1>2 DEF One
  <1>3. CASE left = 1
    <2>1. r1 + r2 + r3 = u
      BY <1>3
    <2> QED
      BY <1>3, <2>1 DEF One
  <1>4. CASE left = 2
    <2>1. r1 + r2 + r3 = u + u
      BY <1>4
    <2> QED
      BY <1>4, <2>1 DEF One
  <1> QED
    BY <1>1, <1>2, <1>3, <1>4

\* The shares, in units of the sum of the weights.
LEMMA Shares ==
  ASSUME OrderInv
  PROVE  /\ Total \in Nat /\ Unit \in Nat \ {0} /\ MinGroups \in Nat \ {0}
         /\ Exact(1) + Exact(2) + Exact(3) = Total * Unit
         /\ \A p \in {1, 2, 3} :
               /\ Exact(p) \in Nat /\ Remainder(p) \in Nat /\ Remainder(p) < Unit /\ Floors[p] \in Nat
               /\ Exact(p) = Unit * Floors[p] + Remainder(p)
         /\ DOMAIN Floors = {1, 2, 3}
  <1>1. weights \in [{1, 2, 3} -> Nat \ {0}] /\ MinGroups \in Nat \ {0}
    BY HarvestAssumption, PartitionsAre DEF OrderInv, PartitioningParses
  <1>2. weights[1] \in Nat \ {0} /\ weights[2] \in Nat \ {0} /\ weights[3] \in Nat \ {0}
    BY <1>1
  <1>3. Total \in Nat
    BY DEF OrderInv, Total
  <1>4. Unit \in Nat \ {0}
    BY <1>2 DEF Unit
  <1>5. Exact(1) \in Nat /\ Exact(2) \in Nat /\ Exact(3) \in Nat
    BY <1>2, <1>3 DEF Exact
  <1>6. Exact(1) + Exact(2) + Exact(3) = Total * Unit
    BY <1>2, <1>3 DEF Exact, Unit
  <1>7. ASSUME NEW p \in {1, 2, 3}
        PROVE  /\ Exact(p) \in Nat /\ Remainder(p) \in Nat /\ Remainder(p) < Unit /\ Floors[p] \in Nat
               /\ Exact(p) = Unit * Floors[p] + Remainder(p)
    <2>1. Exact(p) \in Nat
      BY <1>5
    <2>2. Floors[p] = Exact(p) \div Unit
      BY PartitionsAre DEF Floors
    <2>3. /\ Exact(p) \div Unit \in Nat /\ Exact(p) % Unit \in Nat /\ Exact(p) % Unit < Unit
          /\ Exact(p) = Unit * (Exact(p) \div Unit) + (Exact(p) % Unit)
      BY <1>4, <2>1, Division
    <2> QED
      BY <2>1, <2>2, <2>3 DEF Remainder
  <1>8. DOMAIN Floors = {1, 2, 3}
    BY PartitionsAre DEF Floors
  <1> QED
    BY <1>1, <1>3, <1>4, <1>6, <1>7, <1>8

LEMMA PlaceIs ==
  ASSUME OrderInv
  PROVE  /\ Place(1) = One(Remainder(2) > Remainder(1)) + One(Remainder(3) > Remainder(1))
         /\ Place(2) = One(Remainder(1) > Remainder(2) \/ Remainder(1) = Remainder(2))
                       + One(Remainder(3) > Remainder(2))
         /\ Place(3) = One(Remainder(1) > Remainder(3) \/ Remainder(1) = Remainder(3))
                       + One(Remainder(2) > Remainder(3) \/ Remainder(2) = Remainder(3))
  <1> DEFINE Ahead(p) == {q \in PartitionIds : \/ Remainder(q) > Remainder(p)
                                               \/ Remainder(q) = Remainder(p) /\ q < p}
  <1>0. Remainder(1) \in Nat /\ Remainder(2) \in Nat /\ Remainder(3) \in Nat
    BY Shares
  <1>1. \A p : Place(p) = Cardinality(Ahead(p)) /\ Ahead(p) \in SUBSET {1, 2, 3}
    BY PartitionsAre DEF Place
  <1>2. \A p : Place(p) = One(1 \in Ahead(p)) + One(2 \in Ahead(p)) + One(3 \in Ahead(p))
    BY <1>1, CountOfThree
  <1>3. /\ 1 \notin Ahead(1)
        /\ 2 \in Ahead(1) <=> Remainder(2) > Remainder(1)
        /\ 3 \in Ahead(1) <=> Remainder(3) > Remainder(1)
    BY <1>0, PartitionsAre
  <1>4. /\ 2 \notin Ahead(2)
        /\ 1 \in Ahead(2) <=> Remainder(1) > Remainder(2) \/ Remainder(1) = Remainder(2)
        /\ 3 \in Ahead(2) <=> Remainder(3) > Remainder(2)
    BY <1>0, PartitionsAre
  <1>5. /\ 3 \notin Ahead(3)
        /\ 1 \in Ahead(3) <=> Remainder(1) > Remainder(3) \/ Remainder(1) = Remainder(3)
        /\ 2 \in Ahead(3) <=> Remainder(2) > Remainder(3) \/ Remainder(2) = Remainder(3)
    BY <1>0, PartitionsAre
  <1> HIDE DEF Ahead
  <1> QED
    BY <1>2, <1>3, <1>4, <1>5 DEF One

\* The largest-remainder counts: they add up, and none departs by a group.
LEMMA ApportionedIs ==
  ASSUME OrderInv
  PROVE  /\ Apportioned \in [PartitionIds -> Nat]
         /\ Apportioned[1] + Apportioned[2] + Apportioned[3] = Total
         /\ \A p \in PartitionIds :
               /\ Floors[p] <= Apportioned[p]
               /\ Apportioned[p] * Unit < Exact(p) + Unit
               /\ Apportioned[p] * Unit > Exact(p) - Unit
  <1> DEFINE r(p) == Remainder(p)
             f(p) == Floors[p]
             a(p) == Apportioned[p]
  <1>1. /\ Total \in Nat /\ Unit \in Nat \ {0} /\ Exact(1) + Exact(2) + Exact(3) = Total * Unit
        /\ \A p \in {1, 2, 3} : /\ Exact(p) \in Nat /\ r(p) \in Nat /\ r(p) < Unit /\ f(p) \in Nat
                                /\ Exact(p) = Unit * f(p) + r(p)
    BY Shares
  <1>2. Left = Total - (f(1) + f(2) + f(3)) /\ Left \in Int
    BY <1>1 DEF Left
  <1>3. \A p \in {1, 2, 3} : a(p) = f(p) + One(Place(p) < Left)
    BY PartitionsAre DEF Apportioned, One
  <1>4. PartitionIds = {1, 2, 3} /\ Apportioned \in [PartitionIds -> Nat]
    BY <1>1, PartitionsAre DEF Apportioned
  <1> HIDE DEF f, a
  <1>5. r(1) + r(2) + r(3) = Left * Unit
    <2>1. Total * Unit = Unit * f(1) + Unit * f(2) + Unit * f(3) + r(1) + r(2) + r(3)
      BY <1>1
    <2>2. Left * Unit = Total * Unit - (Unit * f(1) + Unit * f(2) + Unit * f(3))
      BY <1>1, <1>2
    <2>3. Unit * f(1) \in Int /\ Unit * f(2) \in Int /\ Unit * f(3) \in Int /\ Total * Unit \in Int
      BY <1>1
    <2> QED
      BY <1>1, <2>1, <2>2, <2>3
  <1>6. /\ One(Place(1) < Left) + One(Place(2) < Left) + One(Place(3) < Left) = Left
        /\ Place(1) < Left => r(1) > 0
        /\ Place(2) < Left => r(2) > 0
        /\ Place(3) < Left => r(3) > 0
    <2>1. /\ r(1) \in Nat /\ r(2) \in Nat /\ r(3) \in Nat /\ Unit \in Nat \ {0}
          /\ r(1) < Unit /\ r(2) < Unit /\ r(3) < Unit
      BY <1>1
    <2>2. /\ Place(1) = One(r(2) > r(1)) + One(r(3) > r(1))
          /\ Place(2) = One(r(1) > r(2) \/ r(1) = r(2)) + One(r(3) > r(2))
          /\ Place(3) = One(r(1) > r(3) \/ r(1) = r(3)) + One(r(2) > r(3) \/ r(2) = r(3))
      BY PlaceIs
    <2> HIDE DEF r
    <2>3. PICK x1 \in Nat, x2 \in Nat, x3 \in Nat, u \in Nat \ {0}, l \in Int :
             x1 = r(1) /\ x2 = r(2) /\ x3 = r(3) /\ u = Unit /\ l = Left
      BY <1>2, <2>1
    <2>4. PICK p1, p2, p3 : p1 = Place(1) /\ p2 = Place(2) /\ p3 = Place(3)
      OBVIOUS
    <2>5. /\ x1 < u /\ x2 < u /\ x3 < u /\ x1 + x2 + x3 = l * u
          /\ p1 = (IF x2 > x1 THEN 1 ELSE 0) + (IF x3 > x1 THEN 1 ELSE 0)
          /\ p2 = (IF x1 > x2 \/ x1 = x2 THEN 1 ELSE 0) + (IF x3 > x2 THEN 1 ELSE 0)
          /\ p3 = (IF x1 > x3 \/ x1 = x3 THEN 1 ELSE 0) + (IF x2 > x3 \/ x2 = x3 THEN 1 ELSE 0)
      BY <1>5, <2>1, <2>2, <2>3, <2>4 DEF One
    <2>6. /\ (IF p1 < l THEN 1 ELSE 0) + (IF p2 < l THEN 1 ELSE 0) + (IF p3 < l THEN 1 ELSE 0) = l
          /\ p1 < l => x1 > 0
          /\ p2 < l => x2 > 0
          /\ p3 < l => x3 > 0
      BY <2>5, Placing
    <2> QED
      BY <2>3, <2>4, <2>6 DEF One
  <1>7. a(1) + a(2) + a(3) = Total
    BY <1>1, <1>2, <1>3, <1>6 DEF One
  <1>8. ASSUME NEW p \in {1, 2, 3}
        PROVE  f(p) <= a(p) /\ a(p) * Unit < Exact(p) + Unit /\ a(p) * Unit > Exact(p) - Unit
    <2>1. CASE ~(Place(p) < Left)
      <3>1. a(p) = f(p) /\ a(p) * Unit = Unit * f(p)
        BY <1>1, <1>3, <2>1 DEF One
      <3> QED
        BY <1>1, <3>1
    <2>2. CASE Place(p) < Left
      <3>1. a(p) = f(p) + 1 /\ r(p) > 0
        BY <1>3, <1>6, <2>2 DEF One
      <3>3. a(p) * Unit = Unit * f(p) + Unit
        BY <1>1, <3>1
      <3>2. Unit * f(p) \in Nat
        BY <1>1
      <3> QED
        BY <1>1, <3>1, <3>2, <3>3
    <2> QED
      BY <2>1, <2>2
  <1> QED
    BY <1>4, <1>7, <1>8 DEF f, a

-----------------------------------------------------------------------------
(* Repair.                                                                  *)

LEMMA SizesAre ==
  ASSUME PlanInv, pc \notin {"plan", "refused"}
  PROVE  /\ PartitionIds = {1, 2, 3} /\ Total \in Nat /\ MinGroups \in Nat \ {0}
         /\ IsInjective(order) /\ Total >= 3 * MinGroups
         /\ sizes \in [{1, 2, 3} -> Nat]
         /\ sizes[1] \in Nat /\ sizes[2] \in Nat /\ sizes[3] \in Nat
         /\ sizes[1] + sizes[2] + sizes[3] = Total
  BY Shares, PartitionsAre DEF PlanInv, SizesInv

\* A partition below the minimum leaves another above it.
LEMMA DonorExists ==
  ASSUME PlanInv, pc \notin {"plan", "refused"}, Deficient # {}
  PROVE  Donors # {}
  <1>1. PICK p \in {1, 2, 3} : sizes[p] < MinGroups
    BY SizesAre DEF Deficient
  <1>2. sizes[1] > MinGroups \/ sizes[2] > MinGroups \/ sizes[3] > MinGroups
    BY <1>1, SizesAre
  <1> QED
    BY <1>2, SizesAre DEF Donors

LEMMA LargestExists ==
  ASSUME NEW D \in SUBSET {1, 2, 3}, D # {}, NEW s \in [{1, 2, 3} -> Nat]
  PROVE  \E d \in D : \A q \in D : s[q] < s[d] \/ (s[q] = s[d] /\ d <= q)
  <1> DEFINE Beats(d, q) == q \in D => s[q] < s[d] \/ (s[q] = s[d] /\ d <= q)
  <1>1. s[1] \in Nat /\ s[2] \in Nat /\ s[3] \in Nat
    OBVIOUS
  <1>2. \/ 1 \in D /\ Beats(1, 2) /\ Beats(1, 3)
        \/ 2 \in D /\ Beats(2, 1) /\ Beats(2, 3)
        \/ 3 \in D /\ Beats(3, 1) /\ Beats(3, 2)
    <2>1. 1 \in D \/ 2 \in D \/ 3 \in D
      OBVIOUS
    <2> QED
      BY <1>1, <2>1
  <1>3. Beats(1, 1) /\ Beats(2, 2) /\ Beats(3, 3)
    BY <1>1
  <1>4. \A d, q \in D : Beats(d, q) => s[q] < s[d] \/ (s[q] = s[d] /\ d <= q)
    OBVIOUS
  <1>5. \E d \in D : Beats(d, 1) /\ Beats(d, 2) /\ Beats(d, 3)
    <2> HIDE DEF Beats
    <2> QED
      BY <1>2, <1>3
  <1> HIDE DEF Beats
  <1>6. PICK d \in D : Beats(d, 1) /\ Beats(d, 2) /\ Beats(d, 3)
    BY <1>5
  <1>7. ASSUME NEW q \in D  PROVE s[q] < s[d] \/ (s[q] = s[d] /\ d <= q)
    <2>1. q = 1 \/ q = 2 \/ q = 3
      OBVIOUS
    <2>2. Beats(d, q)
      BY <1>6, <2>1
    <2> QED
      BY <1>4, <2>2
  <1> QED
    BY <1>7

LEMMA DonorIs ==
  ASSUME PlanInv, pc \notin {"plan", "refused"}, Donors # {}
  PROVE  Donor \in Donors
  <1>1. Donors \in SUBSET {1, 2, 3} /\ sizes \in [{1, 2, 3} -> Nat]
    BY SizesAre DEF Donors
  <1>2. \E d \in Donors : \A q \in Donors : sizes[q] < sizes[d] \/ (sizes[q] = sizes[d] /\ d <= q)
    BY <1>1, LargestExists
  <1> QED
    BY <1>2 DEF Donor

\* A whole share that reaches the minimum fills its partition.
LEMMA NoRepairIfFilled ==
  ASSUME PlanInv, sizes = Apportioned, \A q \in PartitionIds : ~(Exact(q) < MinGroups * Unit)
  PROVE  Deficient = {}
  <1> SUFFICES ASSUME NEW p \in {1, 2, 3}, sizes[p] < MinGroups
               PROVE  FALSE
    BY PartitionsAre DEF Deficient
  <1>0. OrderInv
    BY DEF PlanInv
  <1>1. /\ Unit \in Nat \ {0} /\ MinGroups \in Nat \ {0} /\ Exact(p) \in Nat
        /\ Remainder(p) \in Nat /\ Remainder(p) < Unit /\ Floors[p] \in Nat
        /\ Exact(p) = Unit * Floors[p] + Remainder(p)
    BY <1>0, Shares
  <1>2. Apportioned[p] \in Nat /\ Floors[p] <= Apportioned[p]
    BY <1>0, ApportionedIs, PartitionsAre
  <1>3. Floors[p] + 1 <= MinGroups
    BY <1>1, <1>2
  <1>4. PICK f \in Nat, u \in Nat \ {0}, m \in Nat, r \in Nat, e \in Nat :
           f = Floors[p] /\ u = Unit /\ m = MinGroups /\ r = Remainder(p) /\ e = Exact(p)
    BY <1>1
  <1>5. PICK k \in Nat : m = f + 1 + k
    <2>1. m - (f + 1) \in Nat /\ m = f + 1 + (m - (f + 1))
      BY <1>3, <1>4
    <2> QED
      BY <2>1
  <1>6. m * u = u * f + u + k * u /\ k * u \in Nat /\ u * f \in Nat
    BY <1>5
  <1>7. e < m * u
    BY <1>1, <1>4, <1>6
  <1> QED
    BY <1>4, <1>7, PartitionsAre

-----------------------------------------------------------------------------
(* Planning.                                                                *)

LEMMA PlanInitial == Init => PlanInv
  <1> SUFFICES ASSUME Init PROVE PlanInv
    OBVIOUS
  <1>1. Cardinality(Groups) \in Nat
    BY HarvestAssumption, FS_CardinalityType
  <1>2. order \in Seq(Groups)
    BY <1>1 DEF Init
  <1> QED
    BY <1>2 DEF Init, PlanInv, OrderInv, SizesInv, AssignedInv

LEMMA PlanStands ==
  ASSUME PlanInv, UNCHANGED <<order, weights, computesVega, sizes, assignment>>,
         pc' = pc \/ pc' = "refused" \/ (pc' \in {"returned", "raised"} /\ pc = "execute")
  PROVE  PlanInv'
  <1>1. UNCHANGED <<order, weights, computesVega, sizes, assignment>>
    OBVIOUS
  <1>2. Total' = Total /\ Unit' = Unit /\ Planned' = Planned /\ Deficient' = Deficient
    BY <1>1 DEF Total, Unit, Planned, Deficient
  <1>3. (\A q : Exact(q)' = Exact(q)) /\ Apportioned' = Apportioned
    BY <1>1 DEF Total, Exact, Unit, Remainder, Floors, Left, Place, Apportioned
  <1>4. Assigned' = Assigned
    BY <1>1 DEF Assigned, Planned, PartitionAt
  <1>5. OrderInv'
    BY <1>1 DEF PlanInv, OrderInv
  <1>6. SizesInv'
    BY <1>1, <1>2, <1>3 DEF PlanInv, SizesInv
  <1>7. AssignedInv'
    BY <1>1, <1>2, <1>4 DEF PlanInv, AssignedInv
  <1> QED
    BY <1>5, <1>6, <1>7 DEF PlanInv

LEMMA Moved ==
  ASSUME NEW s \in [{1, 2, 3} -> Nat], NEW d \in {1, 2, 3}, NEW p \in {1, 2, 3}, p # d, s[d] > 0,
         NEW t, t = [s EXCEPT ![d] = @ - 1, ![p] = @ + 1]
  PROVE  t \in [{1, 2, 3} -> Nat] /\ t[1] + t[2] + t[3] = s[1] + s[2] + s[3]
  <1>1. s[1] \in Nat /\ s[2] \in Nat /\ s[3] \in Nat
    OBVIOUS
  <1>2. DOMAIN t = {1, 2, 3} /\ t = [q \in {1, 2, 3} |-> t[q]]
    OBVIOUS
  <1>3. t[d] = s[d] - 1 /\ t[p] = s[p] + 1
    OBVIOUS
  <1>4. \A q \in {1, 2, 3} : q # d /\ q # p => t[q] = s[q]
    OBVIOUS
  <1>5. t[1] \in Nat /\ t[2] \in Nat /\ t[3] \in Nat
    BY <1>1, <1>3, <1>4
  <1>6. t \in [{1, 2, 3} -> Nat]
    BY <1>2, <1>5
  <1>7. CASE d = 1
    BY <1>1, <1>3, <1>4, <1>7
  <1>8. CASE d = 2
    BY <1>1, <1>3, <1>4, <1>8
  <1>9. CASE d = 3
    BY <1>1, <1>3, <1>4, <1>9
  <1> QED
    BY <1>6, <1>7, <1>8, <1>9

LEMMA PlanStep == PlanInv /\ [Next]_vars => PlanInv'
  <1> SUFFICES ASSUME PlanInv, [Next]_vars PROVE PlanInv'
    OBVIOUS
  <1>1. CASE Refuse
    BY <1>1, PlanStands DEF Refuse, plan, planning
  <1>2. CASE Apportion
    <2>1. OrderInv /\ sizes' = Apportioned /\ order' = order /\ weights' = weights
          /\ computesVega' = computesVega /\ pc' = "repair"
          /\ IsInjective(order) /\ Total >= Len(Partitions) * MinGroups
      BY <1>2 DEF Apportion, PlanInv, plan
    <2>2. OrderInv'
      BY <2>1 DEF OrderInv
    <2>3. Total' = Total /\ Apportioned' = Apportioned
      BY <2>1 DEF Total, Exact, Unit, Remainder, Floors, Left, Place, Apportioned
    <2>4. SizesInv'
      BY <2>1, <2>3, ApportionedIs DEF SizesInv
    <2> QED
      BY <2>1, <2>2, <2>4 DEF PlanInv, AssignedInv
  <1>3. CASE Donate
    <2>1. PICK p \in Deficient : sizes' = [sizes EXCEPT ![Donor] = @ - 1, ![p] = @ + 1]
      BY <1>3 DEF Donate
    <2>2. pc = "repair" /\ pc' = "repair" /\ order' = order /\ weights' = weights
          /\ computesVega' = computesVega /\ Donors # {}
      BY <1>3 DEF Donate, plan
    <2>3. PICK d : d = Donor
      OBVIOUS
    <2>4. d \in {1, 2, 3} /\ p \in {1, 2, 3} /\ sizes[d] > MinGroups /\ sizes[p] < MinGroups
      BY <2>2, <2>3, DonorIs, SizesAre DEF Donors, Deficient
    <2>5. /\ sizes' \in [{1, 2, 3} -> Nat] /\ p # d
          /\ sizes'[1] + sizes'[2] + sizes'[3] = sizes[1] + sizes[2] + sizes[3]
      <3>1. sizes' = [sizes EXCEPT ![d] = @ - 1, ![p] = @ + 1]
        BY <2>1, <2>3
      <3>2. sizes[1] \in Nat /\ sizes[2] \in Nat /\ sizes[3] \in Nat /\ MinGroups \in Nat \ {0}
            /\ sizes \in [{1, 2, 3} -> Nat]
        BY <2>2, SizesAre
      <3>3. p # d /\ sizes[d] > 0
        BY <2>4, <3>2
      <3> QED
        BY <2>4, <3>1, <3>2, <3>3, Moved
    <2>6. \E q \in PartitionIds : Exact(q) < MinGroups * Unit
      <3>1. Deficient # {}
        BY <2>1
      <3> QED
        BY <2>2, <3>1, NoRepairIfFilled DEF PlanInv, SizesInv
    <2>7. Total' = Total /\ Unit' = Unit /\ \A q : Exact(q)' = Exact(q)
      BY <2>2 DEF Total, Unit, Exact
    <2>8. SizesInv'
      BY <2>2, <2>5, <2>6, <2>7, SizesAre, PartitionsAre DEF SizesInv
    <2> QED
      BY <2>2, <2>8 DEF PlanInv, OrderInv, AssignedInv
  <1>4. CASE Assign
    <2>1. assignment' = Assigned /\ Deficient = {} /\ UNCHANGED <<order, weights, computesVega, sizes>>
          /\ pc = "repair" /\ pc' = "execute"
      BY <1>4 DEF Assign, plan
    <2>2. SizesInv'
      BY <2>1, ZenonT(40) DEF PlanInv, SizesInv, Total, Exact, Unit, Remainder, Floors, Left, Place, Apportioned
    <2>3. AssignedInv'
      BY <2>1 DEF AssignedInv, Deficient, Assigned, Planned, PartitionAt
    <2> QED
      BY <2>1, <2>2, <2>3 DEF PlanInv, OrderInv
  <1>5. ASSUME NEW s \in AllSurfaces, SolverRaises(s) \/ Rejects(s) \/ Succeeds(s)
        PROVE  PlanInv'
    BY <1>5, PlanStands DEF SolverRaises, Rejects, Succeeds, Attempt, plan, planning
  <1>6. CASE CloseGroup
    BY <1>6, PlanStands DEF CloseGroup, plan, planning
  <1>7. CASE Report
    BY <1>7, PlanStands DEF Report, plan, planning
  <1>8. CASE UNCHANGED vars
    BY <1>8, PlanStands DEF vars, plan, planning
  <1> QED
    BY <1>1, <1>2, <1>3, <1>4, <1>5, <1>6, <1>7, <1>8 DEF Next

\* The slices of the digest order have the planned sizes.
LEMMA MembersAre ==
  ASSUME PlanInv, pc = "execute", NEW p \in {1, 2, 3}
  PROVE  Cardinality({g \in Planned : assignment[g] = Partitions[p]}) = sizes[p]
  <1> DEFINE T == {g \in Planned : assignment[g] = Partitions[p]}
             at(g) == CHOOSE i \in DOMAIN order : order[i] = g
  <1>1. /\ sizes[1] \in Nat /\ sizes[2] \in Nat /\ sizes[3] \in Nat
        /\ sizes[1] + sizes[2] + sizes[3] = Total /\ IsInjective(order)
        /\ order \in Seq(Groups) /\ DOMAIN order = 1..Total /\ Total \in Nat
    BY SizesAre DEF PlanInv, OrderInv, Total
  <1>2. \A i \in 1..Total : at(order[i]) = i /\ order[i] \in Planned
    BY <1>1 DEF IsInjective, Planned
  <1>3. \A g \in Planned : assignment[g] = Partitions[PartitionAt(at(g))]
    BY DEF PlanInv, AssignedInv, Assigned
  <1> HIDE DEF at
  <1>4. \A i \in 1..Total : PartitionAt(i) \in {1, 2, 3}
    BY DEF PartitionAt
  <1>5. \A q \in {1, 2, 3} : Partitions[q] = Partitions[p] => q = p
    BY DEF Partitions
  <1>6. \A i \in 1..Total : order[i] \in T <=> PartitionAt(i) = p
    BY <1>2, <1>3, <1>4, <1>5
  <1>7. \A g \in T : \E i \in 1..Total : g = order[i]
    BY <1>1 DEF Planned
  <1> HIDE DEF T
  <1>8. \A i, j \in 1..Total : order[i] = order[j] => i = j
    BY <1>1 DEF IsInjective
  <1>9. PICK a \in Nat, b \in Nat :
           /\ a <= b /\ b <= Total /\ b - a = sizes[p]
           /\ \A i \in 1..Total : PartitionAt(i) = p <=> i \in a+1..b
    <2>1. CASE p = 1
      <3> DEFINE A == 0
                 B == sizes[1]
      <3>1. A \in Nat /\ B \in Nat /\ A <= B /\ B <= Total /\ B - A = sizes[p]
        BY <1>1, <2>1
      <3>2. \A i \in 1..Total : PartitionAt(i) = p <=> i \in A+1..B
        BY <1>1, <2>1 DEF PartitionAt
      <3> HIDE DEF A, B
      <3> QED
        BY <3>1, <3>2
    <2>2. CASE p = 2
      <3> DEFINE A == sizes[1]
                 B == sizes[1] + sizes[2]
      <3>1. A \in Nat /\ B \in Nat /\ A <= B /\ B <= Total /\ B - A = sizes[p]
        BY <1>1, <2>2
      <3>2. \A i \in 1..Total : PartitionAt(i) = p <=> i \in A+1..B
        BY <1>1, <2>2 DEF PartitionAt
      <3> HIDE DEF A, B
      <3> QED
        BY <3>1, <3>2
    <2>3. CASE p = 3
      <3> DEFINE A == sizes[1] + sizes[2]
                 B == Total
      <3>1. A \in Nat /\ B \in Nat /\ A <= B /\ B <= Total /\ B - A = sizes[p]
        BY <1>1, <2>3
      <3>2. \A i \in 1..Total : PartitionAt(i) = p <=> i \in A+1..B
        BY <1>1, <2>3 DEF PartitionAt
      <3> HIDE DEF A, B
      <3> QED
        BY <3>1, <3>2
    <2> QED
      BY <2>1, <2>2, <2>3
  <1>10. a+1..b \subseteq 1..Total
    BY <1>1, <1>9
  <1> DEFINE F == [i \in a+1..b |-> order[i]]
  <1>11. F \in Bijection(a+1..b, T)
    <2>1. F \in [a+1..b -> T] /\ \A i, j \in a+1..b : F[i] = F[j] => i = j
      BY <1>6, <1>8, <1>9, <1>10
    <2>2. \A t \in T : \E i \in a+1..b : F[i] = t
      BY <1>6, <1>7, <1>9, <1>10
    <2> QED
      BY <2>1, <2>2, Fun_IsBij
  <1>12. ExistsBijection(a+1..b, T)
    BY <1>11 DEF ExistsBijection
  <1>13. IsFiniteSet(a+1..b) /\ Cardinality(a+1..b) = b - a
    <2>1. a + 1 \in Int /\ b \in Int
      BY <1>9
    <2>2. /\ IsFiniteSet(a+1..b)
          /\ Cardinality(a+1..b) = IF a + 1 > b THEN 0 ELSE b - (a + 1) + 1
      BY <2>1, FS_Interval
    <2> QED
      BY <1>9, <2>2
  <1>14. Cardinality(T) = b - a
    BY <1>12, <1>13, FS_Bijection
  <1> QED
    BY <1>9, <1>14 DEF T

LEMMA PartitionsFilledHolds == PlanInv => PartitionsFilled
  <1> SUFFICES ASSUME PlanInv PROVE PartitionsFilled
    OBVIOUS
  <1>1. pc = "repair" /\ Deficient # {} => Donors # {}
    BY DonorExists
  <1>2. ASSUME pc = "execute", NEW p \in PartitionIds
        PROVE  LET members(q) == {g \in Planned : assignment[g] = Partitions[q]}
               IN  /\ Cardinality(members(p)) >= MinGroups
                   /\ \/ \E q \in PartitionIds : Exact(q) < MinGroups * Unit
                      \/ /\ Cardinality(members(p)) * Unit < Exact(p) + Unit
                         /\ Cardinality(members(p)) * Unit > Exact(p) - Unit
    <2>1. p \in {1, 2, 3} /\ Cardinality({g \in Planned : assignment[g] = Partitions[p]}) = sizes[p]
      BY <1>2, MembersAre, PartitionsAre
    <2>2. sizes[p] >= MinGroups
      BY <1>2, <2>1, SizesAre DEF PlanInv, AssignedInv, Deficient
    <2>3. (\E q \in PartitionIds : Exact(q) < MinGroups * Unit) \/ sizes = Apportioned
      BY <1>2 DEF PlanInv, SizesInv
    <2>4. sizes = Apportioned => sizes[p] * Unit < Exact(p) + Unit /\ sizes[p] * Unit > Exact(p) - Unit
      BY <1>2, ApportionedIs DEF PlanInv
    <2> QED
      BY <2>1, <2>2, <2>3, <2>4
  <1> QED
    BY <1>1, <1>2 DEF PartitionsFilled

-----------------------------------------------------------------------------
(* The inductive invariant of execution.                                    *)

UnderWay == IF closed < Total THEN SurfacesOf(Group) ELSE {}
Sibling(s, role) == [group |-> s.group, leg |-> s.leg, role |-> role]
RowsFrom(rs, s) == {r \in rs : r.surface = s}
Owed(s) == IF s.role = "base" THEN RowsOf(s, returned[s]) ELSE {}

ShapeInv ==
    /\ closed \in 0..Total
    /\ current = [rows |-> current.rows, records |-> current.records, failures |-> current.failures,
                  attempted |-> current.attempted, returned |-> current.returned]
    /\ report = [records |-> report.records, failures |-> report.failures, groups |-> report.groups,
                 attempted |-> report.attempted, returned |-> report.returned,
                 solverFailed |-> report.solverFailed, successful |-> report.successful,
                 postFailed |-> report.postFailed]

\* A surface of the group under way has one outcome, and a record if it came
\* back from the solver and passed.
CurrentInv ==
    /\ Attempted \subseteq UnderWay
    /\ SurfacesIn(current.records) \cap SurfacesIn(current.failures) = {}
    /\ SurfacesIn(current.records) = DOMAIN returned \cap UnderWay
    /\ \A r \in current.rows : r.surface \in SurfacesIn(current.records)

\* What came back, and that nothing is harvested before its bumped siblings.
ReturnedInv == \A s \in DOMAIN returned :
    /\ s \in AllSurfaces /\ returned[s] \in Returns[s.leg]
    /\ \E i \in 1..Total : i <= closed + 1 /\ s \in SurfacesOf(order[i])
    /\ s.role = "base" => /\ Producible(s.leg, returned[s])
                          /\ computesVega => \A b \in BumpedRoles : Sibling(s, b) \in DOMAIN returned

\* The rows are those the surfaces owe, of whole groups.
RowsInv ==
    /\ \A s \in SurfacesIn(current.records) : RowsFrom(current.rows, s) = Owed(s)
    /\ \A r \in rows : \E i \in 1..closed : r.surface \in SurfacesOf(order[i])
    /\ \A i \in 1..closed : \A s \in SurfacesOf(order[i]) :
            RowsFrom(rows, s) = IF Complete(order[i]) THEN Owed(s) ELSE {}

GroupsInv == \A g \in report.groups : \E i \in 1..closed :
    g.group = order[i] /\ (g.status = "succeeded" <=> Complete(order[i]))

ExecInv == ShapeInv /\ CurrentInv /\ ReturnedInv /\ RowsInv /\ GroupsInv

-----------------------------------------------------------------------------
(* Surfaces.                                                                *)

LEMMA SurfaceIs ==
  ASSUME NEW g, NEW s \in SurfacesOf(g)
  PROVE  /\ s.group = g /\ s.leg \in Legs /\ s.role \in Roles /\ s = Sibling(s, s.role)
         /\ \A r : [s EXCEPT !.role = r] = Sibling(s, r)
         /\ \A r \in Roles : Sibling(s, r) \in SurfacesOf(g)
         /\ g \in Planned => s \in AllSurfaces
  BY DEF SurfacesOf, AllSurfaces, Sibling

\* Distinct places of the order hold distinct groups once a plan is made.
LEMMA GroupsDiffer ==
  ASSUME PlanInv, pc = "execute"
  PROVE  /\ \A i, j \in 1..Total : order[i] = order[j] => i = j
         /\ \A i, j \in 1..Total : \A s \in SurfacesOf(order[i]) : s \in SurfacesOf(order[j]) => i = j
         /\ \A i \in 1..Total : order[i] \in Planned
         /\ Total \in Nat
  <1>1. IsInjective(order) /\ order \in Seq(Groups) /\ Total = Len(order)
    BY DEF PlanInv, SizesInv, OrderInv, Total
  <1>2. DOMAIN order = 1..Total /\ Total \in Nat
    BY <1>1
  <1>3. \A i, j \in 1..Total : order[i] = order[j] => i = j
    BY <1>1, <1>2 DEF IsInjective
  <1>4. \A i \in 1..Total : order[i] \in Planned
    BY <1>2 DEF Planned
  <1>5. \A i, j \in 1..Total : \A s \in SurfacesOf(order[i]) : s \in SurfacesOf(order[j]) => i = j
    BY <1>3 DEF SurfacesOf
  <1> QED
    BY <1>2, <1>3, <1>4, <1>5

LEMMA VegaIs ==
  ASSUME NEW s, NEW n, s \in AllSurfaces
  PROVE  HasVega(s, n) <=> computesVega /\
             \A b \in BumpedRoles : n \in returned[Sibling(s, b)].finite
  <1>1. \A r : [s EXCEPT !.role = r] = Sibling(s, r)
    BY DEF AllSurfaces, Sibling
  <1>2. \A b : returned[[s EXCEPT !.role = b]].finite = returned[Sibling(s, b)].finite
    BY <1>1
  <1> QED
    BY <1>2 DEF HasVega

LEMMA ExecInitial == Init => ExecInv
  <1> SUFFICES ASSUME Init PROVE ExecInv
    OBVIOUS
  <1>1. Cardinality(Groups) \in Nat
    BY HarvestAssumption, FS_CardinalityType
  <1>2. order \in Seq(Groups) /\ Total \in Nat
    BY <1>1 DEF Init, Total
  <1>3. current = NoGroup /\ report = NoReport /\ rows = {} /\ returned = <<>> /\ closed = 0
    BY DEF Init
  <1>4. ShapeInv
    BY <1>2, <1>3 DEF ShapeInv, NoGroup, NoReport
  <1>5. DOMAIN returned = {}
    BY <1>3
  <1>6. SurfacesIn(current.records) = {} /\ SurfacesIn(current.failures) = {} /\ current.rows = {}
    BY <1>3 DEF NoGroup, SurfacesIn
  <1>7. CurrentInv /\ ReturnedInv
    BY <1>5, <1>6 DEF CurrentInv, ReturnedInv, Attempted
  <1>8. RowsInv /\ GroupsInv
    BY <1>3, <1>6 DEF RowsInv, GroupsInv, NoReport
  <1> QED
    BY <1>4, <1>7, <1>8 DEF ExecInv

\* What a step leaves alone.
LEMMA PlanFrame ==
  ASSUME UNCHANGED <<order, computesVega>>
  PROVE  /\ Total' = Total /\ Planned' = Planned /\ Roles' = Roles /\ AllSurfaces' = AllSurfaces
         /\ \A g : SurfacesOf(g)' = SurfacesOf(g)
  <1>1. Roles' = Roles
    BY DEF Roles, RoleOrder
  <1> QED
    BY <1>1 DEF Total, Planned, AllSurfaces, SurfacesOf

LEMMA OwedFrame ==
  ASSUME UNCHANGED <<order, computesVega, returned>>
  PROVE  /\ \A s : Owed(s)' = Owed(s)
         /\ \A g : Complete(g)' = Complete(g)
  <1>1. \A s, n : HasVega(s, n)' = HasVega(s, n)
    BY DEF HasVega
  <1>2. \A s, surface : RowsOf(s, surface)' = RowsOf(s, surface)
    BY <1>1 DEF RowsOf
  <1>3. \A g : Complete(g)' = Complete(g)
    BY PlanFrame DEF Complete
  <1> QED
    BY <1>2, <1>3 DEF Owed

LEMMA ExecFrame ==
  ASSUME ExecInv, UNCHANGED <<order, computesVega, closed, current, report, rows, returned>>
  PROVE  ExecInv'
  <1>1. /\ Total' = Total /\ AllSurfaces' = AllSurfaces
        /\ \A g : SurfacesOf(g)' = SurfacesOf(g)
        /\ \A s : Owed(s)' = Owed(s)
        /\ \A g : Complete(g)' = Complete(g)
    BY PlanFrame, OwedFrame
  <1>2. UnderWay' = UnderWay
    BY <1>1 DEF UnderWay, Group
  <1>3. Attempted' = Attempted
    BY DEF Attempted
  <1>4. ShapeInv'
    BY <1>1 DEF ExecInv, ShapeInv
  <1>5. CurrentInv'
    BY <1>2, <1>3 DEF ExecInv, CurrentInv
  <1>6. ReturnedInv'
    BY <1>1 DEF ExecInv, ReturnedInv
  <1>7. RowsInv'
    BY <1>1 DEF ExecInv, RowsInv
  <1>8. GroupsInv'
    BY <1>1 DEF ExecInv, GroupsInv
  <1> QED
    BY <1>4, <1>5, <1>6, <1>7, <1>8 DEF ExecInv

\* A surface that fails leaves what came back and what is owed alone.
LEMMA FailureStep ==
  ASSUME PlanInv, ExecInv, NEW s, NEW f, f.surface = s,
         pc = "execute", closed < Total, s \in UnderWay \ Attempted,
         UNCHANGED <<order, computesVega, closed, rows, returned>>,
         current'.rows = current.rows, current'.records = current.records,
         current'.failures = current.failures \cup {f},
         report'.groups = report.groups, ShapeInv'
  PROVE  ExecInv'
  <1>1. /\ Total' = Total /\ AllSurfaces' = AllSurfaces
        /\ \A g : SurfacesOf(g)' = SurfacesOf(g)
        /\ \A q : Owed(q)' = Owed(q)
        /\ \A g : Complete(g)' = Complete(g)
    BY PlanFrame, OwedFrame
  <1>2. UnderWay' = UnderWay
    BY <1>1 DEF UnderWay, Group
  <1>3. SurfacesIn(current'.failures) = SurfacesIn(current.failures) \cup {s}
    BY DEF SurfacesIn
  <1>4. Attempted' = Attempted \cup {s}
    BY <1>3 DEF Attempted
  <1>5. s \notin SurfacesIn(current.records)
    BY DEF Attempted
  <1>6. CurrentInv'
    BY <1>2, <1>3, <1>4, <1>5 DEF ExecInv, CurrentInv
  <1>7. ReturnedInv'
    BY <1>1 DEF ExecInv, ReturnedInv
  <1>8. RowsInv'
    BY <1>1 DEF ExecInv, RowsInv
  <1>9. GroupsInv'
    BY <1>1 DEF ExecInv, GroupsInv
  <1> QED
    BY <1>6, <1>7, <1>8, <1>9 DEF ExecInv

\* What a surface that passes changes, but for the counters.
Passing(s, surface, new, record) ==
    /\ pc = "execute" /\ closed < Total /\ s \in UnderWay \ Attempted /\ ~Orphaned(s)
    /\ surface \in Returns[s.leg] /\ (s.role = "base" => Producible(s.leg, surface))
    /\ new = (IF s.role = "base" THEN RowsOf(s, surface) ELSE {}) /\ record.surface = s
    /\ UNCHANGED <<order, computesVega, closed, rows>>
    /\ returned' = [q \in DOMAIN returned \cup {s} |-> IF q = s THEN surface ELSE returned[q]]
    /\ current'.rows = current.rows \cup new
    /\ current'.records = current.records \cup {record}
    /\ current'.failures = current.failures
    /\ report'.groups = report.groups /\ ShapeInv'

\* A surface that passes owes the rows it leaves, and no surface that came back
\* before it owes others than it did.
LEMMA SuccessStep ==
  ASSUME PlanInv, ExecInv, NEW s, NEW surface, NEW new, NEW record,
         Passing(s, surface, new, record)
  PROVE  /\ ExecInv' /\ UnderWay' = UnderWay
         /\ s \notin DOMAIN returned /\ DOMAIN returned' = DOMAIN returned \cup {s}
         /\ \A q \in DOMAIN returned : Owed(q)' = Owed(q) /\ returned'[q] = returned[q]
         /\ Owed(s)' = new
         /\ returned'[s] = surface
         /\ \A i \in 1..closed : /\ s \notin SurfacesOf(order[i])
                                 /\ Complete(order[i])' = Complete(order[i])
  <1> USE DEF Passing
  <1>1. /\ Total' = Total /\ AllSurfaces' = AllSurfaces
        /\ \A g : SurfacesOf(g)' = SurfacesOf(g)
    BY PlanFrame
  <1>2. UnderWay' = UnderWay
    BY <1>1 DEF UnderWay, Group
  <1>3. SurfacesIn(current'.records) = SurfacesIn(current.records) \cup {s}
    BY DEF SurfacesIn
  <1>4. Attempted' = Attempted \cup {s}
    BY <1>3 DEF Attempted
  <1>5. s \notin SurfacesIn(current.records) /\ s \notin SurfacesIn(current.failures)
    BY DEF Attempted
  <1>6. DOMAIN returned' = DOMAIN returned \cup {s} /\ s \notin DOMAIN returned
    BY <1>5 DEF ExecInv, CurrentInv
  <1>7. returned'[s] = surface /\ \A q \in DOMAIN returned : returned'[q] = returned[q]
    BY <1>6
  <1>8. \A r \in RowsOf(s, surface) : r.surface = s
    BY DEF RowsOf
  <1>9. CurrentInv'
    <2>1. SurfacesIn(current'.records) \cap SurfacesIn(current'.failures) = {}
      BY <1>3, <1>5 DEF ExecInv, CurrentInv
    <2>2. SurfacesIn(current'.records) = DOMAIN returned' \cap UnderWay'
      BY <1>2, <1>3, <1>6 DEF ExecInv, CurrentInv
    <2>3. \A r \in current'.rows : r.surface \in SurfacesIn(current'.records)
      BY <1>3, <1>8 DEF ExecInv, CurrentInv
    <2>4. Attempted' \subseteq UnderWay'
      BY <1>2, <1>4 DEF ExecInv, CurrentInv
    <2> QED
      BY <2>1, <2>2, <2>3, <2>4 DEF CurrentInv
  <1>10. closed + 1 \in 1..Total /\ Group = order[closed + 1] /\ s \in SurfacesOf(Group)
    BY GroupsDiffer DEF ExecInv, ShapeInv, UnderWay, Group
  <1>11. s \in AllSurfaces /\ s.group = Group /\ \A r : [s EXCEPT !.role = r] = Sibling(s, r)
    BY <1>10, SurfaceIs, GroupsDiffer
  <1>12. s.role = "base" /\ computesVega => \A b \in BumpedRoles : Sibling(s, b) \in DOMAIN returned
    <2> SUFFICES ASSUME s.role = "base", computesVega, NEW b \in BumpedRoles
                 PROVE  Sibling(s, b) \in DOMAIN returned
      OBVIOUS
    <2>1. b \in SolvedRoles(s)
      BY DEF Orphaned
    <2>2. PICK q \in SurfacesIn(current.records) : q.leg = s.leg /\ q.role = b
      BY <2>1 DEF SolvedRoles
    <2>3. q \in DOMAIN returned /\ q \in SurfacesOf(Group)
      BY <2>2 DEF ExecInv, CurrentInv, UnderWay
    <2>4. q = Sibling(s, b)
      BY <1>11, <2>2, <2>3, SurfaceIs DEF Sibling
    <2> QED
      BY <2>3, <2>4
  <1>13. \A q \in DOMAIN returned' : q.role = "base" /\ computesVega =>
            \A b \in BumpedRoles : Sibling(q, b) \in DOMAIN returned
    BY <1>6, <1>12 DEF ExecInv, ReturnedInv
  <1>14. ReturnedInv'
    <2> SUFFICES ASSUME NEW q \in DOMAIN returned'
                 PROVE  /\ q \in AllSurfaces /\ returned'[q] \in Returns[q.leg]
                        /\ \E i \in 1..Total : i <= closed + 1 /\ q \in SurfacesOf(order[i])
                        /\ q.role = "base" =>
                              /\ Producible(q.leg, returned'[q])
                              /\ computesVega => \A b \in BumpedRoles : Sibling(q, b) \in DOMAIN returned'
      BY <1>1 DEF ReturnedInv
    <2>1. q.role = "base" /\ computesVega => \A b \in BumpedRoles : Sibling(q, b) \in DOMAIN returned'
      BY <1>6, <1>13
    <2>2. CASE q = s
      <3>1. \E i \in 1..Total : i <= closed + 1 /\ q \in SurfacesOf(order[i])
        BY <1>10, <2>2
      <3> QED
        BY <1>7, <1>11, <2>1, <2>2, <3>1
    <2>3. CASE q # s
      <3>1. q \in DOMAIN returned
        BY <1>6, <2>3
      <3> QED
        BY <1>7, <2>1, <3>1 DEF ExecInv, ReturnedInv
    <2> QED
      BY <2>2, <2>3
  <1>15. ASSUME NEW q \in DOMAIN returned', NEW x, q.role = "base"
         PROVE  RowsOf(q, x)' = RowsOf(q, x)
    <2>1. q \in AllSurfaces
      BY <1>1, <1>14, <1>15 DEF ReturnedInv
    <2>2. computesVega => \A b \in BumpedRoles : returned'[Sibling(q, b)] = returned[Sibling(q, b)]
      BY <1>7, <1>13, <1>15
    <2>3. /\ \A n : HasVega(q, n) <=> computesVega /\
                    \A b \in BumpedRoles : n \in returned[Sibling(q, b)].finite
          /\ \A n : HasVega(q, n)' <=> computesVega /\
                    \A b \in BumpedRoles : n \in returned'[Sibling(q, b)].finite
      <3>1. \A r : [q EXCEPT !.role = r] = Sibling(q, r)
        BY <2>1 DEF AllSurfaces, Sibling
      <3>2. \A b : /\ returned[[q EXCEPT !.role = b]].finite = returned[Sibling(q, b)].finite
                   /\ returned'[[q EXCEPT !.role = b]].finite = returned'[Sibling(q, b)].finite
        BY <3>1
      <3> QED
        BY <1>1, <3>2, ZenonT(40) DEF HasVega
    <2>4. ASSUME NEW n PROVE HasVega(q, n)' = HasVega(q, n)
      <3>1. HasVega(q, n)' <=> HasVega(q, n)
        BY <2>2, <2>3
      <3>2. HasVega(q, n) \in BOOLEAN /\ HasVega(q, n)' \in BOOLEAN
        BY DEF HasVega
      <3> QED
        BY <3>1, <3>2
    <2> QED
      BY <2>4 DEF RowsOf
  <1>16. \A q \in DOMAIN returned : Owed(q)' = Owed(q)
    BY <1>6, <1>7, <1>15 DEF Owed
  <1>17. Owed(s)' = IF s.role = "base" THEN RowsOf(s, surface) ELSE {}
    BY <1>6, <1>7, <1>15 DEF Owed
  <1>18. \A i \in 1..closed : /\ i \in 1..Total /\ s \notin SurfacesOf(order[i])
                              /\ Complete(order[i])' = Complete(order[i])
    <2> SUFFICES ASSUME NEW i \in 1..closed
                 PROVE  /\ i \in 1..Total /\ s \notin SurfacesOf(order[i])
                        /\ Complete(order[i])' = Complete(order[i])
      OBVIOUS
    <2>1. i \in 1..Total /\ i # closed + 1
      BY <1>10, GroupsDiffer DEF ExecInv, ShapeInv
    <2>2. s \notin SurfacesOf(order[i])
      BY <1>10, <2>1, GroupsDiffer
    <2> QED
      BY <1>1, <1>6, <2>1, <2>2 DEF Complete
  <1>19. RowsInv'
    <2>1. \A q \in SurfacesIn(current'.records) : RowsFrom(current'.rows, q) = Owed(q)'
      <3> SUFFICES ASSUME NEW q \in SurfacesIn(current'.records)
                   PROVE  RowsFrom(current'.rows, q) = Owed(q)'
        OBVIOUS
      <3>1. CASE q = s
        <4>1. RowsFrom(current.rows, s) = {}
          BY <1>5 DEF ExecInv, CurrentInv, RowsFrom
        <4> QED
          BY <1>8, <1>17, <3>1, <4>1 DEF RowsFrom
      <3>2. CASE q # s
        <4>1. q \in SurfacesIn(current.records) /\ q \in DOMAIN returned
          BY <1>3, <3>2 DEF ExecInv, CurrentInv
        <4>2. RowsFrom(current'.rows, q) = RowsFrom(current.rows, q)
          BY <1>8, <3>2 DEF RowsFrom
        <4> QED
          BY <1>16, <4>1, <4>2 DEF ExecInv, RowsInv
      <3> QED
        BY <3>1, <3>2
    <2>2. \A i \in 1..closed : \A q \in SurfacesOf(order[i]) :
             RowsFrom(rows, q) = IF Complete(order[i]) THEN Owed(q)' ELSE {}
      BY <1>16 DEF ExecInv, RowsInv, Complete
    <2>3. \A r \in rows : \E i \in 1..closed : r.surface \in SurfacesOf(order[i])
      BY DEF ExecInv, RowsInv
    <2> QED
      BY <1>1, <1>18, <2>1, <2>2, <2>3 DEF RowsInv
  <1>20. GroupsInv'
    BY <1>18 DEF ExecInv, GroupsInv
  <1> QED
    BY <1>2, <1>6, <1>7, <1>9, <1>14, <1>16, <1>17, <1>18, <1>19, <1>20 DEF ExecInv

\* A group whose surfaces have all been attempted closes whole or empty.
LEMMA CloseStep ==
  ASSUME PlanInv, ExecInv, CloseGroup
  PROVE  /\ ExecInv' /\ (Complete(Group) <=> current.failures = {})
         /\ DOMAIN returned \cap UnderWay' = {}
         /\ closed \in Nat /\ UnderWay = SurfacesOf(Group) /\ Group = order[closed + 1]
         /\ \A i \in 1..closed' : i \in 1..closed \/ i = closed + 1
         /\ closed + 1 \in 1..closed' /\ \A i \in 1..closed : i \in 1..closed'
         /\ \A i \in 1..closed : /\ order[i] # Group
                                 /\ \A q \in SurfacesOf(order[i]) : q \notin SurfacesOf(Group)
  <1>1. /\ UNCHANGED <<order, computesVega, returned>>
        /\ pc = "execute" /\ closed < Total /\ closed' = closed + 1
        /\ Attempted = SurfacesOf(Group) /\ rows' = rows \cup KeptRows /\ current' = NoGroup
    BY DEF CloseGroup, plan
  <1>2. /\ Total' = Total /\ AllSurfaces' = AllSurfaces
        /\ \A g : SurfacesOf(g)' = SurfacesOf(g)
        /\ \A q : Owed(q)' = Owed(q)
        /\ \A g : Complete(g)' = Complete(g)
    BY <1>1, PlanFrame, OwedFrame
  <1>3. closed \in Nat /\ closed + 1 \in 1..Total /\ Total \in Nat /\ Group = order[closed + 1]
        /\ UnderWay = SurfacesOf(Group)
    BY <1>1, GroupsDiffer DEF ExecInv, ShapeInv, UnderWay, Group
  <1>4. /\ report'.groups = report.groups \cup {GroupRecord}
        /\ report' = [records |-> report'.records, failures |-> report'.failures, groups |-> report'.groups,
                 attempted |-> report'.attempted, returned |-> report'.returned,
                 solverFailed |-> report'.solverFailed, successful |-> report'.successful,
                 postFailed |-> report'.postFailed]
    <2>1. report' = [report EXCEPT
            !.records = @ \cup {Closed(r, current.failures # {}) : r \in current.records},
            !.failures = @ \cup current.failures,
            !.groups = @ \cup {GroupRecord}]
      BY DEF CloseGroup
    <2>2. report = [records |-> report.records, failures |-> report.failures, groups |-> report.groups,
                 attempted |-> report.attempted, returned |-> report.returned,
                 solverFailed |-> report.solverFailed, successful |-> report.successful,
                 postFailed |-> report.postFailed]
      BY DEF ExecInv, ShapeInv
    <2> QED
      BY <2>1, <2>2
  <1>5. ShapeInv'
    BY <1>1, <1>2, <1>3, <1>4 DEF ShapeInv, NoGroup
  <1>6. SurfacesIn(current'.records) = {} /\ SurfacesIn(current'.failures) = {} /\ current'.rows = {}
    BY <1>1 DEF NoGroup, SurfacesIn
  <1>7. \A q \in DOMAIN returned : \E i \in 1..Total : i <= closed + 1 /\ q \in SurfacesOf(order[i])
    BY DEF ExecInv, ReturnedInv
  <1>8. DOMAIN returned \cap UnderWay' = {}
    <2>1. CASE closed + 1 < Total
      <3>1. closed + 2 \in 1..Total /\ UnderWay' = SurfacesOf(order[closed + 2])
        BY <1>1, <1>2, <1>3, <2>1 DEF UnderWay, Group
      <3>2. \A i \in 1..Total : i <= closed + 1 => i # closed + 2
        BY <1>3
      <3> QED
        BY <1>1, <1>7, <3>1, <3>2, GroupsDiffer
    <2>2. CASE ~(closed + 1 < Total)
      BY <1>1, <1>2, <2>2 DEF UnderWay
    <2> QED
      BY <2>1, <2>2
  <1>9. CurrentInv'
    <2>1. Attempted' = {}
      BY <1>6 DEF Attempted
    <2> QED
      BY <1>1, <1>6, <1>8, <2>1 DEF CurrentInv
  <1>10. ReturnedInv'
    <2>1. \A i \in 1..Total : i <= closed + 1 => i <= closed' + 1
      BY <1>1, <1>3
    <2> QED
      BY <1>1, <1>2, <2>1 DEF ExecInv, ReturnedInv
  <1>11. Complete(Group) <=> current.failures = {}
    <2>1. Attempted = SurfacesIn(current.records) \cup SurfacesIn(current.failures)
      BY DEF Attempted
    <2>2. SurfacesIn(current.failures) = {} <=> current.failures = {}
      BY DEF SurfacesIn
    <2>3. /\ SurfacesIn(current.records) \cap SurfacesIn(current.failures) = {}
          /\ SurfacesIn(current.records) = DOMAIN returned \cap SurfacesOf(Group)
      BY <1>3 DEF ExecInv, CurrentInv
    <2> QED
      BY <1>1, <2>1, <2>2, <2>3 DEF Complete
  <1>12. \A r \in current.rows : r.surface \in SurfacesOf(Group)
    BY <1>3 DEF ExecInv, CurrentInv
  <1>13. \A i \in 1..closed' : i \in 1..closed \/ i = closed + 1
    BY <1>1, <1>3
  <1>14. \A i \in 1..closed : \A q \in SurfacesOf(order[i]) : q \notin SurfacesOf(Group)
    <2>1. \A i \in 1..closed : i \in 1..Total /\ i # closed + 1
      BY <1>3
    <2> QED
      BY <1>1, <1>3, <2>1, GroupsDiffer
  <1>15. RowsInv'
    <2>1. \A r \in rows' : \E i \in 1..closed' : r.surface \in SurfacesOf(order[i])
      <3>1. \A r \in rows : \E i \in 1..closed : r.surface \in SurfacesOf(order[i])
        BY DEF ExecInv, RowsInv
      <3>2. \A i \in 1..closed : i \in 1..closed'
        BY <1>1, <1>3
      <3>3. closed + 1 \in 1..closed'
        BY <1>1, <1>3
      <3> QED
        BY <1>1, <1>3, <1>12, <3>1, <3>2, <3>3 DEF KeptRows
    <2>2. ASSUME NEW i \in 1..closed', NEW q \in SurfacesOf(order[i])
          PROVE  RowsFrom(rows', q) = IF Complete(order[i]) THEN Owed(q) ELSE {}
      <3>1. CASE i \in 1..closed
        <4>1. RowsFrom(rows', q) = RowsFrom(rows, q)
          BY <1>1, <1>12, <1>14, <2>2, <3>1 DEF RowsFrom, KeptRows
        <4> QED
          BY <2>2, <3>1, <4>1 DEF ExecInv, RowsInv
      <3>2. CASE i = closed + 1
        <4>0. q \in SurfacesOf(Group)
          BY <1>3, <2>2, <3>2
        <4>1. RowsFrom(rows, q) = {}
          BY <1>14, <4>0 DEF ExecInv, RowsInv, RowsFrom
        <4>2. RowsFrom(rows', q) = RowsFrom(KeptRows, q)
          BY <1>1, <4>1 DEF RowsFrom
        <4>3. CASE current.failures # {}
          BY <1>3, <1>11, <3>2, <4>2, <4>3 DEF KeptRows, RowsFrom
        <4>4. CASE current.failures = {}
          <5>1. q \in SurfacesIn(current.records)
            BY <1>3, <1>11, <4>0, <4>4 DEF Complete, ExecInv, CurrentInv
          <5> QED
            BY <1>3, <1>11, <3>2, <4>2, <4>4, <5>1 DEF KeptRows, ExecInv, RowsInv
        <4> QED
          BY <4>3, <4>4
      <3> QED
        BY <1>13, <3>1, <3>2
    <2> QED
      BY <1>1, <1>2, <1>6, <2>1, <2>2 DEF RowsInv
  <1>16. GroupsInv'
    <2>1. GroupRecord.group = Group /\ (GroupRecord.status = "succeeded" <=> current.failures = {})
      BY DEF GroupRecord
    <2>2. closed + 1 \in 1..closed' /\ \A i \in 1..closed : i \in 1..closed'
      BY <1>1, <1>3
    <2>3. \A g \in report'.groups : g \in report.groups \/ g = GroupRecord
      BY <1>4
    <2> QED
      BY <1>1, <1>2, <1>3, <1>11, <2>1, <2>2, <2>3 DEF ExecInv, GroupsInv
  <1>17. \A i \in 1..closed : order[i] # Group
    <2>1. \A i \in 1..closed : i \in 1..Total /\ i # closed + 1
      BY <1>3
    <2> QED
      BY <1>1, <1>3, <2>1, GroupsDiffer
  <1>18. closed + 1 \in 1..closed' /\ \A i \in 1..closed : i \in 1..closed'
    BY <1>1, <1>3
  <1>19. ExecInv'
    BY <1>5, <1>9, <1>10, <1>15, <1>16 DEF ExecInv
  <1> QED
    BY <1>3, <1>8, <1>11, <1>13, <1>14, <1>17, <1>18, <1>19

LEMMA ExecStep == PlanInv /\ ExecInv /\ [Next]_vars => ExecInv'
  <1> SUFFICES ASSUME PlanInv, ExecInv, [Next]_vars PROVE ExecInv'
    OBVIOUS
  <1>1. CASE Refuse
    BY <1>1, ExecFrame DEF Refuse, plan, execution
  <1>2. CASE Apportion
    BY <1>2, ExecFrame DEF Apportion, plan, execution
  <1>3. CASE Donate
    BY <1>3, ExecFrame DEF Donate, plan, execution
  <1>4. CASE Assign
    BY <1>4, ExecFrame DEF Assign, plan, execution
  <1>5. ASSUME NEW s \in AllSurfaces, Attempt(s)
        PROVE  /\ pc = "execute" /\ closed < Total /\ s \in UnderWay \ Attempted
               /\ UNCHANGED <<order, computesVega, closed, rows>> /\ Total' = Total
    BY <1>5 DEF Attempt, Due, plan, UnderWay, Total
  <1>6. ASSUME NEW s \in AllSurfaces, SolverRaises(s)
        PROVE  ExecInv'
    <2>1. /\ Attempt(s) /\ UNCHANGED returned
          /\ current' = [current EXCEPT
                !.attempted = @ + 1,
                !.failures = @ \cup {[surface |-> s, lifecycle |-> "solver_failed"]}]
          /\ report' = [report EXCEPT !.attempted = @ + 1, !.solverFailed = @ + 1]
      BY <1>6 DEF SolverRaises
    <2>2. PICK f : f = [surface |-> s, lifecycle |-> "solver_failed"]
      OBVIOUS
    <2>3. /\ current'.rows = current.rows /\ current'.records = current.records
          /\ current'.failures = current.failures \cup {f}
          /\ report'.groups = report.groups /\ ShapeInv'
      BY <1>5, <2>1, <2>2 DEF ExecInv, ShapeInv
    <2>4. f.surface = s
      BY <2>2
    <2> QED
      BY <1>5, <2>1, <2>3, <2>4, FailureStep
  <1>7. ASSUME NEW s \in AllSurfaces, Rejects(s)
        PROVE  ExecInv'
    <2>1. /\ Attempt(s) /\ UNCHANGED returned
          /\ current' = [current EXCEPT
                !.attempted = @ + 1,
                !.returned = @ + 1,
                !.failures = @ \cup {[surface |-> s, lifecycle |-> "post_solve_pipeline_failed"]}]
          /\ report' = [report EXCEPT !.attempted = @ + 1, !.returned = @ + 1, !.postFailed = @ + 1]
      BY <1>7 DEF Rejects
    <2>2. PICK f : f = [surface |-> s, lifecycle |-> "post_solve_pipeline_failed"]
      OBVIOUS
    <2>3. /\ current'.rows = current.rows /\ current'.records = current.records
          /\ current'.failures = current.failures \cup {f}
          /\ report'.groups = report.groups /\ ShapeInv'
      BY <1>5, <2>1, <2>2 DEF ExecInv, ShapeInv
    <2>4. f.surface = s
      BY <2>2
    <2> QED
      BY <1>5, <2>1, <2>3, <2>4, FailureStep
  <1>8. ASSUME NEW s \in AllSurfaces, Succeeds(s)
        PROVE  ExecInv'
    <2>1. PICK surface \in Returns[s.leg] :
             LET new == IF s.role = "base" THEN RowsOf(s, surface) ELSE {}
                 record == IF s.role = "base" THEN BaseRecord(s, surface, new) ELSE BumpedRecord(s)
             IN  /\ s.role = "base" => Producible(s.leg, surface)
                 /\ returned' = [q \in DOMAIN returned \cup {s} |->
                        IF q = s THEN surface ELSE returned[q]]
                 /\ current' = [current EXCEPT
                        !.attempted = @ + 1,
                        !.returned = @ + 1,
                        !.rows = @ \cup new,
                        !.records = @ \cup {record}]
      BY <1>8 DEF Succeeds
    <2>2. PICK new, record :
             /\ new = IF s.role = "base" THEN RowsOf(s, surface) ELSE {}
             /\ record = IF s.role = "base" THEN BaseRecord(s, surface, new) ELSE BumpedRecord(s)
      OBVIOUS
    <2>3. /\ s.role = "base" => Producible(s.leg, surface)
          /\ returned' = [q \in DOMAIN returned \cup {s} |->
                 IF q = s THEN surface ELSE returned[q]]
          /\ current' = [current EXCEPT
                 !.attempted = @ + 1,
                 !.returned = @ + 1,
                 !.rows = @ \cup new,
                 !.records = @ \cup {record}]
      BY <2>1, <2>2
    <2>4. /\ Attempt(s) /\ ~Orphaned(s)
          /\ report' = [report EXCEPT !.attempted = @ + 1, !.returned = @ + 1, !.successful = @ + 1]
      BY <1>8 DEF Succeeds
    <2>5. /\ current'.rows = current.rows \cup new /\ current'.records = current.records \cup {record}
          /\ current'.failures = current.failures
          /\ report'.groups = report.groups /\ ShapeInv'
      BY <1>5, <2>3, <2>4 DEF ExecInv, ShapeInv
    <2>6. record.surface = s
      BY <2>2 DEF BaseRecord, BumpedRecord
    <2>7. Passing(s, surface, new, record)
      BY <1>5, <2>2, <2>3, <2>4, <2>5, <2>6 DEF Passing
    <2> QED
      BY <2>7, SuccessStep
  <1>9. CASE CloseGroup
    BY <1>9, CloseStep
  <1>10. CASE Report
    BY <1>10, ExecFrame DEF Report, plan, execution
  <1>11. CASE UNCHANGED vars
    BY <1>11, ExecFrame DEF vars, plan, execution
  <1> QED
    BY <1>1, <1>2, <1>3, <1>4, <1>6, <1>7, <1>8, <1>9, <1>10, <1>11 DEF Next

-----------------------------------------------------------------------------
(* The invariant of a harvest, and what it implies.                         *)

HarvestInv == PlanInv /\ ExecInv

\* Both invariants hold in every reachable state.
THEOREM HarvestInvariance == Spec => []HarvestInv
  <1>1. Init => HarvestInv
    BY PlanInitial, ExecInitial DEF HarvestInv
  <1>2. HarvestInv /\ [Next]_vars => HarvestInv'
    BY PlanStep, ExecStep DEF HarvestInv
  <1> QED
    BY <1>1, <1>2, PTL DEF Spec

\* partition_counts and assign_partitions: whatever the groups and the weights,
\* the repair of a partition below the minimum always finds a donor, and an
\* assigned plan gives each partition its minimum and its exact share to within
\* one group, unless some exact share is below the minimum.
THEOREM EveryPartitionIsFilled == Spec => []PartitionsFilled
  <1>1. HarvestInv => PartitionsFilled
    BY PartitionsFilledHolds DEF HarvestInv
  <1> QED
    BY <1>1, HarvestInvariance, PTL

\* execute_plan: a group is retained whole or not at all, however its surfaces
\* fail and in whatever order.
THEOREM GroupsAreWhole == Spec => []WholeGroups
  <1>1. HarvestInv => WholeGroups
    <2> SUFFICES ASSUME HarvestInv PROVE WholeGroups
      OBVIOUS
    <2>1. \A r \in rows : \E i \in 1..closed : r.surface.group = order[i] /\ Complete(order[i])
      <3> SUFFICES ASSUME NEW r \in rows
                   PROVE  \E i \in 1..closed : r.surface.group = order[i] /\ Complete(order[i])
        OBVIOUS
      <3>1. PICK i \in 1..closed : r.surface \in SurfacesOf(order[i])
        BY DEF HarvestInv, ExecInv, RowsInv
      <3>2. r \in RowsFrom(rows, r.surface)
        BY DEF RowsFrom
      <3>3. RowsFrom(rows, r.surface) = IF Complete(order[i]) THEN Owed(r.surface) ELSE {}
        BY <3>1 DEF HarvestInv, ExecInv, RowsInv
      <3> QED
        BY <3>1, <3>2, <3>3, SurfaceIs
    <2>2. \A g \in report.groups : g.status = "succeeded" <=> Complete(g.group)
      BY DEF HarvestInv, ExecInv, GroupsInv
    <2> QED
      BY <2>1, <2>2 DEF WholeGroups
  <1> QED
    BY <1>1, HarvestInvariance, PTL

-----------------------------------------------------------------------------
(* Evenly spaced selection.                                                 *)

Rank(c, n) == Cardinality({m \in c : m < n})

\* Ranks number a finite set of naturals from zero, in order.
LEMMA Ranks ==
  ASSUME NEW c \in SUBSET Nat, IsFiniteSet(c)
  PROVE  /\ Cardinality(c) \in Nat
         /\ \A n \in c : Rank(c, n) \in 0..(Cardinality(c) - 1)
         /\ \A n, m \in c : n < m <=> Rank(c, n) < Rank(c, m)
         /\ \A k \in 0..(Cardinality(c) - 1) : \E n \in c : Rank(c, n) = k
  <1> DEFINE Below(n) == {m \in c : m < n}
             N == Cardinality(c)
  <1>1. N \in Nat
    BY FS_CardinalityType
  <1>2. ASSUME NEW n PROVE IsFiniteSet(Below(n)) /\ Cardinality(Below(n)) \in Nat
    <2>1. Below(n) \in SUBSET c
      OBVIOUS
    <2> HIDE DEF Below
    <2>2. IsFiniteSet(Below(n))
      BY <2>1, FS_Subset
    <2> QED
      BY <2>2, FS_CardinalityType
  <1>3. ASSUME NEW n \in c, NEW S, IsFiniteSet(S), Below(n) \subseteq S, n \in S
        PROVE  Cardinality(Below(n)) < Cardinality(S)
    <2>1. n \notin Below(n)
      BY <1>3
    <2>2. Below(n) \in SUBSET S
      BY <1>3
    <2>3. Cardinality(S) \in Nat
      BY <1>3, FS_CardinalityType
    <2> HIDE DEF Below
    <2>4. Cardinality(Below(n)) <= Cardinality(S) /\ (Cardinality(S) = Cardinality(Below(n)) => S = Below(n))
      BY <1>3, <2>2, FS_Subset
    <2> QED
      BY <1>2, <1>3, <2>1, <2>3, <2>4
  <1>4. \A n \in c : Rank(c, n) \in 0..(N - 1)
    <2>1. \A n \in c : Rank(c, n) < N /\ Rank(c, n) \in Nat
      BY <1>2, <1>3 DEF Rank
    <2> HIDE DEF N
    <2> QED
      BY <1>1, <2>1
  <1>5. \A n, m \in c : n < m => Rank(c, n) < Rank(c, m)
    <2> SUFFICES ASSUME NEW n \in c, NEW m \in c, n < m
                 PROVE  Cardinality(Below(n)) < Cardinality(Below(m))
      BY DEF Rank
    <2>0. n \in Nat /\ m \in Nat /\ \A l \in c : l \in Nat
      OBVIOUS
    <2>3. \A l \in c : l < n => l < m
      BY <2>0
    <2>1. Below(n) \subseteq Below(m) /\ n \in Below(m)
      BY <2>3
    <2> HIDE DEF Below
    <2> QED
      BY <1>2, <1>3, <2>1
  <1>6. \A n, m \in c : Rank(c, n) < Rank(c, m) => n < m
    BY <1>1, <1>4, <1>5
  <1>7. \A k \in 0..(N - 1) : \E n \in c : Rank(c, n) = k
    <2> DEFINE f == [n \in c |-> Rank(c, n)]
    <2>1. f \in [c -> 0..(N - 1)]
      BY <1>4
    <2>2. \A n, m \in c : f[n] = f[m] => n = m
      BY <1>1, <1>4, <1>5
    <2>3. f \in Injection(c, 0..(N - 1))
      BY <2>1, <2>2, Fun_IsInj
    <2>4. IsFiniteSet(0..(N - 1)) /\ Cardinality(0..(N - 1)) = N
      <3>1. 0 \in Int /\ N - 1 \in Int
        BY <1>1
      <3>2. /\ IsFiniteSet(0..(N - 1))
            /\ Cardinality(0..(N - 1)) = IF 0 > N - 1 THEN 0 ELSE (N - 1) - 0 + 1
        BY <3>1, FS_Interval
      <3> HIDE DEF N
      <3> QED
        BY <1>1, <3>2
    <2>5. f \in Surjection(c, 0..(N - 1))
      <3> HIDE DEF f
      <3> QED
        BY <2>3, <2>4, FS_Injection
    <2> QED
      BY <2>5 DEF Surjection
  <1> QED
    BY <1>1, <1>4, <1>5, <1>6, <1>7

LEMMA NthIs ==
  ASSUME NEW c \in SUBSET Nat, IsFiniteSet(c)
  PROVE  /\ \A k \in 0..(Cardinality(c) - 1) : Nth(c, k) \in c /\ Rank(c, Nth(c, k)) = k
         /\ \A n \in c : Nth(c, Rank(c, n)) = n
         /\ \A k, l \in 0..(Cardinality(c) - 1) : Nth(c, k) < Nth(c, l) <=> k < l
  <1>1. \A k \in 0..(Cardinality(c) - 1) : Nth(c, k) \in c /\ Rank(c, Nth(c, k)) = k
    <2> SUFFICES ASSUME NEW k \in 0..(Cardinality(c) - 1)
                 PROVE  Nth(c, k) \in c /\ Rank(c, Nth(c, k)) = k
      OBVIOUS
    <2>1. \E n \in c : Rank(c, n) = k
      BY Ranks
    <2>2. Nth(c, k) = CHOOSE n \in c : Rank(c, n) = k
      BY DEF Nth, Rank
    <2> QED
      BY <2>1, <2>2
  <1>2. \A n, m \in c : Rank(c, n) = Rank(c, m) => n = m
    <2>1. \A n, m \in c : (n < m <=> Rank(c, n) < Rank(c, m)) /\ (m < n <=> Rank(c, m) < Rank(c, n))
      BY Ranks
    <2>2. \A n \in c : Rank(c, n) \in 0..(Cardinality(c) - 1) /\ Cardinality(c) \in Nat
      BY Ranks
    <2> QED
      BY <2>1, <2>2
  <1>3. ASSUME NEW n \in c PROVE Nth(c, Rank(c, n)) = n
    <2>1. Rank(c, n) \in 0..(Cardinality(c) - 1)
      BY Ranks
    <2>2. Nth(c, Rank(c, n)) \in c /\ Rank(c, Nth(c, Rank(c, n))) = Rank(c, n)
      BY <1>1, <2>1
    <2> QED
      BY <1>2, <2>2
  <1> QED
    BY <1>1, <1>3, Ranks

\* Candidates strictly between two of them.
LEMMA BetweenIs ==
  ASSUME NEW c \in SUBSET Nat, IsFiniteSet(c), NEW i \in 0..(Cardinality(c) - 1),
         NEW j \in 0..(Cardinality(c) - 1), i < j
  PROVE  Cardinality({n \in c : Nth(c, i) < n /\ n < Nth(c, j)}) = j - i - 1
  <1> DEFINE T == {n \in c : Nth(c, i) < n /\ n < Nth(c, j)}
             f == [n \in T |-> Rank(c, n)]
             I == (i + 1)..(j - 1)
  <1>1. Cardinality(c) \in Nat /\ i \in Nat /\ j \in Nat
    BY Ranks
  <1>2. Nth(c, i) \in c /\ Nth(c, j) \in c /\ Rank(c, Nth(c, i)) = i /\ Rank(c, Nth(c, j)) = j
    BY NthIs
  <1>3. ASSUME NEW n \in c
        PROVE  /\ Nth(c, i) < n <=> i < Rank(c, n)
               /\ n < Nth(c, j) <=> Rank(c, n) < j
               /\ Rank(c, n) \in Nat
    <2>1. \A a, b \in c : a < b <=> Rank(c, a) < Rank(c, b)
      BY Ranks
    <2>2. Rank(c, n) \in 0..(Cardinality(c) - 1)
      BY Ranks
    <2>3. Rank(c, n) \in Nat
      BY <1>1, <2>2
    <2>0. PICK u \in c, v \in c : u = Nth(c, i) /\ v = Nth(c, j) /\ Rank(c, u) = i /\ Rank(c, v) = j
      BY <1>2
    <2>4. u < n <=> i < Rank(c, n)
      BY <2>0, <2>1
    <2>5. n < v <=> Rank(c, n) < j
      BY <2>0, <2>1
    <2> QED
      BY <2>0, <2>3, <2>4, <2>5
  <1>4. f \in Bijection(T, I)
    <2>1. f \in [T -> I]
      <3>1. \A n \in T : Rank(c, n) \in I
        BY <1>1, <1>3
      <3> QED
        BY <3>1
    <2>2. \A n, m \in T : f[n] = f[m] => n = m
      <3>1. \A n, m \in c : Rank(c, n) = Rank(c, m) => n = m
        BY NthIs
      <3> QED
        BY <3>1
    <2>3. \A k \in I : \E n \in T : f[n] = k
      <3> SUFFICES ASSUME NEW k \in I PROVE \E n \in T : f[n] = k
        OBVIOUS
      <3>1. k \in 0..(Cardinality(c) - 1) /\ i < k /\ k < j
        BY <1>1
      <3>2. PICK n \in c : Rank(c, n) = k
        BY <3>1, Ranks
      <3> QED
        BY <1>3, <3>1, <3>2
    <2> HIDE DEF f, T, I
    <2> QED
      BY <2>1, <2>2, <2>3, Fun_IsBij
  <1>5. IsFiniteSet(I) /\ Cardinality(I) = j - i - 1
    <2>1. i + 1 \in Int /\ j - 1 \in Int
      BY <1>1
    <2>2. /\ IsFiniteSet(I)
          /\ Cardinality(I) = IF i + 1 > j - 1 THEN 0 ELSE (j - 1) - (i + 1) + 1
      BY <2>1, FS_Interval
    <2> HIDE DEF I
    <2> QED
      BY <1>1, <2>2
  <1>6. IsFiniteSet(T)
    <2>1. T \in SUBSET c
      OBVIOUS
    <2> HIDE DEF T
    <2> QED
      BY <2>1, FS_Subset
  <1>7. ExistsBijection(T, I)
    BY <1>4 DEF ExistsBijection
  <1> HIDE DEF T, I
  <1>8. Cardinality(T) = Cardinality(I)
    BY <1>6, <1>7, FS_Bijection
  <1> QED
    BY <1>5, <1>8 DEF T

\* Quotients of numbers that are a apart.
LEMMA QuotientsApart ==
  ASSUME NEW x \in Nat, NEW a \in Nat, NEW b \in Nat \ {0}
  PROVE  /\ (x + a) \div b - (x \div b) \in {a \div b, (a \div b) + 1}
         /\ x \div b \in Nat /\ a \div b \in Nat /\ (x + a) \div b \in Nat
         /\ a >= b => x \div b < (x + a) \div b
  <1>0. x + a \in Nat
    OBVIOUS
  <1>1. /\ x \div b \in Nat /\ x % b \in Nat /\ x % b < b /\ x = b * (x \div b) + (x % b)
        /\ a \div b \in Nat /\ a % b \in Nat /\ a % b < b /\ a = b * (a \div b) + (a % b)
        /\ (x + a) \div b \in Nat /\ (x + a) % b \in Nat /\ (x + a) % b < b
        /\ x + a = b * ((x + a) \div b) + ((x + a) % b)
    BY <1>0, Division
  <1>2. PICK q1 \in Nat, r1 \in Nat, q2 \in Nat, r2 \in Nat, q3 \in Nat, r3 \in Nat :
           /\ q1 = x \div b /\ r1 = x % b /\ q2 = a \div b /\ r2 = a % b
           /\ q3 = (x + a) \div b /\ r3 = (x + a) % b
    BY <1>1
  <1>3. r1 < b /\ r2 < b /\ r3 < b /\ x = b * q1 + r1 /\ a = b * q2 + r2 /\ x + a = b * q3 + r3
    BY <1>1, <1>2
  <1>4. PICK d \in Int : d = q3 - q1 - q2
    OBVIOUS
  <1>5. b * d = r1 + r2 - r3
    <2>1. b * d = b * q3 - b * q1 - b * q2
      BY <1>4
    <2>2. b * q3 \in Int /\ b * q1 \in Int /\ b * q2 \in Int
      OBVIOUS
    <2> QED
      BY <1>3, <2>1, <2>2
  <1>6. d \in {0, 1}
    <2>1. d < 2
      <3>1. d >= 2 => b * d >= b + b
        OBVIOUS
      <3> QED
        BY <1>3, <1>5, <3>1
    <2>2. d > -1
      <3>1. d <= -1 => b * d <= -b
        OBVIOUS
      <3> QED
        BY <1>3, <1>5, <3>1
    <2> QED
      BY <2>1, <2>2
  <1>7. q3 - q1 \in {q2, q2 + 1}
    BY <1>4, <1>6
  <1>8. a >= b => q2 >= 1
    BY <1>3
  <1>9. a >= b => q1 < q3
    BY <1>7, <1>8
  <1> QED
    BY <1>2, <1>7, <1>9

LEMMA QuotientOfProduct ==
  ASSUME NEW a \in Nat, NEW b \in Nat \ {0}
  PROVE  (b * a) \div b = a
  <1>1. PICK q \in Nat, r \in Nat : q = (b * a) \div b /\ r = (b * a) % b /\ r < b /\ b * a = b * q + r
    <2>1. b * a \in Nat
      OBVIOUS
    <2> QED
      BY <2>1, Division
  <1>2. b * (a - q) = r
    BY <1>1
  <1>3. a - q < 1
    <2>1. a - q >= 1 => b * (a - q) >= b
      OBVIOUS
    <2> QED
      BY <1>1, <1>2, <2>1
  <1>4. a - q > -1
    <2>1. a - q <= -1 => b * (a - q) <= -b
      OBVIOUS
    <2> QED
      BY <1>1, <1>2, <2>1
  <1> QED
    BY <1>1, <1>3, <1>4

LEMMA ShortOnlyOfAWhole ==
  ASSUME NEW n, NEW d, NEW k, FallsShort(n, d, k)
  PROVE  k > 0 /\ (k * n) % d = 0 /\ n % d # 0
  <1>1. Drift(n, d) < 0 /\ k > 0 /\ (k * n) % d = 0
    BY DEF FallsShort
  <1>2. n % d = 0 => Drift(n, d) = 0
    BY DEF Drift
  <1>3. ~(0 < 0)
    OBVIOUS
  <1> QED
    BY <1>1, <1>2, <1>3

\* Neighbouring positions are a quotient apart or one more, rounded or not: two
\* neighbours cannot both fall short of a whole number.
LEMMA FlooredApart ==
  ASSUME NEW n \in Nat, NEW d \in Nat \ {0}, NEW k \in Nat
  PROVE  Floored(n, d, k + 1) - Floored(n, d, k) \in {n \div d, (n \div d) + 1}
  <1>1. PICK x \in Nat : x = k * n
    OBVIOUS
  <1>2. x + n = (k + 1) * n
    BY <1>1
  <1>3. PICK f \in Nat, r \in Nat, q \in Nat, t \in Nat, g \in Nat, s \in Nat :
           /\ f = x \div d /\ r = x % d /\ r < d /\ x = d * f + r
           /\ q = n \div d /\ t = n % d /\ t < d /\ n = d * q + t
           /\ g = (x + n) \div d /\ s = (x + n) % d /\ s < d /\ x + n = d * g + s
    <2>1. x + n \in Nat
      OBVIOUS
    <2>2. /\ x \div d \in Nat /\ x % d \in Nat /\ x % d < d /\ x = d * (x \div d) + (x % d)
          /\ n \div d \in Nat /\ n % d \in Nat /\ n % d < d /\ n = d * (n \div d) + (n % d)
          /\ (x + n) \div d \in Nat /\ (x + n) % d \in Nat /\ (x + n) % d < d
          /\ x + n = d * ((x + n) \div d) + ((x + n) % d)
      BY <2>1, Division
    <2> QED
      BY <2>2
  <1>4. PICK e \in Int : e = g - f - q
    OBVIOUS
  <1>5. d * e = r + t - s
    <2>1. d * e = d * g - d * f - d * q
      BY <1>4
    <2>2. d * g \in Int /\ d * f \in Int /\ d * q \in Int
      OBVIOUS
    <2> QED
      BY <1>3, <2>1, <2>2
  <1>6. /\ e >= 2 => d * e >= d + d
        /\ e <= -1 => d * e <= -d
        /\ e = 0 => d * e = 0
        /\ e = 1 => d * e = d
    OBVIOUS
  <1>7. e \in {0, 1}
    <2>1. d * e < d + d /\ d * e > -d
      BY <1>3, <1>5
    <2> QED
      BY <1>6, <2>1
  <1>8. PICK u, v : /\ u \in {0, 1} /\ v \in {0, 1}
                    /\ u = (IF FallsShort(n, d, k) THEN 1 ELSE 0)
                    /\ v = (IF FallsShort(n, d, k + 1) THEN 1 ELSE 0)
    OBVIOUS
  <1>9. (u = 1 => r = 0 /\ t # 0) /\ (v = 1 => s = 0 /\ t # 0)
    <2>1. u = 1 => (k * n) % d = 0 /\ n % d # 0
      BY <1>8, ShortOnlyOfAWhole
    <2>2. v = 1 => ((k + 1) * n) % d = 0 /\ n % d # 0
      BY <1>8, ShortOnlyOfAWhole
    <2> QED
      BY <1>1, <1>2, <1>3, <2>1, <2>2
  <1>10. Floored(n, d, k) = f - u /\ Floored(n, d, k + 1) = g - v
    BY <1>1, <1>2, <1>3, <1>8 DEF Floored
  <1>11. g - v - (f - u) = q + (e - v + u)
    BY <1>4, <1>8
  <1>12. e - v + u \in {0, 1}
    <2>1. CASE u = 0 /\ v = 0
      BY <1>7, <2>1
    <2>2. CASE u = 1 /\ v = 0
      BY <1>3, <1>5, <1>6, <1>7, <1>9, <2>2
    <2>3. CASE u = 0 /\ v = 1
      <3>1. d * e > 0
        BY <1>3, <1>5, <1>9, <2>3
      <3> QED
        BY <1>6, <1>7, <2>3, <3>1
    <2>4. CASE u = 1 /\ v = 1
      <3>1. d * e > 0 /\ d * e < d
        BY <1>3, <1>5, <1>9, <2>4
      <3> QED
        BY <1>6, <1>7, <3>1
    <2> QED
      BY <1>8, <2>1, <2>2, <2>3, <2>4
  <1>13. g - v - (f - u) \in {q, q + 1}
    BY <1>11, <1>12
  <1> QED
    BY <1>3, <1>10, <1>13

\* p lists L positions among `count`, in order, from the first to the last or the
\* one before it if it lists two, with gaps that differ by at most one.
Spaced(p, L, count, quota) ==
    /\ L \in Nat /\ p \in [1..L -> 0..(count - 1)]
    /\ quota >= count => \A k \in 1..L : p[k] = k - 1
    /\ \A k, l \in 1..L : k < l => p[k] < p[l]
    /\ L >= 2 => p[1] = 0 /\ count - 2 <= p[L]
    /\ \A k, l \in 1..(L - 1) : p[k + 1] - p[k] <= p[l + 1] - p[l] + 1

LEMMA PositionsAre ==
  ASSUME NEW count \in Nat, NEW quota \in Nat, NEW L, NEW p,
         quota >= count => L = count, ~(quota >= count) => L = quota, p = Positions(count, quota)
  PROVE  Spaced(p, L, count, quota)
  <1> USE DEF Spaced
  <1>1. CASE quota >= count
    <2>1. L = count /\ p = [k \in 1..count |-> k - 1]
      BY <1>1 DEF Positions
    <2> QED
      BY <1>1, <2>1
  <1>2. CASE quota < count /\ quota = 0
    <2>1. L = 0
      BY <1>2
    <2>2. p = [k \in 1..0 |-> Floored(count - 1, 0 - 1, k - 1)]
      BY <1>2 DEF Positions
    <2>3. DOMAIN p = 1..0 /\ 1..0 = {} /\ p \in [1..0 -> 0..(count - 1)]
      BY <2>2
    <2> QED
      BY <1>2, <2>1, <2>3
  <1>3. CASE quota < count /\ quota = 1
    <2>1. L = 1 /\ p = [k \in 1..1 |-> (count - 1) \div 2]
      BY <1>3 DEF Positions
    <2>2. (count - 1) \div 2 \in 0..(count - 1)
      BY <1>3
    <2>3. 1..L = {1} /\ 1..(L - 1) = {}
      BY <2>1
    <2>4. p \in [1..L -> 0..(count - 1)]
      BY <2>1, <2>2
    <2> QED
      BY <1>3, <2>1, <2>3, <2>4
  <1>4. CASE quota < count /\ quota >= 2
    <2> DEFINE a == count - 1
               b == quota - 1
    <2>0. L = quota /\ quota # 1 /\ ~(quota >= count)
      BY <1>4
    <2>1. L = quota /\ p = [k \in 1..L |-> Floored(a, b, k - 1)]
      BY <1>4, <2>0 DEF Positions
    <2>2. a \in Nat /\ b \in Nat \ {0} /\ a >= b /\ L = b + 1
      BY <1>4, <2>1
    <2>3. \A k \in 1..L : p[k] = Floored(a, b, k - 1)
      BY <2>1
    <2>c. count = a + 1 /\ DOMAIN p = 1..L /\ p = [k \in 1..L |-> p[k]]
      BY <2>1
    <2> HIDE DEF a, b
    <2> DEFINE f(i) == (i * a) \div b
    <2>4. \A i \in Nat : /\ f(i) \in Nat /\ f(i) < f(i + 1)
                         /\ Floored(a, b, i) = f(i) \/ Floored(a, b, i) = f(i) - 1
                         /\ i = 0 => Floored(a, b, i) = f(i)
      <3> SUFFICES ASSUME NEW i \in Nat
                   PROVE  /\ f(i) \in Nat /\ f(i) < f(i + 1)
                          /\ Floored(a, b, i) = f(i) \/ Floored(a, b, i) = f(i) - 1
                          /\ i = 0 => Floored(a, b, i) = f(i)
        OBVIOUS
      <3>1. PICK x \in Nat : x = i * a
        BY <2>2
      <3>2. x + a = (i + 1) * a
        BY <2>2, <3>1
      <3>3. x \div b \in Nat /\ x \div b < (x + a) \div b
        BY <2>2, QuotientsApart
      <3>4. Floored(a, b, i) = f(i) - (IF FallsShort(a, b, i) THEN 1 ELSE 0)
        BY DEF Floored
      <3>5. i = 0 => ~FallsShort(a, b, i)
        BY ShortOnlyOfAWhole
      <3> QED
        BY <3>1, <3>2, <3>3, <3>4, <3>5
    <2>n. \A k \in 1..L : k - 1 \in Nat
      BY <2>2
    <2>5. p[1] = 0 /\ p[L] \in {a, a - 1}
      <3>1. 1 \in 1..L /\ L \in 1..L /\ L - 1 = b /\ b \in Nat
        BY <2>2
      <3>2. p[1] = f(0) /\ p[L] \in {f(b), f(b) - 1}
        BY <2>3, <2>4, <3>1
      <3>3. (b * a) \div b = a /\ (b * 0) \div b = 0 /\ 0 * a = b * 0
        BY <2>2, QuotientOfProduct
      <3> QED
        BY <3>2, <3>3
    <2>9. a \div b \in Nat /\ a \div b >= 1
      <3>1. PICK q \in Nat, r \in Nat : q = a \div b /\ r < b /\ a = b * q + r
        BY <2>2, Division
      <3>2. q = 0 => b * q = 0
        BY <2>2
      <3> QED
        BY <2>2, <3>1, <3>2
    <2>6. \A k \in 1..(L - 1) : p[k + 1] - p[k] \in {a \div b, (a \div b) + 1}
      <3> SUFFICES ASSUME NEW k \in 1..(L - 1) PROVE p[k + 1] - p[k] \in {a \div b, (a \div b) + 1}
        OBVIOUS
      <3>1. k \in 1..L /\ k + 1 \in 1..L /\ (k + 1) - 1 = (k - 1) + 1 /\ k - 1 \in Nat
        BY <2>2
      <3>2. p[k] = Floored(a, b, k - 1) /\ p[k + 1] = Floored(a, b, (k - 1) + 1)
        BY <2>3, <3>1
      <3> QED
        BY <2>2, <3>1, <3>2, FlooredApart
    <2>t. \A k \in 1..L : p[k] \in Int
      BY <2>3, <2>4, <2>n
    <2>m. \A k, l \in 1..L : k < l => p[k] < p[l]
      <3> SUFFICES ASSUME NEW k \in 1..L, NEW l \in 1..L, k < l PROVE p[k] < p[l]
        OBVIOUS
      <3>1. CASE l = k + 1
        <4>1. k \in 1..(L - 1) /\ p[k] \in Int /\ p[l] \in Int
          BY <2>2, <2>t, <3>1
        <4>2. p[l] - p[k] = a \div b \/ p[l] - p[k] = (a \div b) + 1
          BY <2>6, <3>1, <4>1
        <4> QED
          BY <2>9, <4>1, <4>2
      <3>2. CASE l > k + 1
        <4>1. PICK i \in Nat, j \in Nat : i = k - 1 /\ j = l - 2 /\ i < j /\ j + 1 = l - 1
          BY <2>2, <3>2
        <4>2. f(i) < f(j)
          <5>1. PICK x \in Nat, y \in Nat : x = i * a /\ y = (j - i) * a
            BY <2>2, <4>1
          <5>2. PICK e \in Nat : j - i = 1 + e
            <6>1. j - i - 1 \in Nat /\ j - i = 1 + (j - i - 1)
              BY <4>1
            <6> QED
              BY <6>1
          <5>3. y = a + e * a /\ e * a \in Nat
            BY <2>2, <5>1, <5>2
          <5>4. x + y = j * a /\ y >= a
            BY <2>2, <5>1, <5>3
          <5>5. x \div b < (x + y) \div b
            BY <2>2, <5>3, <5>4, QuotientsApart
          <5> QED
            BY <5>1, <5>4, <5>5
        <4>3. f(i) \in Nat /\ f(j) \in Nat /\ f(j + 1) \in Nat /\ f(j) < f(j + 1)
          BY <2>4, <4>1
        <4>4. p[k] = f(i) \/ p[k] = f(i) - 1
          BY <2>3, <2>4, <4>1
        <4>5. p[l] = f(j + 1) \/ p[l] = f(j + 1) - 1
          <5>1. p[l] = Floored(a, b, j + 1) /\ j + 1 \in Nat
            BY <2>3, <4>1
          <5> QED
            BY <2>4, <5>1
        <4> HIDE DEF f
        <4> QED
          BY <4>2, <4>3, <4>4, <4>5
      <3> QED
        BY <3>1, <3>2
    <2>7. \A k \in 1..L : p[k] \in 0..a
      <3> SUFFICES ASSUME NEW k \in 1..L PROVE p[k] \in 0..a
        OBVIOUS
      <3>1. 1 \in 1..L /\ L \in 1..L
        BY <2>2
      <3>2. (k = 1 \/ p[1] < p[k]) /\ (k = L \/ p[k] < p[L])
        BY <2>2, <2>m, <3>1
      <3>3. p[k] \in Int
        BY <2>t
      <3> QED
        BY <2>2, <2>5, <3>2, <3>3
    <2>8. p \in [1..L -> 0..a]
      BY <2>7, <2>c
    <2>10. ASSUME NEW k \in 1..(L - 1), NEW l \in 1..(L - 1)
           PROVE  p[k + 1] - p[k] <= p[l + 1] - p[l] + 1
      <3>1. /\ p[k + 1] - p[k] = a \div b \/ p[k + 1] - p[k] = (a \div b) + 1
            /\ p[l + 1] - p[l] = a \div b \/ p[l + 1] - p[l] = (a \div b) + 1
        BY <2>6, <2>10
      <3> QED
        BY <2>9, <3>1
    <2>11. count - 1 = a /\ count - 2 <= p[L]
      BY <2>2, <2>5, <2>c
    <2> HIDE DEF f
    <2> QED
      BY <1>4, <2>2, <2>5, <2>8, <2>10, <2>11, <2>m
  <1>5. quota >= count \/ (quota < count /\ quota = 0) \/ (quota < count /\ quota = 1)
        \/ (quota < count /\ quota >= 2)
    OBVIOUS
  <1> QED
    BY <1>1, <1>2, <1>3, <1>4, <1>5

Chosen(c, quota) == {Nth(c, k) : k \in Range(Positions(Cardinality(c), quota))}

\* evenly_spaced_selection: as many candidates as are allowed, spread evenly.
LEMMA ChosenIs ==
  ASSUME NEW c \in SUBSET Nat, IsFiniteSet(c), NEW quota \in Nat, NEW S, S = Chosen(c, quota)
  PROVE  /\ S \subseteq c /\ IsFiniteSet(S)
         /\ Cardinality(S) = IF quota >= Cardinality(c) THEN Cardinality(c) ELSE quota
         /\ quota >= Cardinality(c) => S = c
         /\ Even(S, c)
  <1>0. Cardinality(c) \in Nat
    BY FS_CardinalityType
  <1>1. PICK N, L, p :
           /\ N \in Nat /\ N = Cardinality(c) /\ L = (IF quota >= N THEN N ELSE quota) /\ p = Positions(N, quota)
    BY <1>0
  <1>2. /\ L \in Nat /\ p \in [1..L -> 0..(N - 1)]
        /\ quota >= N => \A k \in 1..L : p[k] = k - 1
        /\ \A k, l \in 1..L : k < l => p[k] < p[l]
        /\ L >= 2 => p[1] = 0 /\ N - 2 <= p[L]
        /\ \A k, l \in 1..(L - 1) : p[k + 1] - p[k] <= p[l + 1] - p[l] + 1
    <2>1. (quota >= N => L = N) /\ (~(quota >= N) => L = quota) /\ p = Positions(N, quota)
      BY <1>1
    <2>2. N \in Nat /\ quota \in Nat
      BY <1>1
    <2>3. Spaced(p, L, N, quota)
      BY <2>1, <2>2, PositionsAre
    <2> QED
      BY <2>3 DEF Spaced
  <1>p. DOMAIN p = 1..L /\ \A k \in 1..L : p[k] \in 0..(N - 1)
    BY <1>2
  <1>3. S = {Nth(c, p[k]) : k \in 1..L}
    BY <1>1, <1>p DEF Range, Chosen
  <1>4. \A k \in 1..L : Nth(c, p[k]) \in c /\ Nth(c, p[k]) \in Nat /\ Rank(c, Nth(c, p[k])) = p[k]
    BY <1>1, <1>p, NthIs
  <1>5. \A k, l \in 1..L : Nth(c, p[k]) < Nth(c, p[l]) <=> k < l
    <2> SUFFICES ASSUME NEW k \in 1..L, NEW l \in 1..L
                 PROVE  Nth(c, p[k]) < Nth(c, p[l]) <=> k < l
      OBVIOUS
    <2>1. Nth(c, p[k]) < Nth(c, p[l]) <=> p[k] < p[l]
      BY <1>1, <1>p, NthIs
    <2>2. p[k] < p[l] <=> k < l
      <3>1. k < l \/ k = l \/ l < k
        OBVIOUS
      <3>2. p[k] \in Int /\ p[l] \in Int
        BY <1>1, <1>p
      <3> QED
        BY <1>2, <3>1, <3>2
    <2> QED
      BY <2>1, <2>2
  <1>6. S \subseteq c
    BY <1>3, <1>4
  <1> DEFINE g == [k \in 1..L |-> Nth(c, p[k])]
  <1>7. g \in Bijection(1..L, S)
    <2>1. g \in [1..L -> S]
      BY <1>3
    <2>2. \A k, l \in 1..L : g[k] = g[l] => k = l
      <3> SUFFICES ASSUME NEW k \in 1..L, NEW l \in 1..L, Nth(c, p[k]) = Nth(c, p[l]) PROVE k = l
        OBVIOUS
      <3>1. ~(Nth(c, p[k]) < Nth(c, p[l])) /\ ~(Nth(c, p[l]) < Nth(c, p[k]))
        BY <1>4
      <3> QED
        BY <1>5, <3>1
    <2>3. \A n \in S : \E k \in 1..L : g[k] = n
      BY <1>3
    <2> HIDE DEF g
    <2> QED
      BY <2>1, <2>2, <2>3, Fun_IsBij
  <1>8. IsFiniteSet(1..L) /\ Cardinality(1..L) = L
    <2>1. 1 \in Int /\ L \in Int
      BY <1>2
    <2>2. /\ IsFiniteSet(1..L)
          /\ Cardinality(1..L) = IF 1 > L THEN 0 ELSE L - 1 + 1
      BY <2>1, FS_Interval
    <2> QED
      BY <1>2, <2>2
  <1>9. IsFiniteSet(S) /\ Cardinality(S) = L
    <2>1. ExistsBijection(1..L, S)
      BY <1>7 DEF ExistsBijection
    <2> QED
      BY <1>8, <2>1, FS_Bijection
  <1>10. quota >= N => S = c
    <2> SUFFICES ASSUME quota >= N, NEW n \in c PROVE n \in S
      BY <1>6
    <2>1. Rank(c, n) \in 0..(N - 1) /\ Nth(c, Rank(c, n)) = n
      BY <1>1, Ranks, NthIs
    <2>2. Rank(c, n) + 1 \in 1..L /\ p[Rank(c, n) + 1] = Rank(c, n)
      <3>1. Rank(c, n) + 1 \in 1..L
        BY <1>1, <2>1
      <3>2. p[Rank(c, n) + 1] = (Rank(c, n) + 1) - 1
        BY <1>2, <3>1
      <3> QED
        BY <2>1, <3>1, <3>2
    <2>3. n = Nth(c, p[Rank(c, n) + 1])
      BY <2>1, <2>2
    <2> QED
      BY <1>3, <2>2, <2>3
  <1>11. Even(S, c)
    <2> DEFINE between(a, b) == Cardinality({n \in c : a < n /\ n < b})
               neighbours == {u \in S \X S : u[1] < u[2] /\ ~\E n \in S : u[1] < n /\ n < u[2]}
    <2> SUFFICES ASSUME L >= 2
                 PROVE  /\ \A n \in c : \E a \in S : a <= n
                        /\ \A m, n \in c \ S : m # n => \E b \in S : m < b \/ n < b
                        /\ \A u, v \in neighbours : between(u[1], u[2]) <= between(v[1], v[2]) + 1
      <3> DEFINE passedOver == {between(u[1], u[2]) : u \in neighbours}
      <3>2. (\A u, v \in neighbours : between(u[1], u[2]) <= between(v[1], v[2]) + 1)
              => \A x, y \in passedOver : x <= y + 1
        <4> HIDE DEF between, neighbours
        <4> QED
          OBVIOUS
      <3> QED
        BY <1>9, <3>2 DEF Even
    <2>a. 1 \in 1..L /\ L \in 1..L /\ p[1] = 0 /\ N - 2 <= p[L] /\ p[L] \in 0..(N - 1)
      BY <1>2
    <2>b. PICK a \in c, b \in c : /\ a \in S /\ a = Nth(c, p[1]) /\ Rank(c, a) = 0
                                  /\ b \in S /\ b = Nth(c, p[L]) /\ Rank(c, b) = p[L]
      BY <1>3, <1>4, <2>a
    <2>1. ASSUME NEW n \in c PROVE \E m \in S : m <= n
      <3>1. Rank(c, n) \in 0..(N - 1)
        BY <1>1, Ranks
      <3>2. n < a <=> Rank(c, n) < Rank(c, a)
        BY Ranks
      <3>3. ~(n < a)
        BY <1>1, <2>b, <3>1, <3>2
      <3>4. n \in Nat /\ a \in Nat
        OBVIOUS
      <3> QED
        BY <2>b, <3>3, <3>4
    <2>e. ASSUME NEW m \in c \ S, NEW n \in c \ S, m # n
          PROVE  \E i \in S : m < i \/ n < i
      <3> SUFFICES ASSUME ~(m < b), ~(n < b) PROVE FALSE
        BY <2>b
      <3>1. b < m /\ b < n
        <4>1. m # b /\ n # b
          BY <2>b
        <4>2. m \in Nat /\ n \in Nat /\ b \in Nat
          OBVIOUS
        <4> QED
          BY <4>1, <4>2
      <3>2. Rank(c, b) < Rank(c, m) /\ Rank(c, b) < Rank(c, n)
        <4>1. (b < m <=> Rank(c, b) < Rank(c, m)) /\ (b < n <=> Rank(c, b) < Rank(c, n))
          BY Ranks
        <4> QED
          BY <3>1, <4>1
      <3>3. Rank(c, m) \in 0..(N - 1) /\ Rank(c, n) \in 0..(N - 1)
        BY <1>1, Ranks
      <3>4. Rank(c, m) = Rank(c, n)
        BY <1>1, <2>a, <2>b, <3>2, <3>3
      <3> QED
        BY <2>e, <3>4, NthIs
    <2>2. ASSUME NEW u \in neighbours
          PROVE  \E k \in 1..(L - 1) : between(u[1], u[2]) = p[k + 1] - p[k] - 1
      <3>1. u[1] \in S /\ u[2] \in S /\ u[1] < u[2] /\ ~\E n \in S : u[1] < n /\ n < u[2]
        OBVIOUS
      <3>2. PICK k \in 1..L, l \in 1..L : u[1] = Nth(c, p[k]) /\ u[2] = Nth(c, p[l])
        BY <1>3, <3>1
      <3>3. k < l
        BY <1>5, <3>1, <3>2
      <3>4. l = k + 1
        <4> SUFFICES ASSUME k + 1 < l PROVE FALSE
          BY <1>2, <3>3
        <4>1. k + 1 \in 1..L
          BY <1>2
        <4>2. Nth(c, p[k]) < Nth(c, p[k + 1]) /\ Nth(c, p[k + 1]) < Nth(c, p[l])
          BY <1>5, <4>1
        <4>3. Nth(c, p[k + 1]) \in S
          BY <1>3, <4>1
        <4> QED
          BY <3>1, <3>2, <4>2, <4>3
      <3>5. k \in 1..(L - 1)
        BY <1>2, <3>4
      <3>6. PICK i \in 0..(N - 1), j \in 0..(N - 1) : i = p[k] /\ j = p[k + 1] /\ i < j
        BY <1>2, <1>p, <3>3, <3>4
      <3>7. between(u[1], u[2]) = j - i - 1
        <4>0. i \in 0..(Cardinality(c) - 1) /\ j \in 0..(Cardinality(c) - 1) /\ i < j
          BY <1>1, <3>6
        <4>1. Cardinality({n \in c : Nth(c, i) < n /\ n < Nth(c, j)}) = j - i - 1
          BY <4>0, BetweenIs, Zenon
        <4> QED
          BY <3>2, <3>4, <3>6, <4>1
      <3> QED
        BY <3>5, <3>6, <3>7
    <2>3. ASSUME NEW u \in neighbours, NEW v \in neighbours
          PROVE  between(u[1], u[2]) <= between(v[1], v[2]) + 1
      <3> HIDE DEF between, neighbours
      <3>1. PICK k \in 1..(L - 1) : between(u[1], u[2]) = p[k + 1] - p[k] - 1
        BY <2>2, <2>3
      <3>2. PICK l \in 1..(L - 1) : between(v[1], v[2]) = p[l + 1] - p[l] - 1
        BY <2>2, <2>3
      <3>3. p[k + 1] \in Int /\ p[k] \in Int /\ p[l + 1] \in Int /\ p[l] \in Int
        <4>1. k \in 1..L /\ k + 1 \in 1..L /\ l \in 1..L /\ l + 1 \in 1..L
          BY <1>2
        <4> QED
          BY <1>1, <1>p, <4>1
      <3>4. p[k + 1] - p[k] <= p[l + 1] - p[l] + 1
        BY <1>2
      <3> QED
        BY <3>1, <3>2, <3>3, <3>4
    <2> QED
      BY <2>1, <2>3, <2>e
  <1> QED
    BY <1>1, <1>6, <1>9, <1>10, <1>11

-----------------------------------------------------------------------------
(* Rows owed.                                                               *)

LEMMA GridIs ==
  /\ Intervals \in Nat \ {0} /\ Buffer \in Nat \ {0}
  /\ Nodes \subseteq Nat /\ IsFiniteSet(Nodes) /\ 0 \in Nodes /\ Intervals \in Nodes
  /\ Quota \in [States -> Nat]
  /\ \A l \in Legs : Returns[l] \subseteq Surfaces
  <1>1. Intervals \in Nat \ {0} /\ Buffer \in Nat \ {0}
    BY HarvestAssumption DEF GridParses
  <1>2. IsFiniteSet(0..Intervals)
    <2>1. 0 \in Int /\ Intervals \in Int
      BY <1>1
    <2> QED
      BY <2>1, FS_Interval
  <1> QED
    BY <1>1, <1>2, HarvestAssumption DEF Nodes, HarvestParses

LEMMA CandidatesAre ==
  ASSUME NEW f \in Surfaces, NEW x
  PROVE  /\ Candidates(f, x) \in SUBSET Nodes /\ Candidates(f, x) \in SUBSET Nat
         /\ IsFiniteSet(Candidates(f, x))
         /\ \A n : n \in Candidates(f, x) <=>
                /\ n \in Window \cap f.finite /\ 0 < n /\ n < Intervals
                /\ Buffer <= n /\ n <= Intervals - Buffer /\ f.state[n] = x
  <1>0. f.finite \subseteq Nodes
    BY DEF Surfaces
  <1>1. Candidates(f, x) \in SUBSET Nodes
    BY <1>0 DEF Candidates
  <1>2. Candidates(f, x) \in SUBSET Nat
    BY <1>1, GridIs
  <1>3. IsFiniteSet(Candidates(f, x))
    BY <1>1, GridIs, FS_Subset
  <1>4. ASSUME NEW n
        PROVE  n \in Candidates(f, x) <=>
                /\ n \in Window \cap f.finite /\ 0 < n /\ n < Intervals
                /\ Buffer <= n /\ n <= Intervals - Buffer /\ f.state[n] = x
    <2>1. n \in Candidates(f, x) <=>
            n \in f.finite /\ n \in Window /\ n \notin Buffered /\ n \notin Endpoints /\ f.state[n] = x
      BY <1>0 DEF Candidates, Outside
    <2>2. n \in f.finite => n \in Nat /\ 0 <= n /\ n <= Intervals
      BY <1>0, GridIs DEF Nodes
    <2>3. n \in f.finite => (n \notin Endpoints <=> 0 < n /\ n < Intervals)
      BY <2>2, GridIs DEF Endpoints
    <2>4. n \in f.finite /\ n \notin Endpoints =>
            (n \notin Buffered <=> Buffer <= n /\ n <= Intervals - Buffer)
      BY <1>0, <2>2, GridIs DEF Buffered
    <2> QED
      BY <2>1, <2>3, <2>4
  <1> QED
    BY <1>1, <1>2, <1>3, <1>4

LEMMA SelectionIs ==
  ASSUME NEW f \in Surfaces, NEW leg \in Legs, NEW x \in States
  PROVE  /\ Selection(leg, f, x) \subseteq Candidates(f, x) /\ IsFiniteSet(Selection(leg, f, x))
         /\ Requested(leg, x) \in Nat
         /\ Requested(leg, x) = IF x \in Applicable(leg) THEN Quota[x] ELSE 0
         /\ Cardinality(Selection(leg, f, x)) =
                IF Requested(leg, x) >= Cardinality(Candidates(f, x)) THEN Cardinality(Candidates(f, x))
                ELSE Requested(leg, x)
         /\ Requested(leg, x) >= Cardinality(Candidates(f, x)) =>
                Selection(leg, f, x) = Candidates(f, x)
         /\ Even(Selection(leg, f, x), Candidates(f, x))
  <1>1. Requested(leg, x) = (IF x \in Applicable(leg) THEN Quota[x] ELSE 0) /\ Requested(leg, x) \in Nat
    BY GridIs DEF Requested
  <1>2. PICK q, c, S :
           q \in Nat /\ c = Candidates(f, x) /\ q = Requested(leg, x) /\ S = Selection(leg, f, x)
    BY <1>1
  <1>3. c \in SUBSET Nat /\ IsFiniteSet(c)
    BY <1>2, CandidatesAre
  <1>4. S = Chosen(c, q)
    BY <1>2 DEF Selection, Picks, Chosen
  <1>5. /\ S \subseteq c /\ IsFiniteSet(S)
        /\ Cardinality(S) = IF q >= Cardinality(c) THEN Cardinality(c) ELSE q
        /\ q >= Cardinality(c) => S = c
        /\ Even(S, c)
    BY <1>2, <1>3, <1>4, ChosenIs
  <1> QED
    BY <1>1, <1>2, <1>5

\* The nodes of a surface's rows in one state are those selected in it.
LEMMA RowsOfState ==
  ASSUME NEW s, NEW f \in Surfaces, s.leg \in Legs, NEW x \in States
  PROVE  {r.node : r \in {q \in RowsOf(s, f) : q.state = x}} = Selection(s.leg, f, x)
  <1>1. \A y \in States : \A n \in Selection(s.leg, f, y) : f.state[n] = y
    BY SelectionIs, CandidatesAre
  <1>2. \A r \in RowsOf(s, f) : \E y \in States : r.node \in Selection(s.leg, f, y) /\ r.state = f.state[r.node]
    BY DEF RowsOf
  <1>3. ASSUME NEW n \in Selection(s.leg, f, x)
        PROVE  \E r \in RowsOf(s, f) : r.node = n /\ r.state = f.state[n]
    <2>1. n \in UNION {Selection(s.leg, f, y) : y \in States}
      OBVIOUS
    <2>2. [surface |-> s, node |-> n, state |-> f.state[n],
           bumped |-> computesVega, vega |-> HasVega(s, n)] \in RowsOf(s, f)
      BY <2>1 DEF RowsOf
    <2> QED
      BY <2>2
  <1> QED
    BY <1>1, <1>2, <1>3

\* harvest_surface and attach_leg_vega: whatever the solver returned, a group
\* that is complete has, on each base surface and in each exercise state, as many
\* rows as the quota and the admissible nodes allow, evenly spread, with a vega
\* exactly where both bumped prices are finite.
THEOREM EveryRowIsOwed == Spec => []RowsAreOwed
  <1>1. HarvestInv => RowsAreOwed
    <2> SUFFICES ASSUME HarvestInv, NEW i \in 1..closed, Complete(order[i]),
                        NEW s \in SurfacesOf(order[i])
                 PROVE  LET mine == {r \in rows : r.surface = s}
                        IN  IF s.role # "base" THEN mine = {}
                            ELSE /\ \A x \in States :
                                        LET chosen == {r.node : r \in {q \in mine : q.state = x}}
                                            from == Admissible(s, x)
                                        IN  /\ chosen \subseteq from
                                            /\ \/ chosen = from /\ Cardinality(from) <= Quota[x]
                                               \/ Cardinality(chosen) = Quota[x]
                                            /\ Even(chosen, from)
                                 /\ \A r \in mine : r.vega <=> computesVega /\
                                        \A b \in BumpedRoles :
                                            r.node \in returned[[s EXCEPT !.role = b]].finite
      BY DEF RowsAreOwed
    <2>1. PICK mine : mine = {r \in rows : r.surface = s}
      OBVIOUS
    <2>2. mine = Owed(s)
      BY <2>1 DEF HarvestInv, ExecInv, RowsInv, RowsFrom
    <2>3. CASE s.role # "base"
      BY <2>1, <2>2, <2>3 DEF Owed
    <2>4. CASE s.role = "base"
      <3>1. s \in DOMAIN returned /\ s.leg \in Legs
        BY SurfaceIs DEF Complete
      <3>2. /\ returned[s] \in Surfaces /\ Producible(s.leg, returned[s])
        BY <2>4, <3>1, GridIs DEF HarvestInv, ExecInv, ReturnedInv
      <3>3. PICK f \in Surfaces : f = returned[s]
        BY <3>2
      <3>4. mine = RowsOf(s, f)
        BY <2>2, <2>4, <3>3 DEF Owed
      <3>5. ASSUME NEW x \in States
            PROVE  LET chosen == {r.node : r \in {q \in mine : q.state = x}}
                       from == Admissible(s, x)
                   IN  /\ chosen \subseteq from
                       /\ \/ chosen = from /\ Cardinality(from) <= Quota[x]
                          \/ Cardinality(chosen) = Quota[x]
                       /\ Even(chosen, from)
        <4>1. PICK chosen, from : /\ chosen = {r.node : r \in {q \in mine : q.state = x}}
                                  /\ from = Admissible(s, x)
          OBVIOUS
        <4>2. chosen = Selection(s.leg, f, x)
          BY <3>1, <3>4, <4>1, RowsOfState
        <4>3. from = Candidates(f, x)
          BY <3>3, <4>1, CandidatesAre DEF Admissible
        <4>4. Quota[x] \in Nat /\ Cardinality(from) \in Nat
          BY <4>3, GridIs, CandidatesAre, FS_CardinalityType
        <4>5. chosen \subseteq from /\ Even(chosen, from)
          BY <3>1, <4>2, <4>3, SelectionIs
        <4>6. (chosen = from /\ Cardinality(from) <= Quota[x]) \/ Cardinality(chosen) = Quota[x]
          <5>1. CASE x \in Applicable(s.leg)
            <6>1. Requested(s.leg, x) = Quota[x]
              BY <3>1, <5>1, SelectionIs
            <6>2. /\ Cardinality(chosen) = IF Quota[x] >= Cardinality(from) THEN Cardinality(from)
                                           ELSE Quota[x]
                  /\ Quota[x] >= Cardinality(from) => chosen = from
              BY <3>1, <4>2, <4>3, <6>1, SelectionIs
            <6> QED
              BY <4>4, <6>2
          <5>2. CASE x \notin Applicable(s.leg)
            <6>1. from = {}
              BY <3>2, <3>3, <4>3, <5>2 DEF Producible
            <6>2. Cardinality(from) = 0
              BY <6>1, FS_EmptySet
            <6> QED
              BY <4>4, <4>5, <6>1, <6>2
          <5> QED
            BY <5>1, <5>2
        <4> QED
          BY <4>1, <4>5, <4>6
      <3>6. \A r \in mine : r.vega = HasVega(s, r.node)
        BY <3>4 DEF RowsOf
      <3> QED
        BY <2>1, <2>4, <3>5, <3>6 DEF HasVega
    <2> QED
      BY <2>3, <2>4
  <1> QED
    BY <1>1, HarvestInvariance, PTL

-----------------------------------------------------------------------------
(* The report: its records, its counters and its recount.                   *)

Lifecycles == {"solver_failed", "post_solve_pipeline_failed"}
AllFailures == report.failures \cup current.failures
Passed == DOMAIN returned \cap UnderWay
RecordOf(s) == IF s.role = "base" THEN BaseRecord(s, returned[s], Owed(s)) ELSE BumpedRecord(s)

\* One failure for each surface that was attempted and did not pass.
FailuresInv ==
    /\ IsFiniteSet(AllFailures)
    /\ \A f \in AllFailures : f.lifecycle \in Lifecycles /\ f.surface \notin DOMAIN returned
    /\ \A f, h \in AllFailures : f.surface = h.surface => f = h
    /\ \A f \in report.failures : \E i \in 1..closed : f.surface \in SurfacesOf(order[i])
    /\ \A i \in 1..closed : SurfacesOf(order[i]) \subseteq
            DOMAIN returned \cup SurfacesIn(report.failures)

\* One record for each surface that passed, closed with its group.
RecordsInv ==
    /\ IsFiniteSet(DOMAIN returned)
    /\ current.records = {RecordOf(s) : s \in Passed}
    /\ \A r \in report.records : \E i \in 1..closed :
            /\ r.surface \in SurfacesOf(order[i]) \cap DOMAIN returned
            /\ r = Closed(RecordOf(r.surface), ~Complete(order[i]))
    /\ \A i \in 1..closed : \A s \in SurfacesOf(order[i]) \cap DOMAIN returned :
            Closed(RecordOf(s), ~Complete(order[i])) \in report.records

\* The loop's counters, which never look at the records.
CountersInv ==
    /\ report.successful = Cardinality(DOMAIN returned)
    /\ report.solverFailed = Cardinality(OfLifecycle(AllFailures, "solver_failed"))
    /\ report.postFailed = Cardinality(OfLifecycle(AllFailures, "post_solve_pipeline_failed"))
    /\ report.returned = report.successful + report.postFailed
    /\ report.attempted = report.successful + report.solverFailed + report.postFailed
    /\ current.attempted = Cardinality(Passed) + Cardinality(current.failures)
    /\ current.returned = Cardinality(Passed)
                          + Cardinality(OfLifecycle(current.failures, "post_solve_pipeline_failed"))

GroupRecordsInv ==
    /\ \A i \in 1..closed : \E g \in report.groups : g.group = order[i]
    /\ \A g \in report.groups : \E i \in 1..closed :
        /\ g.group = order[i]
        /\ GroupReconciles(g, SurfacesOf(order[i]), OfGroup(report.records, order[i]),
                           OfGroup(report.failures, order[i]), OfGroup(rows, order[i]))

ReportInv == FailuresInv /\ RecordsInv /\ CountersInv /\ GroupRecordsInv
-----------------------------------------------------------------------------
(* Counting.                                                                *)

LEMMA AddDisjoint ==
  ASSUME NEW S, IsFiniteSet(S), NEW T, IsFiniteSet(T), S \cap T = {}
  PROVE  /\ IsFiniteSet(S \cup T) /\ Cardinality(S \cup T) = Cardinality(S) + Cardinality(T)
         /\ Cardinality(S) \in Nat /\ Cardinality(T) \in Nat
  <1>1. Cardinality(S \cap T) = 0
    BY FS_EmptySet
  <1>2. Cardinality(S) \in Nat /\ Cardinality(T) \in Nat
    BY FS_CardinalityType
  <1>3. /\ IsFiniteSet(S \cup T)
        /\ Cardinality(S \cup T) = Cardinality(S) + Cardinality(T) - Cardinality(S \cap T)
    BY FS_Union
  <1> QED
    BY <1>1, <1>2, <1>3

LEMMA CountBy ==
  ASSUME NEW S, IsFiniteSet(S), NEW T, NEW f \in [S -> T],
         \A a, b \in S : f[a] = f[b] => a = b, \A t \in T : \E a \in S : f[a] = t
  PROVE  IsFiniteSet(T) /\ Cardinality(T) = Cardinality(S)
  <1>1. f \in Bijection(S, T)
    BY Fun_IsBij
  <1>2. ExistsBijection(S, T)
    BY <1>1 DEF ExistsBijection
  <1> QED
    BY <1>2, FS_Bijection

\* Disjoint finite sets, one for each state, count as their union.
LEMMA UnionOverStates ==
  ASSUME NEW F, \A x \in States : IsFiniteSet(F[x]),
         \A x, y \in States : x # y => F[x] \cap F[y] = {}
  PROVE  /\ IsFiniteSet(UNION {F[x] : x \in States})
         /\ Cardinality(UNION {F[x] : x \in States}) = OverStates([x \in States |-> Cardinality(F[x])])
         /\ \A x \in States : Cardinality(F[x]) \in Nat
  <1>1. PICK a, b, c, d : /\ a = F["continuation"] /\ b = F["exercise"]
                          /\ c = F["numerically_indifferent"] /\ d = F["no_obstacle"]
    OBVIOUS
  <1>2. IsFiniteSet(a) /\ IsFiniteSet(b) /\ IsFiniteSet(c) /\ IsFiniteSet(d)
    BY <1>1 DEF States
  <1>3. a \cap b = {} /\ a \cap c = {} /\ b \cap c = {} /\ a \cap d = {} /\ b \cap d = {} /\ c \cap d = {}
    BY <1>1 DEF States
  <1>4. IsFiniteSet(a \cup b) /\ Cardinality(a \cup b) = Cardinality(a) + Cardinality(b)
        /\ Cardinality(a) \in Nat /\ Cardinality(b) \in Nat
    BY <1>2, <1>3, AddDisjoint
  <1>5. (a \cup b) \cap c = {}
    BY <1>3
  <1>6. /\ IsFiniteSet((a \cup b) \cup c) /\ Cardinality(c) \in Nat
        /\ Cardinality((a \cup b) \cup c) = Cardinality(a \cup b) + Cardinality(c)
    BY <1>2, <1>4, <1>5, AddDisjoint
  <1>7. ((a \cup b) \cup c) \cap d = {}
    BY <1>3
  <1>8. /\ IsFiniteSet(((a \cup b) \cup c) \cup d) /\ Cardinality(d) \in Nat
        /\ Cardinality(((a \cup b) \cup c) \cup d) = Cardinality((a \cup b) \cup c) + Cardinality(d)
    BY <1>2, <1>6, <1>7, AddDisjoint
  <1>9. UNION {F[x] : x \in States} = ((a \cup b) \cup c) \cup d
    BY <1>1 DEF States
  <1>10. OverStates([x \in States |-> Cardinality(F[x])])
            = Cardinality(a) + Cardinality(b) + Cardinality(c) + Cardinality(d)
    BY <1>1 DEF States, OverStates
  <1> QED
    BY <1>1, <1>4, <1>6, <1>8, <1>9, <1>10 DEF States

\* Every node of a grid is an endpoint, buffered, outside the window, without a
\* price or a candidate of its own state, and one of these only.
LEMMA NodesAre ==
  ASSUME NEW f \in Surfaces
  PROVE  Cardinality(Nodes) =
            Cardinality(Endpoints) + Cardinality(Buffered) + Cardinality(Outside)
            + Cardinality(NonFinite(f)) + OverStates([x \in States |-> Cardinality(Candidates(f, x))])
  <1>1. PICK E, B, O, N : E = Endpoints /\ B = Buffered /\ O = Outside /\ N = NonFinite(f)
    OBVIOUS
  <1> DEFINE F == [x \in States |-> Candidates(f, x)]
             C == UNION {F[x] : x \in States}
  <1>2. E \subseteq Nodes /\ B \subseteq Nodes /\ O \subseteq Nodes /\ N \subseteq Nodes
    BY <1>1, GridIs DEF Endpoints, Buffered, Outside, NonFinite
  <1>3. IsFiniteSet(E) /\ IsFiniteSet(B) /\ IsFiniteSet(O) /\ IsFiniteSet(N)
    BY <1>2, GridIs, FS_Subset
  <1>4. f.finite \subseteq Nodes /\ \A n \in Nodes : f.state[n] \in States
    BY DEF Surfaces
  <1>5. /\ E \cap B = {} /\ (E \cup B) \cap O = {} /\ ((E \cup B) \cup O) \cap N = {}
        /\ (((E \cup B) \cup O) \cup N) \cap C = {}
        /\ Nodes = (((E \cup B) \cup O) \cup N) \cup C
    <2>1. \A n : n \in C <=> n \in f.finite \ (O \cup B \cup E)
      BY <1>1, <1>4 DEF Candidates
    <2>2. N = Nodes \ (f.finite \cup O \cup B \cup E)
      BY <1>1 DEF NonFinite
    <2>3. E \cap B = {} /\ (E \cup B) \cap O = {}
      BY <1>1 DEF Buffered, Outside
    <2> HIDE DEF C
    <2> QED
      BY <1>2, <1>4, <2>1, <2>2, <2>3
  <1>6. IsFiniteSet(C) /\ Cardinality(C) = OverStates([x \in States |-> Cardinality(Candidates(f, x))])
    <2>1. \A x \in States : IsFiniteSet(F[x])
      BY CandidatesAre
    <2>2. \A x, y \in States : x # y => F[x] \cap F[y] = {}
      BY DEF Candidates
    <2>3. /\ IsFiniteSet(C)
          /\ Cardinality(C) = OverStates([x \in States |-> Cardinality(F[x])])
      <3> HIDE DEF F
      <3> QED
        BY <2>1, <2>2, UnionOverStates
    <2>4. [x \in States |-> Cardinality(F[x])] = [x \in States |-> Cardinality(Candidates(f, x))]
      OBVIOUS
    <2> QED
      BY <2>3, <2>4
  <1> HIDE DEF F, C
  <1>7. /\ IsFiniteSet(E \cup B) /\ Cardinality(E \cup B) = Cardinality(E) + Cardinality(B)
    BY <1>3, <1>5, AddDisjoint
  <1>8. /\ IsFiniteSet((E \cup B) \cup O)
        /\ Cardinality((E \cup B) \cup O) = Cardinality(E \cup B) + Cardinality(O)
    BY <1>3, <1>5, <1>7, AddDisjoint
  <1>9. /\ IsFiniteSet(((E \cup B) \cup O) \cup N)
        /\ Cardinality(((E \cup B) \cup O) \cup N) = Cardinality((E \cup B) \cup O) + Cardinality(N)
    BY <1>3, <1>5, <1>8, AddDisjoint
  <1>10. Cardinality((((E \cup B) \cup O) \cup N) \cup C)
            = Cardinality(((E \cup B) \cup O) \cup N) + Cardinality(C)
    BY <1>5, <1>6, <1>9, AddDisjoint
  <1>11. Cardinality(Nodes) = Cardinality(E) + Cardinality(B) + Cardinality(O) + Cardinality(N)
            + Cardinality(C)
    BY <1>5, <1>7, <1>8, <1>9, <1>10
  <1> QED
    BY <1>1, <1>6, <1>11

LEMMA PicksAre ==
  ASSUME NEW f \in Surfaces, NEW leg \in Legs, NEW x \in States
  PROVE  Len(Picks(leg, f, x)) = Cardinality(Selection(leg, f, x))
  <1>1. PICK N, q, p :
           /\ N \in Nat /\ q \in Nat /\ N = Cardinality(Candidates(f, x)) /\ q = Requested(leg, x) /\ p = Picks(leg, f, x)
    BY SelectionIs, CandidatesAre, FS_CardinalityType
  <1>2. PICK L \in Nat : L = IF q >= N THEN N ELSE q
    BY <1>1
  <1>3. Spaced(p, L, N, q)
    <2>1. (q >= N => L = N) /\ (~(q >= N) => L = q) /\ p = Positions(N, q)
      BY <1>1, <1>2 DEF Picks
    <2> QED
      BY <1>1, <2>1, PositionsAre
  <1>4. p \in Seq(Nat) /\ Len(p) = L
    <2>1. p \in [1..L -> 0..(N - 1)]
      BY <1>3 DEF Spaced
    <2>2. p \in [1..L -> Nat]
      BY <2>1
    <2> QED
      BY <2>2
  <1>5. Cardinality(Selection(leg, f, x)) = L
    BY <1>1, <1>2, SelectionIs
  <1> QED
    BY <1>1, <1>4, <1>5

\* bumped_surface_accounting and harvest_surface: every node is accounted for.
LEMMA AccountIs ==
  ASSUME NEW f \in Surfaces, NEW leg \in Legs
  PROVE  OverStates(Selected(leg, f)) + SumOfReasons(Rejected(leg, f)) = Cardinality(Nodes)
  <1> DEFINE c(x) == Cardinality(Candidates(f, x))
             n(x) == Cardinality(Selection(leg, f, x))
             among == OverStates([x \in States |-> c(x)])
             over == OverStates([x \in States |-> c(x) - n(x)])
             twice == OverStates([x \in States |-> Len(Picks(leg, f, x)) - n(x)])
  <1>1. \A x \in States : c(x) \in Nat /\ n(x) \in Nat
    BY SelectionIs, CandidatesAre, FS_CardinalityType
  <1>2. OverStates(Selected(leg, f)) = n("continuation") + n("exercise")
            + n("numerically_indifferent") + n("no_obstacle")
    BY DEF OverStates, Selected, States
  <1>3. among = c("continuation") + c("exercise")
            + c("numerically_indifferent") + c("no_obstacle")
    BY DEF OverStates, States
  <1>4. over = (c("continuation") - n("continuation"))
            + (c("exercise") - n("exercise"))
            + (c("numerically_indifferent") - n("numerically_indifferent"))
            + (c("no_obstacle") - n("no_obstacle"))
    BY DEF OverStates, States
  <1>5. twice = 0
    <2>1. \A x \in States : Len(Picks(leg, f, x)) - n(x) = 0
      BY <1>1, PicksAre
    <2> QED
      BY <2>1 DEF OverStates, States
  <1>6. SumOfReasons(Rejected(leg, f)) =
            Cardinality(Endpoints) + Cardinality(Buffered) + Cardinality(Outside)
            + Cardinality(NonFinite(f)) + over + twice + 0
    BY DEF SumOfReasons, Rejected
  <1>7. /\ Cardinality(Endpoints) \in Nat /\ Cardinality(Buffered) \in Nat
        /\ Cardinality(Outside) \in Nat /\ Cardinality(NonFinite(f)) \in Nat
    <2>1. Endpoints \in SUBSET Nodes /\ Buffered \in SUBSET Nodes /\ Outside \in SUBSET Nodes
          /\ NonFinite(f) \in SUBSET Nodes
      BY GridIs DEF Endpoints, Buffered, Outside, NonFinite
    <2>2. IsFiniteSet(Endpoints) /\ IsFiniteSet(Buffered) /\ IsFiniteSet(Outside)
          /\ IsFiniteSet(NonFinite(f))
      BY <2>1, GridIs, FS_Subset
    <2> QED
      BY <2>2, FS_CardinalityType
  <1>8. /\ c("continuation") \in Nat /\ c("exercise") \in Nat
        /\ c("numerically_indifferent") \in Nat /\ c("no_obstacle") \in Nat
        /\ n("continuation") \in Nat /\ n("exercise") \in Nat
        /\ n("numerically_indifferent") \in Nat /\ n("no_obstacle") \in Nat
    BY <1>1 DEF States
  <1>9. Cardinality(Nodes) = Cardinality(Endpoints) + Cardinality(Buffered) + Cardinality(Outside)
            + Cardinality(NonFinite(f)) + among
    BY NodesAre
  <1> HIDE DEF c, n, among, over, twice
  <1> QED
    BY <1>2, <1>3, <1>4, <1>5, <1>6, <1>7, <1>8, <1>9

\* The rows of a base surface: one for each selected node.
LEMMA RowsAreCounted ==
  ASSUME NEW s, NEW f \in Surfaces, s.leg \in Legs
  PROVE  /\ IsFiniteSet(RowsOf(s, f))
         /\ Cardinality(RowsOf(s, f)) = OverStates(Selected(s.leg, f))
         /\ \A x \in States :
                Cardinality({r \in RowsOf(s, f) : r.state = x}) = Selected(s.leg, f)[x]
         /\ \A r, q \in RowsOf(s, f) : r.node = q.node => r = q
         /\ \A r \in RowsOf(s, f) : r.surface = s /\ r.bumped = computesVega /\ (r.vega => computesVega)
  <1> DEFINE F == [x \in States |-> Selection(s.leg, f, x)]
             all == UNION {F[x] : x \in States}
  <1>1. \A x \in States : IsFiniteSet(F[x])
    BY SelectionIs
  <1>2. \A x \in States : \A n \in F[x] : f.state[n] = x
    BY SelectionIs, CandidatesAre
  <1>3. \A x, y \in States : x # y => F[x] \cap F[y] = {}
    BY <1>2
  <1>4. IsFiniteSet(all) /\ Cardinality(all) = OverStates(Selected(s.leg, f))
    <2>1. /\ IsFiniteSet(all)
          /\ Cardinality(all) = OverStates([x \in States |-> Cardinality(F[x])])
      <3> HIDE DEF F
      <3> QED
        BY <1>1, <1>3, UnionOverStates
    <2>2. [x \in States |-> Cardinality(F[x])] = Selected(s.leg, f)
      BY DEF Selected
    <2> QED
      BY <2>1, <2>2
  <1>5. \A r, q \in RowsOf(s, f) : r.node = q.node => r = q
    BY DEF RowsOf
  <1>6. \A r \in RowsOf(s, f) :
            /\ r.surface = s /\ r.bumped = computesVega /\ (r.vega => computesVega)
            /\ r.node \in all /\ r.state = f.state[r.node]
    BY DEF RowsOf, HasVega
  <1>7. \A n \in all : \E r \in RowsOf(s, f) : r.node = n /\ r.state = f.state[n]
    <2> SUFFICES ASSUME NEW n \in all PROVE \E r \in RowsOf(s, f) : r.node = n /\ r.state = f.state[n]
      OBVIOUS
    <2>1. n \in UNION {Selection(s.leg, f, y) : y \in States}
      OBVIOUS
    <2>2. [surface |-> s, node |-> n, state |-> f.state[n],
           bumped |-> computesVega, vega |-> HasVega(s, n)] \in RowsOf(s, f)
      BY <2>1 DEF RowsOf
    <2> QED
      BY <2>2
  <1>8. IsFiniteSet(RowsOf(s, f)) /\ Cardinality(RowsOf(s, f)) = Cardinality(all)
    <2> HIDE DEF all
    <2>1. PICK R : R = RowsOf(s, f)
      OBVIOUS
    <2> DEFINE g == [r \in R |-> r.node]
    <2>2. g \in [R -> all] /\ (\A a, b \in R : g[a] = g[b] => a = b) /\ \A t \in all : \E a \in R : g[a] = t
      BY <1>5, <1>6, <1>7, <2>1
    <2> HIDE DEF g
    <2>3. g \in Bijection(R, all)
      BY <2>2, Fun_IsBij
    <2>4. IsFiniteSet(R)
      BY <1>4, <2>3, FS_Injection DEF Bijection
    <2> QED
      BY <2>1, <2>2, <2>4, CountBy
  <1>9. ASSUME NEW x \in States
        PROVE  Cardinality({r \in RowsOf(s, f) : r.state = x}) = Selected(s.leg, f)[x]
    <2>1. PICK R : R = {r \in RowsOf(s, f) : r.state = x}
      OBVIOUS
    <2> DEFINE S == F[x]
    <2>2. IsFiniteSet(S) /\ Cardinality(S) = Selected(s.leg, f)[x]
      BY <1>1 DEF Selected
    <2>3. IsFiniteSet(R)
      <3>1. R \in SUBSET RowsOf(s, f)
        BY <2>1
      <3> QED
        BY <1>8, <3>1, FS_Subset
    <2> DEFINE g == [r \in R |-> r.node]
    <2>4. S \subseteq all
      OBVIOUS
    <2>5. \A n \in all : f.state[n] = x => n \in S
      BY <1>2
    <2>6. \A n \in S : f.state[n] = x
      BY <1>2
    <2> HIDE DEF S, all
    <2>7. g \in [R -> S]
      BY <1>6, <2>1, <2>5
    <2>8. (\A a, b \in R : g[a] = g[b] => a = b) /\ \A t \in S : \E a \in R : g[a] = t
      BY <1>5, <1>7, <2>1, <2>4, <2>6
    <2> HIDE DEF g
    <2>9. Cardinality(S) = Cardinality(R)
      BY <2>3, <2>7, <2>8, CountBy
    <2> QED
      BY <2>1, <2>2, <2>9
  <1> QED
    BY <1>4, <1>5, <1>6, <1>8, <1>9

\* What a closed record says of its rows: it reconciles unless it was discarded
\* with vega rows still counted.
LEMMA RecordReconciles ==
  ASSUME HarvestInv, NEW i \in 1..closed, NEW s \in SurfacesOf(order[i]) \cap DOMAIN returned,
         NEW r, r = Closed(RecordOf(s), ~Complete(order[i]))
  PROVE  /\ r.surface = s /\ r.source = (s.role = "base") /\ r.retained = Complete(order[i])
         /\ SurfaceReconciles(r, RowsFrom(rows, s), Available(RowsFrom(rows, s)))
                <=> ~(~r.retained /\ r.vegaRows > 0)
  <1>1. PICK mine : mine = RowsFrom(rows, s)
    OBVIOUS
  <1>2. mine = IF Complete(order[i]) THEN Owed(s) ELSE {}
    BY <1>1 DEF HarvestInv, ExecInv, RowsInv
  <1>3. IsFiniteSet({}) /\ Cardinality({}) = 0 /\ Available({}) = 0
    <2>1. {r1 \in {} : r1.vega} = {}
      OBVIOUS
    <2> QED
      BY <2>1, FS_EmptySet DEF Available
  <1>4. Complete(order[i]) \in BOOLEAN
    BY DEF Complete
  <1>5. Cardinality(Nodes) \in Nat
    BY GridIs, FS_CardinalityType
  <1>6. CASE s.role # "base"
    <2>1. r = [surface |-> s, source |-> FALSE, retained |-> Complete(order[i]),
               retainedRows |-> 0, vegaRows |-> 0, harvested |-> 0,
               selected |-> [x \in States |-> 0], rejected |-> RejectedBumped]
      BY <1>4, <1>6 DEF RecordOf, Closed, BumpedRecord
    <2>2. mine = {}
      BY <1>2, <1>6 DEF Owed
    <2>3. OverStates(r.selected) = 0
      BY <2>1 DEF OverStates, States
    <2>4. SumOfReasons(r.rejected) = Cardinality(Nodes)
      BY <1>5, <2>1 DEF SumOfReasons, RejectedBumped
    <2>5. \A x \in States : {row \in mine : row.state = x} = {}
      BY <2>2
    <2>6. SurfaceReconciles(r, mine, Available(mine))
      BY <1>3, <1>5, <2>1, <2>2, <2>3, <2>4, <2>5 DEF SurfaceReconciles
    <2>7. r.surface = s /\ r.source = FALSE /\ r.retained = Complete(order[i]) /\ r.vegaRows = 0
      BY <2>1
    <2>8. ~(r.vegaRows > 0) /\ (s.role = "base") = FALSE
      BY <1>6, <2>7
    <2> QED
      BY <2>6, <2>7, <2>8, <1>1, Zenon
  <1>7. CASE s.role = "base"
    <2>1. s.leg \in Legs
      BY SurfaceIs
    <2>2. PICK f \in Surfaces : f = returned[s]
      BY <2>1, GridIs DEF HarvestInv, ExecInv, ReturnedInv
    <2>3. PICK owed : owed = RowsOf(s, f)
      OBVIOUS
    <2>4. Owed(s) = owed
      BY <1>7, <2>2, <2>3 DEF Owed
    <2>5. /\ IsFiniteSet(owed) /\ Cardinality(owed) = OverStates(Selected(s.leg, f))
          /\ \A x \in States : Cardinality({q \in owed : q.state = x}) = Selected(s.leg, f)[x]
      BY <2>1, <2>3, RowsAreCounted
    <2>6. Cardinality(owed) \in Nat
      BY <2>5, FS_CardinalityType
    <2>7. Available(owed) \in Nat
      <3>1. {q \in owed : q.vega} \in SUBSET owed
        OBVIOUS
      <3>2. IsFiniteSet({q \in owed : q.vega})
        BY <2>5, <3>1, FS_Subset
      <3> QED
        BY <3>2, FS_CardinalityType DEF Available
    <2>8. r = [surface |-> s, source |-> TRUE, retained |-> Complete(order[i]),
               retainedRows |-> IF Complete(order[i]) THEN Cardinality(owed) ELSE 0,
               vegaRows |-> Available(owed), harvested |-> Cardinality(owed),
               selected |-> Selected(s.leg, f), rejected |-> Rejected(s.leg, f)]
      BY <1>4, <1>7, <2>2, <2>4 DEF RecordOf, Closed, BaseRecord
    <2>9. OverStates(r.selected) + SumOfReasons(r.rejected) = Cardinality(Nodes)
      BY <2>1, <2>8, AccountIs
    <2>10. OverStates(r.selected) = r.harvested
      BY <2>5, <2>8
    <2>11. \A x \in States : r.selected[x] <= Requested(s.leg, x)
      <3> SUFFICES ASSUME NEW x \in States PROVE Selected(s.leg, f)[x] <= Requested(s.leg, x)
        BY <2>8
      <3>1. Selected(s.leg, f)[x] = Cardinality(Selection(s.leg, f, x))
        BY DEF Selected
      <3>2. Cardinality(Candidates(f, x)) \in Nat
        BY CandidatesAre, FS_CardinalityType
      <3> QED
        BY <2>1, <3>1, <3>2, SelectionIs
    <2>14. r.surface = s /\ r.source = (s.role = "base") /\ r.retained = Complete(order[i])
      <3>1. (s.role = "base") = TRUE
        BY <1>7
      <3>2. r.surface = s /\ r.source = TRUE /\ r.retained = Complete(order[i])
        BY <2>8
      <3> QED
        BY <3>1, <3>2
    <2>12. CASE Complete(order[i])
      <3>1. mine = owed
        BY <1>2, <2>4, <2>12
      <3>2. SurfaceReconciles(r, mine, Available(mine))
        BY <2>5, <2>8, <2>9, <2>10, <2>11, <2>12, <3>1 DEF SurfaceReconciles
      <3>3. r.retained
        BY <2>12, <2>14
      <3> QED
        BY <1>1, <2>14, <3>2, <3>3, Zenon
    <2>13. CASE ~Complete(order[i])
      <3>1. mine = {} /\ r.retained = FALSE
        BY <1>2, <2>8, <2>13
      <3>2. SurfaceReconciles(r, mine, Available(mine)) <=> r.vegaRows = 0
        BY <1>3, <2>8, <2>9, <2>10, <2>13, <3>1 DEF SurfaceReconciles
      <3>3. r.vegaRows = 0 <=> ~(r.vegaRows > 0)
        BY <2>7, <2>8
      <3>4. ~r.retained
        BY <3>1
      <3> QED
        BY <1>1, <2>14, <3>2, <3>3, <3>4, Zenon
    <2> QED
      BY <2>12, <2>13
  <1> QED
    BY <1>6, <1>7

Stale == \E r \in report.records : ~r.retained /\ r.vegaRows > 0

LEMMA RecordSurface ==
  ASSUME NEW s, NEW b
  PROVE  Closed(RecordOf(s), b).surface = s
  BY DEF RecordOf, Closed, BaseRecord, BumpedRecord

\* Failures by lifecycle, and by surface.
LEMMA FailuresAreCounted ==
  ASSUME NEW fs, IsFiniteSet(fs), \A f \in fs : f.lifecycle \in Lifecycles,
         \A f, h \in fs : f.surface = h.surface => f = h
  PROVE  /\ Cardinality(fs) = Cardinality(OfLifecycle(fs, "solver_failed"))
                              + Cardinality(OfLifecycle(fs, "post_solve_pipeline_failed"))
         /\ IsFiniteSet(SurfacesIn(fs)) /\ Cardinality(SurfacesIn(fs)) = Cardinality(fs)
         /\ Cardinality(OfLifecycle(fs, "solver_failed")) \in Nat
         /\ Cardinality(OfLifecycle(fs, "post_solve_pipeline_failed")) \in Nat
  <1>1. PICK a, b : /\ a = OfLifecycle(fs, "solver_failed")
                    /\ b = OfLifecycle(fs, "post_solve_pipeline_failed")
    OBVIOUS
  <1>2. a \in SUBSET fs /\ b \in SUBSET fs /\ a \cap b = {} /\ fs = a \cup b
    BY <1>1 DEF OfLifecycle, Lifecycles
  <1>3. IsFiniteSet(a) /\ IsFiniteSet(b)
    BY <1>2, FS_Subset
  <1>4. Cardinality(fs) = Cardinality(a) + Cardinality(b) /\ Cardinality(a) \in Nat /\ Cardinality(b) \in Nat
    BY <1>2, <1>3, AddDisjoint
  <1> DEFINE g == [f \in fs |-> f.surface]
             T == SurfacesIn(fs)
  <1>5. /\ g \in [fs -> T] /\ (\A x, y \in fs : g[x] = g[y] => x = y)
        /\ \A t \in T : \E x \in fs : g[x] = t
    BY DEF SurfacesIn
  <1> HIDE DEF g, T
  <1>6. IsFiniteSet(T) /\ Cardinality(T) = Cardinality(fs)
    BY <1>5, CountBy
  <1> QED
    BY <1>1, <1>4, <1>6 DEF T

LEMMA AllClosed ==
  ASSUME HarvestInv, ReportInv, closed = Total
  PROVE  /\ Total \in Nat /\ \A i \in 1..closed : i \in 1..Total /\ order[i] \in Planned
         /\ \A g \in Planned : \E i \in 1..closed : g = order[i]
         /\ current.failures = {} /\ AllFailures = report.failures
         /\ \A s \in AllSurfaces : \E i \in 1..closed : s \in SurfacesOf(order[i])
         /\ \A i \in 1..closed : SurfacesOf(order[i]) \subseteq AllSurfaces
         /\ DOMAIN returned \subseteq AllSurfaces
         /\ SurfacesIn(report.failures) \subseteq AllSurfaces
         /\ SurfacesIn(report.failures) \cap DOMAIN returned = {}
         /\ SurfacesIn(report.failures) \cup DOMAIN returned = AllSurfaces
  <1>1. order \in Seq(Groups) /\ Total = Len(order)
    BY DEF HarvestInv, PlanInv, OrderInv, Total
  <1>2. Total \in Nat /\ DOMAIN order = 1..Total
    BY <1>1
  <1>3. (\A i \in 1..closed : i \in 1..Total /\ order[i] \in Planned)
        /\ \A g \in Planned : \E i \in 1..closed : g = order[i]
    BY <1>2 DEF Planned
  <1>4. current.failures = {}
    <2>1. UnderWay = {}
      BY <1>2 DEF UnderWay
    <2>2. SurfacesIn(current.failures) = {}
      BY <2>1 DEF HarvestInv, ExecInv, CurrentInv, Attempted
    <2> QED
      BY <2>2 DEF SurfacesIn
  <1>5. \A s \in AllSurfaces : \E i \in 1..closed : s \in SurfacesOf(order[i])
    BY <1>3 DEF AllSurfaces, SurfacesOf
  <1>6. \A i \in 1..closed : SurfacesOf(order[i]) \subseteq AllSurfaces
    BY <1>3 DEF AllSurfaces, SurfacesOf
  <1>7. DOMAIN returned \subseteq AllSurfaces
    BY DEF HarvestInv, ExecInv, ReturnedInv
  <1>8. AllFailures = report.failures
    BY <1>4 DEF AllFailures
  <1>9. SurfacesIn(report.failures) \subseteq AllSurfaces
    BY <1>6 DEF ReportInv, FailuresInv, SurfacesIn
  <1>10. SurfacesIn(report.failures) \cap DOMAIN returned = {}
    BY <1>8 DEF ReportInv, FailuresInv, SurfacesIn
  <1>11. AllSurfaces \subseteq SurfacesIn(report.failures) \cup DOMAIN returned
    BY <1>5 DEF ReportInv, FailuresInv
  <1> QED
    BY <1>2, <1>3, <1>4, <1>5, <1>6, <1>7, <1>8, <1>9, <1>10, <1>11

\* The records of finished groups are those of the surfaces that came back.
LEMMA RecordsAre ==
  ASSUME HarvestInv, ReportInv, closed = Total
  PROVE  /\ \A r \in report.records : \E i \in 1..closed :
               /\ r.surface \in SurfacesOf(order[i]) \cap DOMAIN returned
               /\ r = Closed(RecordOf(r.surface), ~Complete(order[i]))
         /\ SurfacesIn(report.records) = DOMAIN returned
         /\ IsFiniteSet(report.records)
         /\ Cardinality(report.records) = Cardinality(DOMAIN returned)
  <1>1. \A r \in report.records : \E i \in 1..closed :
               /\ r.surface \in SurfacesOf(order[i]) \cap DOMAIN returned
               /\ r = Closed(RecordOf(r.surface), ~Complete(order[i]))
    BY DEF ReportInv, RecordsInv
  <1> DEFINE g == [s \in DOMAIN returned |-> Closed(RecordOf(s), ~Complete(s.group))]
  <1>2. PICK D, R : D = DOMAIN returned /\ R = report.records
    OBVIOUS
  <1>3. \A s \in D : \E i \in 1..closed : s \in SurfacesOf(order[i]) /\ s.group = order[i]
    <2>1. \A s \in D : \E i \in 1..closed : s \in SurfacesOf(order[i])
      BY <1>2, AllClosed
    <2> QED
      BY <2>1, SurfaceIs
  <1>4. \A s \in D : g[s] \in R /\ g[s].surface = s
    <2> SUFFICES ASSUME NEW s \in D
                 PROVE  Closed(RecordOf(s), ~Complete(s.group)) \in R
      BY <1>2, RecordSurface
    <2>1. PICK i \in 1..closed : s \in SurfacesOf(order[i]) /\ s.group = order[i]
      BY <1>3
    <2> QED
      BY <1>2, <2>1 DEF ReportInv, RecordsInv
  <1>5. \A r \in R : r.surface \in D /\ g[r.surface] = r
    <2> SUFFICES ASSUME NEW r \in R
                 PROVE  r.surface \in D /\ r = Closed(RecordOf(r.surface), ~Complete(r.surface.group))
      BY <1>2
    <2>1. PICK i \in 1..closed : /\ r.surface \in SurfacesOf(order[i]) \cap D
                                 /\ r = Closed(RecordOf(r.surface), ~Complete(order[i]))
      BY <1>1, <1>2
    <2>2. r.surface.group = order[i]
      BY <2>1, SurfaceIs
    <2> QED
      BY <2>1, <2>2
  <1>6. DOMAIN g = D
    BY <1>2
  <1>9. IsFiniteSet(D)
    BY <1>2 DEF ReportInv, RecordsInv
  <1> HIDE DEF g
  <1>10. g = [s \in D |-> g[s]]
    BY <1>2 DEF g
  <1>7. IsFiniteSet(R) /\ Cardinality(R) = Cardinality(D)
    <2>1. g \in [D -> R]
      BY <1>4, <1>10
    <2>2. (\A a, b \in D : g[a] = g[b] => a = b) /\ \A t \in R : \E a \in D : g[a] = t
      BY <1>4, <1>5
    <2> QED
      BY <1>9, <2>1, <2>2, CountBy
  <1>8. {r.surface : r \in R} = D
    BY <1>4, <1>5
  <1> QED
    BY <1>1, <1>2, <1>7, <1>8 DEF SurfacesIn

\* The recount of a finished run fails exactly when a discarded record still
\* counts vega rows.
LEMMA RecountIs ==
  ASSUME HarvestInv, ReportInv, closed = Total
  PROVE  Reconciles <=> ~Stale
  <1>1. CountersAgree
    <2>1. IsFiniteSet(report.failures) /\ (\A f \in report.failures : f.lifecycle \in Lifecycles)
          /\ \A f, h \in report.failures : f.surface = h.surface => f = h
      BY AllClosed DEF ReportInv, FailuresInv
    <2>2. PICK fs, D, A, R : /\ fs = report.failures /\ D = DOMAIN returned /\ A = SurfacesIn(report.failures)
                             /\ R = report.records
      OBVIOUS
    <2>3. /\ Cardinality(fs) = Cardinality(OfLifecycle(fs, "solver_failed"))
                              + Cardinality(OfLifecycle(fs, "post_solve_pipeline_failed"))
          /\ IsFiniteSet(A) /\ Cardinality(A) = Cardinality(fs)
          /\ Cardinality(OfLifecycle(fs, "solver_failed")) \in Nat
          /\ Cardinality(OfLifecycle(fs, "post_solve_pipeline_failed")) \in Nat
      BY <2>1, <2>2, FailuresAreCounted
    <2>4. IsFiniteSet(D) /\ Cardinality(D) \in Nat
      BY <2>2, FS_CardinalityType DEF ReportInv, RecordsInv
    <2>5. A \cap D = {} /\ A \cup D = AllSurfaces
      BY <2>2, AllClosed
    <2>6. Cardinality(AllSurfaces) = Cardinality(A) + Cardinality(D)
      BY <2>3, <2>4, <2>5, AddDisjoint
    <2>7. Cardinality(R) = Cardinality(D)
      BY <2>2, RecordsAre
    <2>8. /\ report.successful = Cardinality(D)
          /\ report.solverFailed = Cardinality(OfLifecycle(fs, "solver_failed"))
          /\ report.postFailed = Cardinality(OfLifecycle(fs, "post_solve_pipeline_failed"))
          /\ report.returned = report.successful + report.postFailed
          /\ report.attempted = report.successful + report.solverFailed + report.postFailed
      BY <2>2, AllClosed DEF ReportInv, CountersInv
    <2>9. /\ report.attempted = Cardinality(AllSurfaces)
          /\ report.attempted = Cardinality(R) + Cardinality(fs)
          /\ report.returned = Cardinality(R) + Cardinality(OfLifecycle(fs, "post_solve_pipeline_failed"))
          /\ report.solverFailed = Cardinality(OfLifecycle(fs, "solver_failed"))
          /\ report.successful = Cardinality(R)
          /\ report.postFailed = Cardinality(OfLifecycle(fs, "post_solve_pipeline_failed"))
      BY <2>3, <2>4, <2>6, <2>7, <2>8
    <2> QED
      BY <2>2, <2>9 DEF CountersAgree
  <1>2. CoverReconciles
    <2>1. {g.group : g \in report.groups} = Planned
      <3>1. \A g \in report.groups : g.group \in Planned
        BY AllClosed DEF ReportInv, GroupRecordsInv
      <3>2. \A p \in Planned : \E g \in report.groups : g.group = p
        BY AllClosed DEF ReportInv, GroupRecordsInv
      <3> QED
        BY <3>1, <3>2
    <2>2. SurfacesIn(report.records) \cap SurfacesIn(report.failures) = {}
      BY AllClosed, RecordsAre
    <2>3. SurfacesIn(report.records) \cup SurfacesIn(report.failures) = AllSurfaces
      BY AllClosed, RecordsAre
    <2>4. \A r \in report.records : r.source = (r.surface.role = "base")
      <3> SUFFICES ASSUME NEW r \in report.records
                   PROVE  r.source = (r.surface.role = "base")
        OBVIOUS
      <3>0. PICK s : s = r.surface
        OBVIOUS
      <3>1. PICK i \in 1..closed : /\ s \in SurfacesOf(order[i]) \cap DOMAIN returned
                                   /\ r = Closed(RecordOf(s), ~Complete(order[i]))
        BY <3>0, RecordsAre
      <3> QED
        BY <3>0, <3>1, RecordReconciles
    <2> QED
      BY <2>1, <2>2, <2>3, <2>4 DEF CoverReconciles
  <1>3. RowsReconcile
    <2> SUFFICES ASSUME NEW row \in rows
                 PROVE  /\ \A other \in rows :
                              other.surface = row.surface /\ other.node = row.node => other = row
                        /\ \E r \in report.records : r.surface = row.surface /\ r.source /\ r.retained
                        /\ row.bumped = computesVega
                        /\ row.vega => row.bumped
      BY DEF RowsReconcile
    <2>0. PICK s : s = row.surface
      OBVIOUS
    <2>1. PICK i \in 1..closed : s \in SurfacesOf(order[i])
      BY <2>0 DEF HarvestInv, ExecInv, RowsInv
    <2>2. row \in RowsFrom(rows, s)
      BY <2>0 DEF RowsFrom
    <2>3. RowsFrom(rows, s) = IF Complete(order[i]) THEN Owed(s) ELSE {}
      BY <2>1 DEF HarvestInv, ExecInv, RowsInv
    <2>4. Complete(order[i]) /\ s.role = "base" /\ RowsFrom(rows, s) = RowsOf(s, returned[s])
      BY <2>2, <2>3 DEF Owed
    <2>5. s \in DOMAIN returned /\ s.leg \in Legs
      BY <2>1, <2>4, SurfaceIs DEF Complete
    <2>6. PICK f \in Surfaces : f = returned[s]
      BY <2>5, GridIs DEF HarvestInv, ExecInv, ReturnedInv
    <2>7. /\ \A r, q \in RowsFrom(rows, s) : r.node = q.node => r = q
          /\ \A r \in RowsFrom(rows, s) : r.bumped = computesVega /\ (r.vega => computesVega)
      BY <2>4, <2>5, <2>6, RowsAreCounted
    <2>8. \A other \in rows : other.surface = row.surface /\ other.node = row.node => other = row
      BY <2>0, <2>2, <2>7 DEF RowsFrom
    <2>9. PICK r : r = Closed(RecordOf(s), ~Complete(order[i]))
      OBVIOUS
    <2>10. r \in report.records
      BY <2>1, <2>5, <2>9 DEF ReportInv, RecordsInv
    <2>11. r.surface = s /\ r.source = (s.role = "base") /\ r.retained = Complete(order[i])
      BY <2>1, <2>5, <2>9, RecordReconciles
    <2> QED
      BY <2>0, <2>2, <2>4, <2>7, <2>8, <2>10, <2>11
  <1>4. \A g \in report.groups :
            GroupReconciles(g, SurfacesOf(g.group), OfGroup(report.records, g.group),
                            OfGroup(report.failures, g.group), OfGroup(rows, g.group))
    BY DEF ReportInv, GroupRecordsInv
  <1>5. \A r \in report.records :
            SurfaceReconciles(r, OfSurface(rows, r.surface), Available(OfSurface(rows, r.surface)))
                <=> ~(~r.retained /\ r.vegaRows > 0)
    <2> SUFFICES ASSUME NEW r \in report.records
                 PROVE  SurfaceReconciles(r, OfSurface(rows, r.surface), Available(OfSurface(rows, r.surface)))
                            <=> ~(~r.retained /\ r.vegaRows > 0)
      OBVIOUS
    <2>0. PICK s : s = r.surface
      OBVIOUS
    <2>1. PICK i \in 1..closed : /\ s \in SurfacesOf(order[i]) \cap DOMAIN returned
                                 /\ r = Closed(RecordOf(s), ~Complete(order[i]))
      BY <2>0, RecordsAre
    <2>2. SurfaceReconciles(r, RowsFrom(rows, s), Available(RowsFrom(rows, s)))
                <=> ~(~r.retained /\ r.vegaRows > 0)
      BY <2>1, RecordReconciles
    <2>3. OfSurface(rows, s) = RowsFrom(rows, s)
      BY DEF OfSurface, RowsFrom
    <2> QED
      BY <2>0, <2>2, <2>3
  <1> QED
    BY <1>1, <1>2, <1>3, <1>4, <1>5 DEF Reconciles, Stale

-----------------------------------------------------------------------------
(* The report's invariant is inductive.                                     *)

LEMMA ReportInitial == Init => ReportInv
  <1> SUFFICES ASSUME Init PROVE ReportInv
    OBVIOUS
  <1>1. current = NoGroup /\ report = NoReport /\ rows = {} /\ returned = <<>> /\ closed = 0
    BY DEF Init
  <1>2. /\ DOMAIN returned = {} /\ AllFailures = {} /\ current.failures = {} /\ current.records = {}
        /\ report.failures = {} /\ report.records = {} /\ report.groups = {} /\ Passed = {}
    BY <1>1 DEF NoGroup, NoReport, AllFailures, Passed
  <1>3. \A l : OfLifecycle(AllFailures, l) = {} /\ OfLifecycle(current.failures, l) = {}
    BY <1>2 DEF OfLifecycle
  <1>4. IsFiniteSet({}) /\ Cardinality({}) = 0
    BY FS_EmptySet
  <1>5. \A i : i \notin 1..closed
    BY <1>1
  <1>6. FailuresInv
    BY <1>2, <1>4, <1>5 DEF FailuresInv
  <1>7. RecordsInv
    BY <1>2, <1>4, <1>5 DEF RecordsInv
  <1>8. CountersInv
    <2>1. /\ report.successful = 0 /\ report.solverFailed = 0 /\ report.postFailed = 0
          /\ report.returned = 0 /\ report.attempted = 0
          /\ current.attempted = 0 /\ current.returned = 0
      BY <1>1 DEF NoGroup, NoReport
    <2>2. /\ Cardinality(DOMAIN returned) = 0 /\ Cardinality(Passed) = 0
          /\ Cardinality(current.failures) = 0
          /\ Cardinality(OfLifecycle(AllFailures, "solver_failed")) = 0
          /\ Cardinality(OfLifecycle(AllFailures, "post_solve_pipeline_failed")) = 0
          /\ Cardinality(OfLifecycle(current.failures, "post_solve_pipeline_failed")) = 0
      BY <1>2, <1>3, <1>4
    <2> QED
      BY <2>1, <2>2 DEF CountersInv
  <1>9. GroupRecordsInv
    BY <1>2, <1>5 DEF GroupRecordsInv
  <1> QED
    BY <1>6, <1>7, <1>8, <1>9 DEF ReportInv

LEMMA ReportFrame ==
  ASSUME ReportInv, UNCHANGED <<order, computesVega, closed, current, report, rows, returned>>
  PROVE  ReportInv'
  <1>1. /\ Total' = Total /\ \A g : SurfacesOf(g)' = SurfacesOf(g)
        /\ \A s : Owed(s)' = Owed(s)
        /\ \A g : Complete(g)' = Complete(g)
    BY PlanFrame, OwedFrame
  <1>2. UnderWay' = UnderWay
    BY <1>1 DEF UnderWay, Group
  <1>3. AllFailures' = AllFailures /\ Passed' = Passed
    BY <1>2 DEF AllFailures, Passed
  <1>4. \A s : RecordOf(s)' = RecordOf(s)
    BY <1>1 DEF RecordOf
  <1>5. FailuresInv'
    BY <1>1, <1>3 DEF ReportInv, FailuresInv
  <1>6. RecordsInv'
    BY <1>1, <1>3, <1>4 DEF ReportInv, RecordsInv
  <1>7. CountersInv'
    BY <1>3 DEF ReportInv, CountersInv
  <1>8. GroupRecordsInv'
    BY <1>1 DEF ReportInv, GroupRecordsInv
  <1> QED
    BY <1>5, <1>6, <1>7, <1>8 DEF ReportInv

Hit(f, l) == IF f.lifecycle = l THEN 1 ELSE 0

LEMMA OneMoreFailure ==
  ASSUME NEW fs, IsFiniteSet(fs), NEW f, f \notin fs
  PROVE  /\ IsFiniteSet(fs \cup {f}) /\ Cardinality(fs \cup {f}) = Cardinality(fs) + 1
         /\ \A l : Cardinality(OfLifecycle(fs \cup {f}, l))
                        = Cardinality(OfLifecycle(fs, l)) + Hit(f, l)
  <1>1. IsFiniteSet(fs \cup {f}) /\ Cardinality(fs \cup {f}) = Cardinality(fs) + 1
    BY FS_AddElement
  <1>2. ASSUME NEW l
        PROVE  Cardinality(OfLifecycle(fs \cup {f}, l))
                    = Cardinality(OfLifecycle(fs, l)) + Hit(f, l)
    <2>1. PICK some : some = OfLifecycle(fs, l)
      OBVIOUS
    <2>2. IsFiniteSet(some) /\ f \notin some
      <3>1. some \in SUBSET fs
        BY <2>1 DEF OfLifecycle
      <3> QED
        BY <3>1, FS_Subset
    <2>3. Cardinality(some) \in Nat /\ Cardinality(some \cup {f}) = Cardinality(some) + 1
      BY <2>2, FS_CardinalityType, FS_AddElement
    <2>4. OfLifecycle(fs \cup {f}, l) = IF f.lifecycle = l THEN some \cup {f} ELSE some
      BY <2>1 DEF OfLifecycle
    <2> QED
      BY <2>1, <2>3, <2>4 DEF Hit
  <1> QED
    BY <1>1, <1>2

\* A surface that fails is counted once, by what failed.
LEMMA ReportFailure ==
  ASSUME HarvestInv, ReportInv, NEW s, NEW f, f.surface = s, f.lifecycle \in Lifecycles,
         NEW back, back = (IF f.lifecycle = "solver_failed" THEN 0 ELSE 1),
         pc = "execute", closed < Total, s \in UnderWay \ Attempted,
         UNCHANGED <<order, computesVega, closed, rows, returned>>,
         current'.records = current.records, current'.failures = current.failures \cup {f},
         current'.attempted = current.attempted + 1, current'.returned = current.returned + back,
         report'.records = report.records, report'.failures = report.failures,
         report'.groups = report.groups, report'.attempted = report.attempted + 1,
         report'.returned = report.returned + back, report'.successful = report.successful,
         report'.solverFailed = report.solverFailed + (1 - back),
         report'.postFailed = report.postFailed + back
  PROVE  ReportInv'
  <1>1. /\ Total' = Total /\ \A g : SurfacesOf(g)' = SurfacesOf(g)
        /\ \A q : Owed(q)' = Owed(q)
        /\ \A g : Complete(g)' = Complete(g)
    BY PlanFrame, OwedFrame
  <1>2. UnderWay' = UnderWay
    BY <1>1 DEF UnderWay, Group
  <1>3. Passed' = Passed /\ AllFailures' = AllFailures \cup {f}
    BY <1>2 DEF Passed, AllFailures
  <1>4. \A q : RecordOf(q)' = RecordOf(q)
    BY <1>1 DEF RecordOf
  <1>5. s \notin DOMAIN returned
    BY DEF HarvestInv, ExecInv, CurrentInv, Attempted
  <1>6. \A h \in AllFailures : h.surface # s
    <2>1. \A h \in current.failures : h.surface # s
      BY DEF Attempted, SurfacesIn
    <2>2. /\ \A i \in 1..closed : i \in 1..Total /\ i # closed + 1
          /\ closed + 1 \in 1..Total /\ s \in SurfacesOf(order[closed + 1])
      BY GroupsDiffer DEF HarvestInv, ExecInv, ShapeInv, UnderWay, Group
    <2>3. \A i \in 1..closed : s \notin SurfacesOf(order[i])
      BY <2>2, GroupsDiffer DEF HarvestInv
    <2>4. \A h \in report.failures : h.surface # s
      BY <2>3 DEF ReportInv, FailuresInv
    <2> QED
      BY <2>1, <2>4 DEF AllFailures
  <1>7. f \notin AllFailures /\ f \notin current.failures
    BY <1>6 DEF AllFailures
  <1>8. PICK fs, ours : fs = AllFailures /\ ours = current.failures
    OBVIOUS
  <1>9. IsFiniteSet(fs) /\ IsFiniteSet(ours)
    <2>1. IsFiniteSet(fs) /\ ours \in SUBSET fs
      BY <1>8 DEF ReportInv, FailuresInv, AllFailures
    <2> QED
      BY <2>1, FS_Subset
  <1>16. f \notin fs /\ f \notin ours
    BY <1>7, <1>8
  <1>10. /\ IsFiniteSet(fs \cup {f})
         /\ \A l : Cardinality(OfLifecycle(fs \cup {f}, l))
                        = Cardinality(OfLifecycle(fs, l)) + Hit(f, l)
    BY <1>9, <1>16, OneMoreFailure
  <1>11. /\ Cardinality(ours \cup {f}) = Cardinality(ours) + 1
         /\ \A l : Cardinality(OfLifecycle(ours \cup {f}, l))
                        = Cardinality(OfLifecycle(ours, l)) + Hit(f, l)
    BY <1>9, <1>16, OneMoreFailure
  <1>12. FailuresInv'
    <2>1. IsFiniteSet(AllFailures')
      BY <1>3, <1>8, <1>10
    <2>2. \A h \in AllFailures' : h.lifecycle \in Lifecycles /\ h.surface \notin DOMAIN returned
      BY <1>3, <1>5 DEF ReportInv, FailuresInv
    <2>3. \A h, k \in AllFailures' : h.surface = k.surface => h = k
      BY <1>3, <1>6 DEF ReportInv, FailuresInv
    <2> QED
      BY <1>1, <2>1, <2>2, <2>3 DEF ReportInv, FailuresInv
  <1>13. RecordsInv'
    BY <1>1, <1>3, <1>4 DEF ReportInv, RecordsInv
  <1>14. CountersInv'
    <2>1. /\ Cardinality(Passed) \in Nat /\ Cardinality(ours) \in Nat
          /\ \A l : Cardinality(OfLifecycle(fs, l)) \in Nat /\ Cardinality(OfLifecycle(ours, l)) \in Nat
          /\ Cardinality(DOMAIN returned) \in Nat
      <3>1. \A l : OfLifecycle(fs, l) \in SUBSET fs /\ OfLifecycle(ours, l) \in SUBSET ours
        BY DEF OfLifecycle
      <3>2. \A l : IsFiniteSet(OfLifecycle(fs, l)) /\ IsFiniteSet(OfLifecycle(ours, l))
        BY <1>9, <3>1, FS_Subset
      <3>3. IsFiniteSet(DOMAIN returned) /\ Passed \in SUBSET DOMAIN returned
        BY DEF ReportInv, RecordsInv, Passed
      <3>4. IsFiniteSet(Passed)
        BY <3>3, FS_Subset
      <3> QED
        BY <1>9, <3>2, <3>3, <3>4, FS_CardinalityType
    <2>2. /\ Cardinality(OfLifecycle(fs \cup {f}, "solver_failed"))
                = Cardinality(OfLifecycle(fs, "solver_failed")) + (1 - back)
          /\ Cardinality(OfLifecycle(fs \cup {f}, "post_solve_pipeline_failed"))
                = Cardinality(OfLifecycle(fs, "post_solve_pipeline_failed")) + back
          /\ Cardinality(OfLifecycle(ours \cup {f}, "post_solve_pipeline_failed"))
                = Cardinality(OfLifecycle(ours, "post_solve_pipeline_failed")) + back
      <3>1. Hit(f, "solver_failed") = 1 - back /\ Hit(f, "post_solve_pipeline_failed") = back
        BY DEF Hit, Lifecycles
      <3> QED
        BY <1>10, <1>11, <3>1
    <2>3. /\ AllFailures' = fs \cup {f} /\ current'.failures = ours \cup {f} /\ back \in 0..1
      BY <1>3, <1>8
    <2>4. /\ report.successful = Cardinality(DOMAIN returned)
          /\ report.solverFailed = Cardinality(OfLifecycle(fs, "solver_failed"))
          /\ report.postFailed = Cardinality(OfLifecycle(fs, "post_solve_pipeline_failed"))
          /\ report.returned = report.successful + report.postFailed
          /\ report.attempted = report.successful + report.solverFailed + report.postFailed
          /\ current.attempted = Cardinality(Passed) + Cardinality(ours)
          /\ current.returned = Cardinality(Passed)
                          + Cardinality(OfLifecycle(ours, "post_solve_pipeline_failed"))
      BY <1>8 DEF ReportInv, CountersInv
    <2>5. /\ report'.successful = Cardinality(DOMAIN returned)
          /\ report'.solverFailed = Cardinality(OfLifecycle(fs \cup {f}, "solver_failed"))
          /\ report'.postFailed = Cardinality(OfLifecycle(fs \cup {f}, "post_solve_pipeline_failed"))
          /\ report'.returned = report'.successful + report'.postFailed
          /\ report'.attempted = report'.successful + report'.solverFailed + report'.postFailed
          /\ current'.attempted = Cardinality(Passed) + Cardinality(ours \cup {f})
          /\ current'.returned = Cardinality(Passed)
                          + Cardinality(OfLifecycle(ours \cup {f}, "post_solve_pipeline_failed"))
      BY <1>11, <2>1, <2>2, <2>3, <2>4
    <2> QED
      BY <1>3, <2>3, <2>5 DEF CountersInv
  <1>15. GroupRecordsInv'
    BY <1>1 DEF ReportInv, GroupRecordsInv
  <1> QED
    BY <1>12, <1>13, <1>14, <1>15 DEF ReportInv

\* A surface that passes adds its record and leaves every other one as it was.
LEMMA ReportSuccess ==
  ASSUME HarvestInv, ReportInv, NEW s, NEW surface, NEW new, NEW record,
         Passing(s, surface, new, record),
         record = (IF s.role = "base" THEN BaseRecord(s, surface, new) ELSE BumpedRecord(s)),
         current'.attempted = current.attempted + 1, current'.returned = current.returned + 1,
         report'.records = report.records, report'.failures = report.failures,
         report'.attempted = report.attempted + 1,
         report'.returned = report.returned + 1, report'.successful = report.successful + 1,
         report'.solverFailed = report.solverFailed, report'.postFailed = report.postFailed
  PROVE  ReportInv'
  <1> USE DEF Passing
  <1>1. /\ UnderWay' = UnderWay
        /\ s \notin DOMAIN returned /\ DOMAIN returned' = DOMAIN returned \cup {s}
        /\ \A q \in DOMAIN returned : Owed(q)' = Owed(q) /\ returned'[q] = returned[q]
        /\ Owed(s)' = new
        /\ returned'[s] = surface
        /\ \A i \in 1..closed : /\ s \notin SurfacesOf(order[i])
                                /\ Complete(order[i])' = Complete(order[i])
    <2>1. PlanInv /\ ExecInv
      BY DEF HarvestInv
    <2>2. Passing(s, surface, new, record)
      OBVIOUS
    <2> HIDE DEF Passing
    <2> QED
      BY <2>1, <2>2, SuccessStep
  <1>2. Total' = Total /\ \A g : SurfacesOf(g)' = SurfacesOf(g)
    BY PlanFrame
  <1>3. Passed' = Passed \cup {s} /\ s \notin Passed /\ AllFailures' = AllFailures
    BY <1>1 DEF Passed, AllFailures
  <1>4. \A q \in DOMAIN returned : RecordOf(q)' = RecordOf(q)
    BY <1>1 DEF RecordOf
  <1>5. RecordOf(s)' = record
    BY <1>1 DEF RecordOf
  <1>6. IsFiniteSet(DOMAIN returned) /\ IsFiniteSet(Passed)
    <2>1. IsFiniteSet(DOMAIN returned) /\ Passed \in SUBSET DOMAIN returned
      BY DEF ReportInv, RecordsInv, Passed
    <2> QED
      BY <2>1, FS_Subset
  <1>7. PICK D, P : D = DOMAIN returned /\ P = Passed
    OBVIOUS
  <1>8. /\ IsFiniteSet(D \cup {s}) /\ Cardinality(D \cup {s}) = Cardinality(D) + 1
        /\ Cardinality(P \cup {s}) = Cardinality(P) + 1
        /\ Cardinality(D) \in Nat /\ Cardinality(P) \in Nat
    <2>1. IsFiniteSet(D) /\ IsFiniteSet(P) /\ s \notin D /\ s \notin P
      BY <1>1, <1>3, <1>6, <1>7
    <2> QED
      BY <2>1, FS_AddElement, FS_CardinalityType
  <1>9. FailuresInv'
    <2>1. \A f \in AllFailures : f.surface # s
      <3>1. \A f \in current.failures : f.surface # s
        BY DEF Attempted, SurfacesIn
      <3>2. \A f \in report.failures : f.surface # s
        BY <1>1 DEF ReportInv, FailuresInv
      <3> QED
        BY <3>1, <3>2 DEF AllFailures
    <2> QED
      BY <1>1, <1>2, <1>3, <2>1 DEF ReportInv, FailuresInv
  <1>10. RecordsInv'
    <2>1. IsFiniteSet(DOMAIN returned')
      BY <1>1, <1>7, <1>8
    <2>2. current'.records = {RecordOf(q)' : q \in Passed'}
      <3>1. current.records = {RecordOf(q) : q \in Passed}
        BY DEF ReportInv, RecordsInv
      <3>2. \A q \in Passed : RecordOf(q)' = RecordOf(q)
        BY <1>4 DEF Passed
      <3>3. {RecordOf(q)' : q \in Passed} = {RecordOf(q) : q \in Passed}
        BY <3>2
      <3> QED
        BY <1>3, <1>5, <3>1, <3>3
    <2>3. \A r \in report.records : \E i \in 1..closed :
            /\ r.surface \in SurfacesOf(order[i]) \cap DOMAIN returned'
            /\ r = Closed(RecordOf(r.surface)', ~Complete(order[i])')
      <3> SUFFICES ASSUME NEW r \in report.records
                   PROVE  \E i \in 1..closed :
                            /\ r.surface \in SurfacesOf(order[i]) \cap DOMAIN returned'
                            /\ r = Closed(RecordOf(r.surface)', ~Complete(order[i])')
        OBVIOUS
      <3>1. PICK i \in 1..closed : /\ r.surface \in SurfacesOf(order[i]) \cap DOMAIN returned
                                   /\ r = Closed(RecordOf(r.surface), ~Complete(order[i]))
        BY DEF ReportInv, RecordsInv
      <3>2. RecordOf(r.surface)' = RecordOf(r.surface) /\ Complete(order[i])' = Complete(order[i])
        BY <1>1, <1>4, <3>1
      <3>3. r.surface \in SurfacesOf(order[i]) \cap DOMAIN returned'
        BY <1>1, <3>1
      <3> QED
        BY <3>1, <3>2, <3>3
    <2>4. \A i \in 1..closed : \A q \in SurfacesOf(order[i]) \cap DOMAIN returned' :
            Closed(RecordOf(q)', ~Complete(order[i])') \in report.records
      <3> SUFFICES ASSUME NEW i \in 1..closed, NEW q \in SurfacesOf(order[i]) \cap DOMAIN returned'
                   PROVE  Closed(RecordOf(q)', ~Complete(order[i])') \in report.records
        OBVIOUS
      <3>1. q \in SurfacesOf(order[i]) \cap DOMAIN returned
        BY <1>1
      <3>2. RecordOf(q)' = RecordOf(q) /\ Complete(order[i])' = Complete(order[i])
        BY <1>1, <1>4, <3>1
      <3>3. Closed(RecordOf(q), ~Complete(order[i])) \in report.records
        BY <3>1 DEF ReportInv, RecordsInv
      <3> QED
        BY <3>2, <3>3
    <2> QED
      BY <1>2, <2>1, <2>2, <2>3, <2>4 DEF RecordsInv
  <1>11. CountersInv'
    <2>1. /\ report.successful = Cardinality(D)
          /\ report.solverFailed = Cardinality(OfLifecycle(AllFailures, "solver_failed"))
          /\ report.postFailed = Cardinality(OfLifecycle(AllFailures, "post_solve_pipeline_failed"))
          /\ report.returned = report.successful + report.postFailed
          /\ report.attempted = report.successful + report.solverFailed + report.postFailed
          /\ current.attempted = Cardinality(P) + Cardinality(current.failures)
          /\ current.returned = Cardinality(P)
                          + Cardinality(OfLifecycle(current.failures, "post_solve_pipeline_failed"))
      BY <1>7 DEF ReportInv, CountersInv
    <2>2. /\ Cardinality(current.failures) \in Nat
          /\ Cardinality(OfLifecycle(current.failures, "post_solve_pipeline_failed")) \in Nat
          /\ Cardinality(OfLifecycle(AllFailures, "solver_failed")) \in Nat
          /\ Cardinality(OfLifecycle(AllFailures, "post_solve_pipeline_failed")) \in Nat
      <3>1. IsFiniteSet(AllFailures) /\ current.failures \in SUBSET AllFailures
        BY DEF ReportInv, FailuresInv, AllFailures
      <3>2. \A l : /\ OfLifecycle(AllFailures, l) \in SUBSET AllFailures
                   /\ OfLifecycle(current.failures, l) \in SUBSET AllFailures
        BY <3>1 DEF OfLifecycle
      <3>3. /\ IsFiniteSet(current.failures)
            /\ \A l : IsFiniteSet(OfLifecycle(AllFailures, l)) /\ IsFiniteSet(OfLifecycle(current.failures, l))
        BY <3>1, <3>2, FS_Subset
      <3> QED
        BY <3>3, FS_CardinalityType
    <2>3. /\ report'.successful = Cardinality(D \cup {s})
          /\ report'.returned = report'.successful + report'.postFailed
          /\ report'.attempted = report'.successful + report'.solverFailed + report'.postFailed
          /\ current'.attempted = Cardinality(P \cup {s}) + Cardinality(current.failures)
          /\ current'.returned = Cardinality(P \cup {s})
                          + Cardinality(OfLifecycle(current.failures, "post_solve_pipeline_failed"))
      BY <1>8, <2>1, <2>2
    <2>4. D \cup {s} = DOMAIN returned' /\ P \cup {s} = Passed'
      BY <1>1, <1>3, <1>7
    <2> QED
      BY <1>3, <2>1, <2>3, <2>4 DEF CountersInv
  <1>12. GroupRecordsInv'
    BY <1>2 DEF ReportInv, GroupRecordsInv
  <1> QED
    BY <1>9, <1>10, <1>11, <1>12 DEF ReportInv

\* The record of a group that closes agrees with its surfaces, their records
\* and failures, and the rows it keeps.
LEMMA ClosingGroup ==
  ASSUME HarvestInv, ReportInv, CloseGroup,
         NEW theirs, theirs = {Closed(r, current.failures # {}) : r \in current.records}
  PROVE  GroupReconciles(GroupRecord, SurfacesOf(Group), theirs, current.failures, KeptRows)
  <1>1. UnderWay = SurfacesOf(Group) /\ Attempted = SurfacesOf(Group)
    BY CloseStep DEF HarvestInv, CloseGroup
  <1>2. PICK P, R, fs, ids, solver, post :
           /\ P = Passed /\ R = current.records /\ fs = current.failures /\ ids = SurfacesOf(Group)
           /\ solver = OfLifecycle(current.failures, "solver_failed")
           /\ post = OfLifecycle(current.failures, "post_solve_pipeline_failed")
    OBVIOUS
  <1>3. IsFiniteSet(P) /\ IsFiniteSet(fs)
    <2>1. IsFiniteSet(DOMAIN returned) /\ P \in SUBSET DOMAIN returned
      BY <1>2 DEF ReportInv, RecordsInv, Passed
    <2>2. IsFiniteSet(AllFailures) /\ fs \in SUBSET AllFailures
      BY <1>2 DEF ReportInv, FailuresInv, AllFailures
    <2> QED
      BY <2>1, <2>2, FS_Subset
  <1>4. /\ Cardinality(fs) = Cardinality(solver) + Cardinality(post)
        /\ Cardinality(solver) \in Nat /\ Cardinality(post) \in Nat
        /\ IsFiniteSet(SurfacesIn(fs)) /\ Cardinality(SurfacesIn(fs)) = Cardinality(fs)
    <2>1. (\A f \in fs : f.lifecycle \in Lifecycles) /\ \A f, h \in fs : f.surface = h.surface => f = h
      BY <1>2 DEF ReportInv, FailuresInv, AllFailures
    <2> QED
      BY <1>2, <1>3, <2>1, FailuresAreCounted
  <1>5. \A q \in P : RecordOf(q).surface = q
    BY DEF RecordOf, BaseRecord, BumpedRecord
  <1>6. R = {RecordOf(q) : q \in P}
    BY <1>2 DEF ReportInv, RecordsInv
  <1>7. Cardinality(R) = Cardinality(P)
    <2> DEFINE g == [q \in P |-> RecordOf(q)]
    <2>1. g \in [P -> R] /\ (\A a, b \in P : g[a] = g[b] => a = b) /\ \A t \in R : \E a \in P : g[a] = t
      BY <1>5, <1>6
    <2> HIDE DEF g
    <2> QED
      BY <1>3, <2>1, CountBy
  <1>8. \A r \in theirs : \E q \in R : r = Closed(q, fs # {})
    BY <1>2
  <1>9. Cardinality(theirs) = Cardinality(P)
    <2> DEFINE g == [q \in P |-> Closed(RecordOf(q), fs # {})]
    <2>1. \A q \in P : g[q] \in theirs /\ g[q].surface = q
      BY <1>2, <1>6, RecordSurface
    <2>2. \A t \in theirs : \E a \in P : g[a] = t
      BY <1>6, <1>8
    <2>3. g = [q \in P |-> g[q]] /\ DOMAIN g = P
      OBVIOUS
    <2> HIDE DEF g
    <2>4. g \in [P -> theirs] /\ \A a, b \in P : g[a] = g[b] => a = b
      BY <2>1, <2>3
    <2> QED
      BY <1>3, <2>2, <2>4, CountBy
  <1>10. Cardinality(ids) = Cardinality(P) + Cardinality(fs) /\ Cardinality(P) \in Nat
    <2>1. SurfacesIn(R) = P /\ SurfacesIn(R) \cap SurfacesIn(fs) = {}
      BY <1>2 DEF HarvestInv, ExecInv, CurrentInv, Passed
    <2>2. ids = SurfacesIn(R) \cup SurfacesIn(fs)
      BY <1>1, <1>2 DEF Attempted
    <2>3. PICK F : F = SurfacesIn(fs)
      OBVIOUS
    <2>4. IsFiniteSet(F) /\ P \cap F = {} /\ ids = P \cup F /\ Cardinality(F) = Cardinality(fs)
      BY <1>4, <2>1, <2>2, <2>3
    <2> QED
      BY <1>3, <2>4, AddDisjoint
  <1>11. /\ current.attempted = Cardinality(P) + Cardinality(fs)
         /\ current.returned = Cardinality(P) + Cardinality(post)
    BY <1>2 DEF ReportInv, CountersInv
  <1>12. \A r \in theirs : r.retained = ~(fs # {})
    <2>1. \A q \in P : "retained" \in DOMAIN RecordOf(q)
      BY DEF RecordOf, BaseRecord, BumpedRecord
    <2>2. \A q \in R : "retained" \in DOMAIN q
      BY <1>6, <2>1
    <2>3. ASSUME NEW q \in R PROVE Closed(q, fs # {}).retained = ~(fs # {})
      BY <2>2 DEF Closed
    <2> QED
      BY <1>8, <2>3
  <1>13. (IF fs # {} THEN 0 ELSE Cardinality(current.rows)) = Cardinality(KeptRows)
    BY <1>2, FS_EmptySet DEF KeptRows
  <1>14. GroupRecord = [
            group |-> Group,
            status |-> IF fs # {} THEN "failed" ELSE "succeeded",
            attempted |-> current.attempted,
            returned |-> current.returned,
            solverFailed |-> Cardinality(solver),
            successful |-> Cardinality(R),
            postFailed |-> Cardinality(post),
            retained |-> IF fs # {} THEN 0 ELSE Cardinality(R),
            discarded |-> IF fs # {} THEN Cardinality(R) ELSE 0,
            rows |-> IF fs # {} THEN 0 ELSE Cardinality(current.rows)]
    BY <1>2 DEF GroupRecord
  <1>15. Cardinality(solver) = Cardinality(fs) - Cardinality(post)
    BY <1>4
  <1>16. PICK gr : gr = GroupRecord
    OBVIOUS
  <1>17. /\ gr.status = (IF fs # {} THEN "failed" ELSE "succeeded")
         /\ gr.attempted = Cardinality(ids)
         /\ gr.returned = Cardinality(theirs) + Cardinality(post)
         /\ gr.solverFailed = Cardinality(fs) - Cardinality(post)
         /\ gr.successful = Cardinality(theirs)
         /\ gr.postFailed = Cardinality(post)
         /\ gr.retained = (IF fs # {} THEN 0 ELSE Cardinality(theirs))
         /\ gr.discarded = (IF fs # {} THEN Cardinality(theirs) ELSE 0)
         /\ gr.rows = Cardinality(KeptRows)
    BY <1>7, <1>9, <1>10, <1>11, <1>13, <1>14, <1>15, <1>16
  <1> QED
    BY <1>2, <1>12, <1>16, <1>17 DEF GroupReconciles

\* Closing a group publishes its records, failures and record of itself, and
\* moves nothing of the groups before it.
LEMMA ReportClose ==
  ASSUME HarvestInv, ReportInv, CloseGroup
  PROVE  ReportInv'
  <1>1. /\ UNCHANGED <<order, computesVega, returned>> /\ closed' = closed + 1
        /\ Attempted = SurfacesOf(Group) /\ rows' = rows \cup KeptRows /\ current' = NoGroup
    BY DEF CloseGroup, plan
  <1>2. /\ \A g : SurfacesOf(g)' = SurfacesOf(g)
        /\ \A q : Owed(q)' = Owed(q)
        /\ \A g : Complete(g)' = Complete(g)
    BY <1>1, PlanFrame, OwedFrame
  <1>3. /\ (Complete(Group) <=> current.failures = {})
        /\ DOMAIN returned \cap UnderWay' = {}
        /\ closed \in Nat /\ UnderWay = SurfacesOf(Group) /\ Group = order[closed + 1]
        /\ \A i \in 1..closed' : i \in 1..closed \/ i = closed + 1
        /\ closed + 1 \in 1..closed' /\ \A i \in 1..closed : i \in 1..closed'
        /\ \A i \in 1..closed : /\ order[i] # Group
                                /\ \A q \in SurfacesOf(order[i]) : q \notin SurfacesOf(Group)
    BY CloseStep DEF HarvestInv
  <1>4. PICK theirs : theirs = {Closed(r, current.failures # {}) : r \in current.records}
    OBVIOUS
  <1>5. /\ report'.records = report.records \cup theirs
        /\ report'.failures = report.failures \cup current.failures
        /\ report'.groups = report.groups \cup {GroupRecord}
        /\ report'.attempted = report.attempted /\ report'.returned = report.returned
        /\ report'.solverFailed = report.solverFailed /\ report'.successful = report.successful
        /\ report'.postFailed = report.postFailed
    <2>1. report' = [report EXCEPT
            !.records = @ \cup theirs,
            !.failures = @ \cup current.failures,
            !.groups = @ \cup {GroupRecord}]
      BY <1>4 DEF CloseGroup
    <2>2. report = [records |-> report.records, failures |-> report.failures, groups |-> report.groups,
                 attempted |-> report.attempted, returned |-> report.returned,
                 solverFailed |-> report.solverFailed, successful |-> report.successful,
                 postFailed |-> report.postFailed]
      BY DEF HarvestInv, ExecInv, ShapeInv
    <2> QED
      BY <2>1, <2>2
  <1>6. \A q : RecordOf(q)' = RecordOf(q)
    BY <1>1, <1>2 DEF RecordOf
  <1>7. /\ current'.records = {} /\ current'.failures = {} /\ current'.attempted = 0
        /\ current'.returned = 0 /\ Passed' = {} /\ AllFailures' = AllFailures
    BY <1>1, <1>3, <1>5 DEF NoGroup, Passed, AllFailures
  <1>8. SurfacesOf(Group) = Passed \cup SurfacesIn(current.failures)
    BY <1>1, <1>3 DEF HarvestInv, ExecInv, CurrentInv, Attempted, Passed
  <1>9. current.records = {RecordOf(q) : q \in Passed}
    BY DEF ReportInv, RecordsInv
  <1>10. Passed = DOMAIN returned \cap SurfacesOf(Group)
    BY <1>3 DEF Passed
  <1>11. \A f \in current.failures : f.surface \in SurfacesOf(Group)
    BY <1>8 DEF SurfacesIn
  <1>12. /\ \A r \in theirs : /\ r.surface \in Passed
                              /\ r = Closed(RecordOf(r.surface), ~Complete(Group))
         /\ \A q \in Passed : Closed(RecordOf(q), ~Complete(Group)) \in theirs
    <2>1. PICK failed : failed = (current.failures # {}) /\ failed = ~Complete(Group)
      BY <1>3 DEF Complete
    <2>2. theirs = {Closed(r, failed) : r \in current.records}
      BY <1>4, <2>1
    <2>3. \A r \in theirs : \E q \in Passed : r = Closed(RecordOf(q), failed)
      BY <1>9, <2>2
    <2>4. \A q \in Passed : Closed(RecordOf(q), failed) \in theirs
      BY <1>9, <2>2
    <2> QED
      BY <2>1, <2>3, <2>4, RecordSurface
  <1>13. FailuresInv'
    <2>1. \A f \in report'.failures : \E i \in 1..closed' : f.surface \in SurfacesOf(order[i])
      BY <1>3, <1>5, <1>11 DEF ReportInv, FailuresInv
    <2>2. SurfacesIn(report'.failures) = SurfacesIn(report.failures) \cup SurfacesIn(current.failures)
      BY <1>5 DEF SurfacesIn
    <2>3. \A i \in 1..closed' : SurfacesOf(order[i]) \subseteq
            DOMAIN returned \cup SurfacesIn(report'.failures)
      BY <1>3, <1>8, <1>10, <2>2 DEF ReportInv, FailuresInv
    <2> QED
      BY <1>1, <1>2, <1>7, <2>1, <2>3 DEF ReportInv, FailuresInv
  <1>14. RecordsInv'
    <2>1. \A r \in report'.records : \E i \in 1..closed' :
            /\ r.surface \in SurfacesOf(order[i]) \cap DOMAIN returned
            /\ r = Closed(RecordOf(r.surface), ~Complete(order[i]))
      BY <1>3, <1>5, <1>10, <1>12 DEF ReportInv, RecordsInv
    <2>2. \A i \in 1..closed' : \A q \in SurfacesOf(order[i]) \cap DOMAIN returned :
            Closed(RecordOf(q), ~Complete(order[i])) \in report'.records
      BY <1>3, <1>5, <1>10, <1>12 DEF ReportInv, RecordsInv
    <2>3. IsFiniteSet(DOMAIN returned)
      BY DEF ReportInv, RecordsInv
    <2>4. current'.records = {RecordOf(q)' : q \in Passed'}
      BY <1>7
    <2> QED
      BY <1>1, <1>2, <1>6, <2>1, <2>2, <2>3, <2>4 DEF RecordsInv
  <1>15. CountersInv'
    <2>1. OfLifecycle(current'.failures, "post_solve_pipeline_failed") = {}
      BY <1>7 DEF OfLifecycle
    <2>2. Cardinality(Passed') = 0 /\ Cardinality(current'.failures) = 0
          /\ Cardinality(OfLifecycle(current'.failures, "post_solve_pipeline_failed")) = 0
      BY <1>7, <2>1, FS_EmptySet
    <2> QED
      BY <1>1, <1>5, <1>7, <2>2 DEF ReportInv, CountersInv
  <1>16. GroupRecordsInv'
    <2>1. ASSUME NEW i \in 1..closed
          PROVE  /\ OfGroup(report'.records, order[i]) = OfGroup(report.records, order[i])
                 /\ OfGroup(report'.failures, order[i]) = OfGroup(report.failures, order[i])
                 /\ OfGroup(rows', order[i]) = OfGroup(rows, order[i])
      <3>1. \A r \in theirs : r.surface.group # order[i]
        BY <1>3, <1>10, <1>12, SurfaceIs
      <3>2. \A f \in current.failures : f.surface.group # order[i]
        BY <1>3, <1>11, SurfaceIs
      <3>3. \A r \in KeptRows : r.surface \in SurfacesOf(Group)
        BY <1>3 DEF KeptRows, HarvestInv, ExecInv, CurrentInv
      <3>4. \A r \in KeptRows : r.surface.group # order[i]
        BY <1>3, <3>3, SurfaceIs
      <3> QED
        BY <1>1, <1>5, <3>1, <3>2, <3>4 DEF OfGroup
    <2>2. /\ OfGroup(report'.records, Group) = theirs
          /\ OfGroup(report'.failures, Group) = current.failures
          /\ OfGroup(rows', Group) = KeptRows
      <3>1. \A e \in report.records : e.surface.group # Group
        <4>1. \A e \in report.records : \E i \in 1..closed : e.surface \in SurfacesOf(order[i])
          BY DEF ReportInv, RecordsInv
        <4> QED
          BY <1>3, <4>1, SurfaceIs
      <3>2. \A e \in report.failures : e.surface.group # Group
        <4>1. \A e \in report.failures : \E i \in 1..closed : e.surface \in SurfacesOf(order[i])
          BY DEF ReportInv, FailuresInv
        <4> QED
          BY <1>3, <4>1, SurfaceIs
      <3>3. \A e \in rows : e.surface.group # Group
        <4>1. \A e \in rows : \E i \in 1..closed : e.surface \in SurfacesOf(order[i])
          BY DEF HarvestInv, ExecInv, RowsInv
        <4> QED
          BY <1>3, <4>1, SurfaceIs
      <3>4. \A r \in theirs : r.surface.group = Group
        BY <1>10, <1>12, SurfaceIs
      <3>5. \A f \in current.failures : f.surface.group = Group
        BY <1>11, SurfaceIs
      <3>6. \A r \in KeptRows : r.surface \in SurfacesOf(Group)
        BY <1>3 DEF KeptRows, HarvestInv, ExecInv, CurrentInv
      <3>7. \A r \in KeptRows : r.surface.group = Group
        BY <3>6, SurfaceIs
      <3> QED
        BY <1>1, <1>5, <3>1, <3>2, <3>3, <3>4, <3>5, <3>7 DEF OfGroup
    <2>3. GroupRecord.group = Group
      BY DEF GroupRecord
    <2>4. GroupReconciles(GroupRecord, SurfacesOf(Group), theirs, current.failures, KeptRows)
      BY <1>4, ClosingGroup
    <2>5. \A i \in 1..closed' : \E g \in report'.groups : g.group = order[i]
      BY <1>3, <1>5, <2>3 DEF ReportInv, GroupRecordsInv
    <2>6. \A g \in report'.groups : \E i \in 1..closed' :
             /\ g.group = order[i]
             /\ GroupReconciles(g, SurfacesOf(order[i]), OfGroup(report'.records, order[i]),
                           OfGroup(report'.failures, order[i]), OfGroup(rows', order[i]))
      <3> SUFFICES ASSUME NEW g \in report'.groups
                   PROVE  \E i \in 1..closed' :
                             /\ g.group = order[i]
                             /\ GroupReconciles(g, SurfacesOf(order[i]), OfGroup(report'.records, order[i]),
                                    OfGroup(report'.failures, order[i]), OfGroup(rows', order[i]))
        OBVIOUS
      <3>1. CASE g \in report.groups
        <4>1. PICK i \in 1..closed : /\ g.group = order[i]
                 /\ GroupReconciles(g, SurfacesOf(order[i]), OfGroup(report.records, order[i]),
                           OfGroup(report.failures, order[i]), OfGroup(rows, order[i]))
          BY <3>1 DEF ReportInv, GroupRecordsInv
        <4> QED
          BY <1>3, <2>1, <4>1
      <3>2. CASE g = GroupRecord
        BY <1>3, <2>2, <2>3, <2>4, <3>2
      <3> QED
        BY <1>5, <3>1, <3>2
    <2> QED
      BY <1>1, <1>2, <2>5, <2>6 DEF GroupRecordsInv
  <1> QED
    BY <1>13, <1>14, <1>15, <1>16 DEF ReportInv

LEMMA ReportStep == HarvestInv /\ ReportInv /\ [Next]_vars => ReportInv'
  <1> SUFFICES ASSUME HarvestInv, ReportInv, [Next]_vars PROVE ReportInv'
    OBVIOUS
  <1>0. PlanInv /\ ExecInv
    BY DEF HarvestInv
  <1>1. CASE Refuse
    BY <1>1, ReportFrame DEF Refuse, plan, execution
  <1>2. CASE Apportion
    BY <1>2, ReportFrame DEF Apportion, plan, execution
  <1>3. CASE Donate
    BY <1>3, ReportFrame DEF Donate, plan, execution
  <1>4. CASE Assign
    BY <1>4, ReportFrame DEF Assign, plan, execution
  <1>5. ASSUME NEW s \in AllSurfaces, Attempt(s)
        PROVE  /\ pc = "execute" /\ closed < Total /\ s \in UnderWay \ Attempted
               /\ UNCHANGED <<order, computesVega, closed, rows>>
    BY <1>5 DEF Attempt, Due, plan, UnderWay
  <1>6. /\ current = [rows |-> current.rows, records |-> current.records, failures |-> current.failures,
                      attempted |-> current.attempted, returned |-> current.returned]
        /\ report = [records |-> report.records, failures |-> report.failures, groups |-> report.groups,
                     attempted |-> report.attempted, returned |-> report.returned,
                     solverFailed |-> report.solverFailed, successful |-> report.successful,
                     postFailed |-> report.postFailed]
        /\ closed \in 0..Total
    BY DEF HarvestInv, ExecInv, ShapeInv
  <1>7. /\ report.returned \in Int /\ report.solverFailed \in Int /\ report.postFailed \in Int
        /\ current.returned \in Int
    <2>1. \A l : /\ IsFiniteSet(OfLifecycle(AllFailures, l)) /\ IsFiniteSet(OfLifecycle(current.failures, l))
      <3>1. \A l : /\ OfLifecycle(AllFailures, l) \in SUBSET AllFailures
                   /\ OfLifecycle(current.failures, l) \in SUBSET AllFailures
        BY DEF OfLifecycle, AllFailures
      <3> QED
        BY <3>1, FS_Subset DEF ReportInv, FailuresInv
    <2>2. IsFiniteSet(DOMAIN returned) /\ Passed \in SUBSET DOMAIN returned
      BY DEF ReportInv, RecordsInv, Passed
    <2>3. IsFiniteSet(Passed)
      BY <2>2, FS_Subset
    <2> QED
      BY <2>1, <2>2, <2>3, FS_CardinalityType DEF ReportInv, CountersInv
  <1>8. ASSUME NEW s \in AllSurfaces, SolverRaises(s)
        PROVE  ReportInv'
    <2>1. /\ Attempt(s) /\ UNCHANGED returned
          /\ current' = [current EXCEPT
                !.attempted = @ + 1,
                !.failures = @ \cup {[surface |-> s, lifecycle |-> "solver_failed"]}]
          /\ report' = [report EXCEPT !.attempted = @ + 1, !.solverFailed = @ + 1]
      BY <1>8 DEF SolverRaises
    <2>2. PICK f : f = [surface |-> s, lifecycle |-> "solver_failed"]
      OBVIOUS
    <2>3. /\ current'.records = current.records /\ current'.failures = current.failures \cup {f}
          /\ current'.attempted = current.attempted + 1 /\ current'.returned = current.returned + 0
          /\ report'.records = report.records /\ report'.failures = report.failures
          /\ report'.groups = report.groups /\ report'.attempted = report.attempted + 1
          /\ report'.returned = report.returned + 0 /\ report'.successful = report.successful
          /\ report'.solverFailed = report.solverFailed + (1 - 0)
          /\ report'.postFailed = report.postFailed + 0
      BY <1>6, <1>7, <2>1, <2>2
    <2>4. f.surface = s /\ f.lifecycle = "solver_failed" /\ f.lifecycle \in Lifecycles
      BY <2>2 DEF Lifecycles
    <2>5. 0 = (IF f.lifecycle = "solver_failed" THEN 0 ELSE 1)
      BY <2>4
    <2> QED
      BY <1>5, <2>1, <2>3, <2>4, <2>5, ReportFailure
  <1>9. ASSUME NEW s \in AllSurfaces, Rejects(s)
        PROVE  ReportInv'
    <2>1. /\ Attempt(s) /\ UNCHANGED returned
          /\ current' = [current EXCEPT
                !.attempted = @ + 1,
                !.returned = @ + 1,
                !.failures = @ \cup {[surface |-> s, lifecycle |-> "post_solve_pipeline_failed"]}]
          /\ report' = [report EXCEPT !.attempted = @ + 1, !.returned = @ + 1, !.postFailed = @ + 1]
      BY <1>9 DEF Rejects
    <2>2. PICK f : f = [surface |-> s, lifecycle |-> "post_solve_pipeline_failed"]
      OBVIOUS
    <2>3. /\ current'.records = current.records /\ current'.failures = current.failures \cup {f}
          /\ current'.attempted = current.attempted + 1 /\ current'.returned = current.returned + 1
          /\ report'.records = report.records /\ report'.failures = report.failures
          /\ report'.groups = report.groups /\ report'.attempted = report.attempted + 1
          /\ report'.returned = report.returned + 1 /\ report'.successful = report.successful
          /\ report'.solverFailed = report.solverFailed + (1 - 1)
          /\ report'.postFailed = report.postFailed + 1
      BY <1>6, <1>7, <2>1, <2>2
    <2>4. f.surface = s /\ f.lifecycle = "post_solve_pipeline_failed" /\ f.lifecycle \in Lifecycles
      BY <2>2 DEF Lifecycles
    <2>5. 1 = (IF f.lifecycle = "solver_failed" THEN 0 ELSE 1)
      BY <2>4
    <2> QED
      BY <1>5, <2>1, <2>3, <2>4, <2>5, ReportFailure
  <1>10. ASSUME NEW s \in AllSurfaces, Succeeds(s)
         PROVE  ReportInv'
    <2>1. PICK surface \in Returns[s.leg] :
             LET new == IF s.role = "base" THEN RowsOf(s, surface) ELSE {}
                 record == IF s.role = "base" THEN BaseRecord(s, surface, new) ELSE BumpedRecord(s)
             IN  /\ s.role = "base" => Producible(s.leg, surface)
                 /\ returned' = [q \in DOMAIN returned \cup {s} |->
                        IF q = s THEN surface ELSE returned[q]]
                 /\ current' = [current EXCEPT
                        !.attempted = @ + 1,
                        !.returned = @ + 1,
                        !.rows = @ \cup new,
                        !.records = @ \cup {record}]
      BY <1>10 DEF Succeeds
    <2>2. PICK new, record :
             /\ new = IF s.role = "base" THEN RowsOf(s, surface) ELSE {}
             /\ record = IF s.role = "base" THEN BaseRecord(s, surface, new) ELSE BumpedRecord(s)
      OBVIOUS
    <2>3. /\ s.role = "base" => Producible(s.leg, surface)
          /\ returned' = [q \in DOMAIN returned \cup {s} |->
                 IF q = s THEN surface ELSE returned[q]]
          /\ current' = [current EXCEPT
                 !.attempted = @ + 1,
                 !.returned = @ + 1,
                 !.rows = @ \cup new,
                 !.records = @ \cup {record}]
      BY <2>1, <2>2
    <2>4. /\ Attempt(s) /\ ~Orphaned(s)
          /\ report' = [report EXCEPT !.attempted = @ + 1, !.returned = @ + 1, !.successful = @ + 1]
      BY <1>10 DEF Succeeds
    <2>5. /\ current'.rows = current.rows \cup new /\ current'.records = current.records \cup {record}
          /\ current'.failures = current.failures
          /\ current'.attempted = current.attempted + 1 /\ current'.returned = current.returned + 1
          /\ report'.records = report.records /\ report'.failures = report.failures
          /\ report'.groups = report.groups /\ report'.attempted = report.attempted + 1
          /\ report'.returned = report.returned + 1 /\ report'.successful = report.successful + 1
          /\ report'.solverFailed = report.solverFailed /\ report'.postFailed = report.postFailed
      BY <1>6, <2>3, <2>4
    <2>6. record.surface = s
      BY <2>2 DEF BaseRecord, BumpedRecord
    <2>7. ShapeInv'
      BY <1>0, ExecStep DEF ExecInv
    <2>8. Passing(s, surface, new, record)
      BY <1>5, <2>2, <2>3, <2>4, <2>5, <2>6, <2>7 DEF Passing
    <2> QED
      BY <2>2, <2>5, <2>8, ReportSuccess
  <1>11. CASE CloseGroup
    BY <1>11, ReportClose
  <1>12. CASE Report
    BY <1>12, ReportFrame DEF Report, plan, execution
  <1>13. CASE UNCHANGED vars
    BY <1>13, ReportFrame DEF vars, plan, execution
  <1> QED
    BY <1>1, <1>2, <1>3, <1>4, <1>8, <1>9, <1>10, <1>11, <1>12, <1>13 DEF Next

\* LostOnlyToVegaCount is about what the recount decided, and nothing moves
\* after it.
LEMMA OutcomeStep ==
  HarvestInv /\ ReportInv /\ LostOnlyToVegaCount /\ [Next]_vars => LostOnlyToVegaCount'
  <1> SUFFICES ASSUME HarvestInv, ReportInv, LostOnlyToVegaCount, [Next]_vars
               PROVE  LostOnlyToVegaCount'
    OBVIOUS
  <1>1. LostOnlyToVegaCount <=> (pc = "raised" => Stale) /\ (pc = "returned" => ~Stale)
    BY DEF LostOnlyToVegaCount, Stale
  <1>2. LostOnlyToVegaCount' <=> (pc' = "raised" => Stale') /\ (pc' = "returned" => ~Stale')
    BY DEF LostOnlyToVegaCount, Stale
  <1>3. CASE Report
    <2>1. Reconciles <=> ~Stale
      BY <1>3, RecountIs DEF Report
    <2>2. Stale' <=> Stale
      BY <1>3 DEF Report, execution, Stale
    <2>3. pc' = IF Reconciles THEN "returned" ELSE "raised"
      BY <1>3 DEF Report
    <2> QED
      BY <1>2, <2>1, <2>2, <2>3
  <1>4. CASE UNCHANGED vars
    <2>1. pc' = pc /\ (Stale' <=> Stale)
      BY <1>4 DEF vars, execution, Stale
    <2> QED
      BY <1>1, <1>2, <2>1
  <1>5. CASE pc' \notin {"returned", "raised"}
    BY <1>2, <1>5
  <1>6. CASE Next /\ ~Report
    <2>1. pc' \in {"refused", "repair", "execute"} \/ (pc' = pc /\ pc \in {"repair", "execute"})
      BY <1>6 DEF Next, Refuse, Apportion, Donate, Assign, SolverRaises, Rejects, Succeeds,
                  Attempt, CloseGroup
    <2> QED
      BY <1>2, <2>1
  <1> QED
    BY <1>3, <1>4, <1>6

\* The whole invariant: what was planned, what came back, the report so far and
\* the outcome of its recount hold together in every reachable state.
THEOREM ReportInvariance == Spec => [](HarvestInv /\ ReportInv /\ LostOnlyToVegaCount)
  <1>1. Init => HarvestInv /\ ReportInv /\ LostOnlyToVegaCount
    <2>1. Init => LostOnlyToVegaCount
      BY DEF Init, LostOnlyToVegaCount
    <2> QED
      BY <2>1, PlanInitial, ExecInitial, ReportInitial DEF HarvestInv
  <1>2. HarvestInv /\ ReportInv /\ LostOnlyToVegaCount /\ [Next]_vars
            => (HarvestInv /\ ReportInv /\ LostOnlyToVegaCount)'
    BY PlanStep, ExecStep, ReportStep, OutcomeStep DEF HarvestInv
  <1> QED
    BY <1>1, <1>2, PTL DEF Spec

\* LostOnlyToVegaCount: a finished run passes its own recount unless a discarded
\* surface still counts the vega rows its leg produced.
THEOREM OnlyVegaCountsLoseReports == Spec => []LostOnlyToVegaCount
  BY ReportInvariance, PTL

-----------------------------------------------------------------------------
(* What is published of a returned run.                                     *)

\* The fields of failures and of group records.
FormInv ==
    /\ \A f \in report.failures \cup current.failures :
        f = [surface |-> f.surface, lifecycle |-> f.lifecycle]
    /\ \A g \in report.groups :
        g = [group |-> g.group, status |-> g.status, attempted |-> g.attempted,
             returned |-> g.returned, solverFailed |-> g.solverFailed,
             successful |-> g.successful, postFailed |-> g.postFailed,
             retained |-> g.retained, discarded |-> g.discarded, rows |-> g.rows]

\* A run that is over has closed every group.
OverInv == pc \in {"returned", "raised"} => closed = Total

\* What a returned harvest is published from.
Returned == HarvestInv /\ ReportInv /\ LostOnlyToVegaCount /\ FormInv /\ OverInv

LEMMA FormInitial == Init => FormInv /\ OverInv
  BY DEF Init, FormInv, OverInv, NoGroup, NoReport

LEMMA FormFailure ==
  ASSUME FormInv, NEW s, NEW l,
         current'.failures = current.failures \cup {[surface |-> s, lifecycle |-> l]},
         report'.failures = report.failures, report'.groups = report.groups
  PROVE  FormInv'
  BY DEF FormInv

LEMMA FormFrame ==
  ASSUME FormInv, current'.failures = current.failures,
         report'.failures = report.failures, report'.groups = report.groups
  PROVE  FormInv'
  BY DEF FormInv

LEMMA FormClose ==
  ASSUME FormInv, ExecInv, CloseGroup
  PROVE  FormInv'
  <1>1. /\ report'.failures = report.failures \cup current.failures
        /\ report'.groups = report.groups \cup {GroupRecord}
        /\ current'.failures = {}
    BY DEF CloseGroup, ExecInv, ShapeInv, NoGroup
  <1>2. PICK g : g = GroupRecord
    OBVIOUS
  <1>3. g = [group |-> g.group, status |-> g.status, attempted |-> g.attempted,
             returned |-> g.returned, solverFailed |-> g.solverFailed,
             successful |-> g.successful, postFailed |-> g.postFailed,
             retained |-> g.retained, discarded |-> g.discarded, rows |-> g.rows]
    BY <1>2 DEF GroupRecord
  <1> QED
    BY <1>1, <1>2, <1>3 DEF FormInv

LEMMA FormStep == HarvestInv /\ FormInv /\ OverInv /\ [Next]_vars => FormInv' /\ OverInv'
  <1> SUFFICES ASSUME HarvestInv, FormInv, OverInv, [Next]_vars PROVE FormInv' /\ OverInv'
    OBVIOUS
  <1>0. ExecInv /\ ShapeInv
    BY DEF HarvestInv, ExecInv
  <1>1. CASE CloseGroup
    <2>1. pc' = "execute"
      BY <1>1 DEF CloseGroup
    <2> QED
      BY <1>0, <1>1, <2>1, FormClose DEF OverInv
  <1>2. ASSUME NEW s \in AllSurfaces, SolverRaises(s) PROVE FormInv' /\ OverInv'
    <2>1. /\ current'.failures = current.failures \cup {[surface |-> s, lifecycle |-> "solver_failed"]}
          /\ report'.failures = report.failures /\ report'.groups = report.groups
      BY <1>0, <1>2 DEF SolverRaises, ShapeInv
    <2>2. pc' = "execute"
      BY <1>2 DEF SolverRaises, Attempt
    <2> QED
      BY <2>1, <2>2, FormFailure DEF OverInv
  <1>3. ASSUME NEW s \in AllSurfaces, Rejects(s) PROVE FormInv' /\ OverInv'
    <2>1. /\ current'.failures = current.failures
                \cup {[surface |-> s, lifecycle |-> "post_solve_pipeline_failed"]}
          /\ report'.failures = report.failures /\ report'.groups = report.groups
      BY <1>0, <1>3 DEF Rejects, ShapeInv
    <2>2. pc' = "execute"
      BY <1>3 DEF Rejects, Attempt
    <2> QED
      BY <2>1, <2>2, FormFailure DEF OverInv
  <1>4. ASSUME NEW s \in AllSurfaces, Succeeds(s) PROVE FormInv' /\ OverInv'
    <2>1. report'.failures = report.failures /\ report'.groups = report.groups
      BY <1>0, <1>4 DEF Succeeds, ShapeInv
    <2>2. current'.failures = current.failures
      BY <1>0, <1>4 DEF Succeeds, ShapeInv
    <2>3. pc' = "execute"
      BY <1>4 DEF Succeeds, Attempt
    <2> QED
      BY <2>1, <2>2, <2>3, FormFrame DEF OverInv
  <1>5. CASE Refuse \/ Apportion \/ Donate \/ Assign
    <2>1. UNCHANGED execution /\ pc' \notin {"returned", "raised"}
      BY <1>5 DEF Refuse, Apportion, Donate, Assign
    <2> QED
      BY <2>1, FormFrame DEF OverInv, execution
  <1>6. CASE Report
    <2>1. UNCHANGED execution /\ UNCHANGED plan /\ closed = Total
      BY <1>6 DEF Report
    <2>2. Total' = Total
      BY <2>1 DEF plan, Total
    <2> QED
      BY <2>1, <2>2, FormFrame DEF OverInv, execution
  <1>7. CASE UNCHANGED vars
    <2>1. UNCHANGED execution /\ UNCHANGED plan /\ pc' = pc
      BY <1>7 DEF vars
    <2>2. Total' = Total
      BY <2>1 DEF plan, Total
    <2> QED
      BY <2>1, <2>2, FormFrame DEF OverInv, execution
  <1> QED
    BY <1>1, <1>2, <1>3, <1>4, <1>5, <1>6, <1>7 DEF Next

-----------------------------------------------------------------------------
(* Counting what is published.                                              *)

LEMMA ImageFinite ==
  ASSUME NEW S, IsFiniteSet(S), NEW f, DOMAIN f = S
  PROVE  IsFiniteSet({f[x] : x \in S})
  <1>1. PICK T : T = {f[x] : x \in S}
    OBVIOUS
  <1>2. [x \in S |-> f[x]] \in Surjection(S, T)
    BY <1>1 DEF Surjection
  <1> QED
    BY <1>1, <1>2, FS_Surjection

LEMMA HeapIs ==
  ASSUME NEW D, IsFiniteSet(D), NEW f \in [D -> Nat]
  PROVE  /\ IsFiniteSet(Heap(f)) /\ Cardinality(Heap(f)) \in Nat
         /\ \A p : p \in Heap(f) <=> \E x \in D : \E k \in 1..f[x] : p = <<k, x>>
  <1> DEFINE layer == [x \in D |-> {<<k, x>> : k \in 1..f[x]}]
  <1>1. ASSUME NEW x \in D PROVE IsFiniteSet(layer[x])
    <2>1. PICK n \in Nat : n = f[x]
      OBVIOUS
    <2>2. IsFiniteSet(1..n)
      BY <2>1, FS_Interval
    <2> DEFINE pair == [k \in 1..n |-> <<k, x>>]
    <2>5. DOMAIN pair = 1..n
      OBVIOUS
    <2>3. IsFiniteSet({pair[k] : k \in 1..n})
      <3> HIDE DEF pair
      <3> QED
        BY <2>2, <2>5, ImageFinite
    <2>4. layer[x] = {pair[k] : k \in 1..n}
      BY <2>1
    <2> QED
      BY <2>3, <2>4
  <1>2. IsFiniteSet({layer[x] : x \in D})
    <2>1. DOMAIN layer = D
      OBVIOUS
    <2> HIDE DEF layer
    <2> QED
      BY <2>1, ImageFinite
  <1>3. Heap(f) = UNION {layer[x] : x \in D}
    BY DEF Heap
  <1>4. IsFiniteSet(Heap(f))
    <2>1. \A T \in {layer[x] : x \in D} : IsFiniteSet(T)
      BY <1>1
    <2> HIDE DEF layer
    <2> QED
      BY <1>2, <1>3, <2>1, FS_UNION
  <1>5. \A p : p \in Heap(f) <=> \E x \in D : \E k \in 1..f[x] : p = <<k, x>>
    BY DEF Heap
  <1> QED
    BY <1>4, <1>5, FS_CardinalityType

LEMMA SumAdds ==
  ASSUME NEW D, IsFiniteSet(D), NEW f \in [D -> Nat], NEW g \in [D -> Nat], NEW h \in [D -> Nat],
         \A x \in D : f[x] = g[x] + h[x]
  PROVE  Cardinality(Heap(f)) = Cardinality(Heap(g)) + Cardinality(Heap(h))
  <1>1. PICK F, G, H : F = Heap(f) /\ G = Heap(g) /\ H = Heap(h)
    OBVIOUS
  <1>2. /\ IsFiniteSet(F) /\ IsFiniteSet(G) /\ IsFiniteSet(H)
        /\ \A p : p \in F <=> \E x \in D : \E k \in 1..f[x] : p = <<k, x>>
        /\ \A p : p \in G <=> \E x \in D : \E k \in 1..g[x] : p = <<k, x>>
        /\ \A p : p \in H <=> \E x \in D : \E k \in 1..h[x] : p = <<k, x>>
    BY <1>1, HeapIs
  <1>0. \A x \in D : \E u, v, w \in Nat : u = f[x] /\ v = g[x] /\ w = h[x] /\ u = v + w
    OBVIOUS
  <1> DEFINE S == {p \in F : p[1] > g[p[2]]}
             m == [p \in H |-> <<g[p[2]] + p[1], p[2]>>]
  <1>3. G \subseteq F /\ S \cap G = {} /\ F = G \cup S
    <2>1. ASSUME NEW x \in D, NEW k \in 1..g[x] PROVE <<k, x>> \in F /\ <<k, x>> \notin S
      <3>1. k \in 1..f[x] /\ ~(k > g[x])
        OBVIOUS
      <3> QED
        BY <1>2, <3>1
    <2>2. ASSUME NEW x \in D, NEW k \in 1..f[x] PROVE <<k, x>> \in G \/ <<k, x>> \in S
      <3>1. k \in 1..g[x] \/ k > g[x]
        OBVIOUS
      <3>2. <<k, x>> \in F
        BY <1>2
      <3> QED
        BY <1>2, <3>1, <3>2
    <2>3. \A p \in G : \E x \in D : \E k \in 1..g[x] : p = <<k, x>>
      BY <1>2
    <2>4. \A p \in F : \E x \in D : \E k \in 1..f[x] : p = <<k, x>>
      BY <1>2
    <2>5. S \subseteq F
      OBVIOUS
    <2> HIDE DEF S
    <2> QED
      BY <2>1, <2>2, <2>3, <2>4, <2>5
  <1>4. IsFiniteSet(S)
    BY <1>2, FS_Subset
  <1>5. Cardinality(F) = Cardinality(G) + Cardinality(S)
    <2>1. PICK T : T = S
      OBVIOUS
    <2>2. IsFiniteSet(G) /\ IsFiniteSet(T) /\ G \cap T = {} /\ F = G \cup T
      BY <1>2, <1>3, <1>4, <2>1
    <2>3. Cardinality(F) = Cardinality(G) + Cardinality(T)
      BY <2>2, AddDisjoint
    <2> QED
      BY <2>1, <2>3
  <1>6. \A p \in H : p[2] \in D /\ p[1] \in 1..h[p[2]] /\ p = <<p[1], p[2]>>
    BY <1>2
  <1>7. \A p \in H : m[p] \in S
    <2> SUFFICES ASSUME NEW p \in H PROVE m[p] \in S
      OBVIOUS
    <2>1. PICK x, k : x \in D /\ k \in 1..h[x] /\ p = <<k, x>>
      BY <1>2
    <2>2. m[p] = <<g[x] + k, x>>
      BY <2>1
    <2>5. PICK u, v, w \in Nat : u = f[x] /\ v = g[x] /\ w = h[x] /\ u = v + w
      BY <1>0, <2>1
    <2>6. k \in 1..w
      BY <2>1, <2>5
    <2>7. v + k \in 1..u /\ v + k > v
      BY <2>5, <2>6
    <2>3. g[x] + k \in 1..f[x] /\ g[x] + k > g[x]
      BY <2>5, <2>7
    <2>4. <<g[x] + k, x>> \in F
      BY <1>2, <2>1, <2>3
    <2> QED
      BY <2>2, <2>3, <2>4
  <1>8. \A p, q \in H : m[p] = m[q] => p = q
    <2> SUFFICES ASSUME NEW p \in H, NEW q \in H, m[p] = m[q] PROVE p = q
      OBVIOUS
    <2>1. PICK x, k : x \in D /\ k \in 1..h[x] /\ p = <<k, x>>
      BY <1>2
    <2>2. PICK y, l : y \in D /\ l \in 1..h[y] /\ q = <<l, y>>
      BY <1>2
    <2>3. m[p] = <<g[x] + k, x>> /\ m[q] = <<g[y] + l, y>>
      BY <2>1, <2>2
    <2>4. x = y /\ g[x] + k = g[x] + l
      BY <2>3
    <2>5. PICK u, v, w \in Nat : u = f[x] /\ v = g[x] /\ w = h[x] /\ u = v + w
      BY <1>0, <2>1
    <2>7. k \in 1..w /\ l \in 1..w /\ v + k = v + l
      BY <2>1, <2>2, <2>4, <2>5
    <2>6. k = l
      BY <2>7
    <2> QED
      BY <2>1, <2>2, <2>4, <2>6
  <1>9. \A t \in S : \E p \in H : m[p] = t
    <2> SUFFICES ASSUME NEW t \in S PROVE \E p \in H : m[p] = t
      OBVIOUS
    <2>1. PICK x, k : x \in D /\ k \in 1..f[x] /\ t = <<k, x>>
      BY <1>2
    <2>2. k > g[x]
      BY <2>1
    <2>6. PICK u, v, w \in Nat : u = f[x] /\ v = g[x] /\ w = h[x] /\ u = v + w
      BY <1>0, <2>1
    <2>7. k \in 1..u /\ k > v
      BY <2>1, <2>2, <2>6
    <2>8. PICK l \in 1..w : v + l = k
      <3>1. k - v \in 1..w /\ v + (k - v) = k
        BY <2>6, <2>7
      <3> QED
        BY <3>1
    <2>4. <<l, x>> \in H
      BY <1>2, <2>1, <2>6, <2>8
    <2>5. m[<<l, x>>] = <<k, x>>
      BY <2>4, <2>6, <2>8
    <2> QED
      BY <2>1, <2>4, <2>5
  <1>10. m \in [H -> S]
    BY <1>7
  <1> HIDE DEF m, S
  <1>11. Cardinality(S) = Cardinality(H)
    BY <1>2, <1>8, <1>9, <1>10, CountBy
  <1> QED
    BY <1>1, <1>5, <1>11

LEMMA SumOfParts ==
  ASSUME NEW D, IsFiniteSet(D), NEW part, DOMAIN part = D, NEW f \in [D -> Nat],
         \A x \in D : IsFiniteSet(part[x]) /\ f[x] = Cardinality(part[x]),
         \A x, y \in D : x # y => part[x] \cap part[y] = {},
         NEW U, \A x \in D : part[x] \subseteq U, \A t \in U : \E x \in D : t \in part[x]
  PROVE  IsFiniteSet(U) /\ Cardinality(Heap(f)) = Cardinality(U)
  <1>1. PICK H : H = Heap(f)
    OBVIOUS
  <1>2. IsFiniteSet(H) /\ \A p : p \in H <=> \E x \in D : \E k \in 1..f[x] : p = <<k, x>>
    BY <1>1, HeapIs
  <1> DEFINE b == [x \in D |-> CHOOSE c : c \in Bijection(1..f[x], part[x])]
             m == [p \in H |-> b[p[2]][p[1]]]
  <1>3. \A x \in D : b[x] \in Bijection(1..f[x], part[x])
    <2> SUFFICES ASSUME NEW x \in D PROVE \E c : c \in Bijection(1..f[x], part[x])
      OBVIOUS
    <2>1. PICK n, s : n \in Nat /\ n = f[x] /\ s = part[x] /\ IsFiniteSet(s) /\ Cardinality(s) = n
      OBVIOUS
    <2>2. ExistsBijection(1..n, s)
      BY <2>1, FS_CardinalityType
    <2> QED
      BY <2>1, <2>2 DEF ExistsBijection
  <1>4. \A x \in D : /\ \A k \in 1..f[x] : b[x][k] \in part[x]
                     /\ \A k, l \in 1..f[x] : b[x][k] = b[x][l] => k = l
                     /\ \A t \in part[x] : \E k \in 1..f[x] : b[x][k] = t
    <2> HIDE DEF b
    <2> QED
      BY <1>3 DEF Bijection, Injection, Surjection, IsInjective
  <1> HIDE DEF b
  <1>5. \A x \in D : \A k \in 1..f[x] : <<k, x>> \in H /\ m[<<k, x>>] = b[x][k]
    BY <1>2
  <1>6. \A p \in H : \E x \in D : \E k \in 1..f[x] : p = <<k, x>> /\ m[p] = b[x][k]
    BY <1>2
  <1>7. m = [p \in H |-> m[p]]
    OBVIOUS
  <1> HIDE DEF m
  <1>10. m \in [H -> U]
    BY <1>4, <1>6, <1>7
  <1>11. \A p, q \in H : m[p] = m[q] => p = q
    BY <1>4, <1>6
  <1>12. ASSUME NEW t \in U PROVE \E p \in H : m[p] = t
    <2>1. PICK x \in D : t \in part[x]
      OBVIOUS
    <2>2. PICK k \in 1..f[x] : b[x][k] = t
      BY <1>4, <2>1
    <2>3. <<k, x>> \in H /\ m[<<k, x>>] = t
      BY <1>5, <2>1, <2>2
    <2> QED
      BY <2>3
  <1> QED
    BY <1>1, <1>2, <1>10, <1>11, <1>12, CountBy

-----------------------------------------------------------------------------
(* The records of a publication.                                            *)

LEMMA OverIs ==
  ASSUME Returned, pc = "returned"
  PROVE  /\ HarvestInv /\ ReportInv /\ closed = Total /\ ~Stale /\ Reconciles
         /\ assignment = Assigned
  <1>1. HarvestInv /\ ReportInv /\ closed = Total /\ ~Stale
    BY DEF Returned, OverInv, LostOnlyToVegaCount, Stale
  <1>2. assignment = Assigned
    BY <1>1 DEF HarvestInv, PlanInv, AssignedInv
  <1> QED
    BY <1>1, <1>2, RecountIs

LEMMA PlacesAre ==
  ASSUME Returned, pc = "returned"
  PROVE  \A g \in Planned : assignment[g] \in Range(Partitions)
  <1>1. PartitionIds = {1, 2, 3} /\ DOMAIN Partitions = {1, 2, 3}
    BY PartitionsAre DEF PartitionIds
  <1>2. \A i : PartitionAt(i) \in {1, 2, 3}
    BY DEF PartitionAt
  <1>3. assignment = Assigned
    BY OverIs
  <1>4. SUFFICES ASSUME NEW g \in Planned PROVE assignment[g] \in Range(Partitions)
    OBVIOUS
  <1>5. PICK i : i = CHOOSE j \in DOMAIN order : order[j] = g
    OBVIOUS
  <1>6. assignment[g] = Partitions[PartitionAt(i)]
    BY <1>3, <1>5 DEF Assigned
  <1>7. PICK p : p = PartitionAt(i)
    OBVIOUS
  <1>8. p \in DOMAIN Partitions
    BY <1>1, <1>2, <1>7
  <1> QED
    BY <1>6, <1>7, <1>8 DEF Range

\* The published entry of a group, of a surface and of a row.
LEMMA EntryIs ==
  ASSUME NEW g \in Planned
  PROVE  /\ DOMAIN PublishedPlan = Planned
         /\ PublishedPlan[g].partition = assignment[g]
         /\ PublishedPlan[g].payload = GroupPayload(g)
         /\ PublishedPlan[g].name = g
         /\ PublishedPlan[g].metadata = ScenarioMetadata(g)
         /\ PublishedPlan[g].ids = SurfacesOf(g)
         /\ PublishedPlan[g].surfaces = {PublishedSurface(s) : s \in SurfacesOf(g)}
  BY DEF PublishedPlan

LEMMA PlannedSurfaceIs ==
  ASSUME NEW s \in AllSurfaces
  PROVE  /\ s.group \in Planned /\ s \in SurfacesOf(s.group)
         /\ PlannedSurface(PublishedPlan, s) = PublishedSurface(s)
  <1>1. PICK g \in Planned : g = s.group /\ s \in SurfacesOf(g)
    BY DEF AllSurfaces, SurfacesOf
  <1>2. PublishedPlan[g].surfaces = {PublishedSurface(q) : q \in SurfacesOf(g)}
    BY EntryIs
  <1>3. \A q : PublishedSurface(q).id = q
    BY DEF PublishedSurface
  <1>4. PublishedSurface(s) \in PublishedPlan[g].surfaces
        /\ \A p \in PublishedPlan[g].surfaces : p.id = s => p = PublishedSurface(s)
    BY <1>1, <1>2, <1>3
  <1> QED
    BY <1>1, <1>3, <1>4 DEF PlannedSurface

LEMMA MetadataIs ==
  ASSUME NEW s \in AllSurfaces, NEW n
  PROVE  /\ SurfaceMetadata(PublishedPlan, s) =
              [surface |-> s, group |-> s.group, partition |-> assignment[s.group],
               name |-> s.group, role |-> s.role, settings |-> SettingsDigest(SolverInput(s)),
               input |-> SolverInput(s)]
         /\ RowMetadata(PublishedPlan, s, n) =
              [id |-> <<s, n>>, surface |-> s, node |-> n, group |-> s.group,
               partition |-> assignment[s.group], name |-> s.group, role |-> s.role,
               settings |-> SettingsDigest(SolverInput(s)), input |-> SolverInput(s),
               base |-> BaseVolatility, rate |-> "rate", multiplier |-> "multiplier"]
  <1>1. PICK g \in Planned : g = s.group
    BY PlannedSurfaceIs
  <1>2. PICK e, p : e = PublishedPlan[g] /\ p = PlannedSurface(PublishedPlan, s)
    OBVIOUS
  <1>3. /\ e.partition = assignment[g] /\ e.metadata.name = g /\ e.metadata.base = BaseVolatility
        /\ e.metadata.rate = "rate" /\ e.metadata.multiplier = "multiplier"
    <2>1. e.partition = assignment[g] /\ e.metadata = ScenarioMetadata(g)
      BY <1>2, EntryIs
    <2> QED
      BY <2>1 DEF ScenarioMetadata
  <1>4. p.role = s.role /\ p.settings = SettingsDigest(SolverInput(s)) /\ p.input = SolverInput(s)
    BY <1>2, PlannedSurfaceIs DEF PublishedSurface
  <1> QED
    BY <1>1, <1>2, <1>3, <1>4 DEF SurfaceMetadata, RowMetadata

LEMMA PlanHoldsNow ==
  ASSUME Returned, pc = "returned"
  PROVE  PlanHolds(PublishedPlan)
  <1>0. \A g \in DOMAIN PublishedPlan : g \in Planned
    BY DEF PublishedPlan
  <1> SUFFICES ASSUME NEW g \in Planned, NEW e, e = PublishedPlan[g]
               PROVE  /\ e.partition \in Range(Partitions)
                      /\ e.payload = GroupPayload(g)
                      /\ e.metadata.name = e.name
                      /\ e.metadata.base = e.payload.base
                      /\ \A p \in e.surfaces : p.input = SolverInput(p.id)
                      /\ e.ids = {p.id : p \in e.surfaces}
    BY <1>0 DEF PlanHolds
  <1>1. e.partition \in Range(Partitions) /\ e.payload = GroupPayload(g)
    BY EntryIs, PlacesAre
  <1>2. e.metadata.name = e.name /\ e.metadata.base = e.payload.base
    <2>1. e.metadata = ScenarioMetadata(g) /\ e.payload = GroupPayload(g) /\ e.name = g
      BY EntryIs
    <2> QED
      BY <2>1 DEF ScenarioMetadata, GroupPayload
  <1>3. e.surfaces = {PublishedSurface(s) : s \in SurfacesOf(g)} /\ e.ids = SurfacesOf(g)
    BY EntryIs
  <1>4. \A s : PublishedSurface(s).id = s /\ PublishedSurface(s).input = SolverInput(s)
    BY DEF PublishedSurface
  <1> QED
    BY <1>1, <1>2, <1>3, <1>4

\* A record says what it said before it was published, and where it belongs.
LEMMA RecordIs ==
  ASSUME Returned, pc = "returned", NEW r \in report.records, NEW p,
         p = PublishedRecord(PublishedPlan, r)
  PROVE  /\ r.surface \in AllSurfaces /\ p.surface = r.surface
         /\ p.source = r.source /\ p.retained = r.retained /\ p.retainedRows = r.retainedRows
         /\ p.vegaRows = r.vegaRows /\ p.harvested = r.harvested /\ p.selected = r.selected
         /\ p.rejected = r.rejected
         /\ p.group = r.surface.group /\ p.partition = assignment[r.surface.group]
         /\ p.name = r.surface.group /\ p.role = r.surface.role
         /\ p.settings = SettingsDigest(SolverInput(r.surface)) /\ p.input = SolverInput(r.surface)
         /\ p.status = "solved" /\ r.source = (r.surface.role = "base")
  <1>1. PICK i \in 1..closed : /\ r.surface \in SurfacesOf(order[i]) \cap DOMAIN returned
                               /\ r = Closed(RecordOf(r.surface), ~Complete(order[i]))
    BY OverIs, RecordsAre
  <1>2. r.surface \in AllSurfaces
    BY <1>1, OverIs, AllClosed
  <1>3. DOMAIN r = {"surface", "source", "retained", "retainedRows", "vegaRows", "harvested",
                    "selected", "rejected"}
    BY <1>1 DEF Closed, RecordOf, BaseRecord, BumpedRecord
  <1>4. PICK s, m, a : /\ s = r.surface /\ m = SurfaceMetadata(PublishedPlan, s)
                       /\ a = [status |-> "solved", nodes |-> Cardinality(Nodes)]
    OBVIOUS
  <1>5. m = [surface |-> s, group |-> s.group, partition |-> assignment[s.group],
             name |-> s.group, role |-> s.role, settings |-> SettingsDigest(SolverInput(s)),
             input |-> SolverInput(s)]
    BY <1>2, <1>4, MetadataIs
  <1>6. PICK w : w = With(r, m)
    OBVIOUS
  <1>7. p = With(w, a)
    BY <1>4, <1>6 DEF PublishedRecord
  <1>8. /\ DOMAIN w = DOMAIN r \cup DOMAIN m /\ \A f \in DOMAIN r : w[f] = r[f]
        /\ \A f \in DOMAIN m \ DOMAIN r : w[f] = m[f]
    BY <1>6 DEF With
  <1>9. /\ \A f \in DOMAIN w : p[f] = w[f]
        /\ \A f \in DOMAIN a \ DOMAIN w : p[f] = a[f]
    BY <1>7 DEF With
  <1>10. DOMAIN m = {"surface", "group", "partition", "name", "role", "settings", "input"}
    BY <1>5
  <1>11. DOMAIN a = {"status", "nodes"} /\ a.status = "solved"
    BY <1>4
  <1>12. /\ p.surface = r.surface
         /\ p.source = r.source /\ p.retained = r.retained /\ p.retainedRows = r.retainedRows
         /\ p.vegaRows = r.vegaRows /\ p.harvested = r.harvested /\ p.selected = r.selected
         /\ p.rejected = r.rejected
    BY <1>3, <1>8, <1>9
  <1>13. /\ p.group = m.group /\ p.partition = m.partition /\ p.name = m.name /\ p.role = m.role
         /\ p.settings = m.settings /\ p.input = m.input /\ p.status = "solved"
    BY <1>3, <1>8, <1>9, <1>10, <1>11
  <1>14. /\ m.group = s.group /\ m.partition = assignment[s.group]
         /\ m.name = s.group /\ m.role = s.role
         /\ m.settings = SettingsDigest(SolverInput(s)) /\ m.input = SolverInput(s)
    BY <1>5
  <1>15. r.source = (r.surface.role = "base")
    BY OverIs DEF Reconciles, CoverReconciles
  <1> QED
    BY <1>2, <1>4, <1>12, <1>13, <1>14, <1>15

LEMMA FailureIs ==
  ASSUME Returned, pc = "returned", NEW f \in report.failures, NEW p,
         p = PublishedFailure(PublishedPlan, f)
  PROVE  /\ f.surface \in AllSurfaces /\ p.surface = f.surface /\ p.lifecycle = f.lifecycle
         /\ f.lifecycle \in Lifecycles
         /\ p.group = f.surface.group /\ p.partition = assignment[f.surface.group]
         /\ p.returned = (f.lifecycle = "post_solve_pipeline_failed")
         /\ p.diagnostics = (f.lifecycle = "post_solve_pipeline_failed")
  <1>1. f.surface \in AllSurfaces
    BY OverIs, AllClosed DEF SurfacesIn
  <1>2. f.lifecycle \in Lifecycles
    BY OverIs DEF ReportInv, FailuresInv, AllFailures
  <1>3. f = [surface |-> f.surface, lifecycle |-> f.lifecycle]
    BY DEF Returned, FormInv
  <1>4. PublishedPlan[f.surface.group].partition = assignment[f.surface.group]
    BY <1>1, PlannedSurfaceIs, EntryIs
  <1>5. PICK a : a = [group |-> f.surface.group, partition |-> assignment[f.surface.group],
                      returned |-> f.lifecycle = "post_solve_pipeline_failed",
                      diagnostics |-> f.lifecycle = "post_solve_pipeline_failed"]
    OBVIOUS
  <1>6. p = With(f, a)
    BY <1>4, <1>5 DEF PublishedFailure
  <1>7. DOMAIN f = {"surface", "lifecycle"} /\ DOMAIN a = {"group", "partition", "returned", "diagnostics"}
    BY <1>3, <1>5
  <1>8. /\ \A x \in DOMAIN f : p[x] = f[x]
        /\ \A x \in DOMAIN a \ DOMAIN f : p[x] = a[x]
    BY <1>6 DEF With
  <1>9. /\ p.surface = f.surface /\ p.lifecycle = f.lifecycle
        /\ p.group = a.group /\ p.partition = a.partition /\ p.returned = a.returned
        /\ p.diagnostics = a.diagnostics
    BY <1>7, <1>8
  <1>10. /\ a.group = f.surface.group /\ a.partition = assignment[f.surface.group]
         /\ a.returned = (f.lifecycle = "post_solve_pipeline_failed")
         /\ a.diagnostics = (f.lifecycle = "post_solve_pipeline_failed")
    BY <1>5
  <1> QED
    BY <1>1, <1>2, <1>9, <1>10

\* The surfaces of a group that have a record or a failure of some kind.
Theirs(records, g) == {r.surface : r \in {q \in records : q.surface.group = g}}

LEMMA GroupIs ==
  ASSUME Returned, pc = "returned", NEW g \in report.groups, NEW p,
         p = PublishedGroup(PublishedPlan, g)
  PROVE  /\ g.group \in Planned /\ p.group = g.group /\ p.status = g.status
         /\ p.attempted = g.attempted /\ p.returned = g.returned
         /\ p.solverFailed = g.solverFailed /\ p.successful = g.successful
         /\ p.postFailed = g.postFailed /\ p.retained = g.retained
         /\ p.discarded = g.discarded /\ p.rows = g.rows
         /\ p.partition = assignment[g.group] /\ p.name = g.group
         /\ p.planned = Cardinality(SurfacesOf(g.group)) /\ p.plannedIds = SurfacesOf(g.group)
         /\ p.successfulIds = Theirs(report.records, g.group)
         /\ p.solverFailedIds = Theirs(OfLifecycle(report.failures, "solver_failed"), g.group)
         /\ p.postFailedIds =
                Theirs(OfLifecycle(report.failures, "post_solve_pipeline_failed"), g.group)
  <1>1. g.group \in Planned
    BY OverIs DEF Reconciles, CoverReconciles
  <1>2. PICK e, h : e = PublishedPlan[g.group] /\ h = g.group
    OBVIOUS
  <1>3. /\ e.partition = assignment[h] /\ e.metadata.name = h /\ e.ids = SurfacesOf(h)
    <2>1. e.partition = assignment[h] /\ e.metadata = ScenarioMetadata(h) /\ e.ids = SurfacesOf(h)
      BY <1>1, <1>2, EntryIs
    <2> QED
      BY <2>1 DEF ScenarioMetadata
  <1>4. PICK a : a = [
              partition |-> assignment[h], name |-> h,
              planned |-> Cardinality(SurfacesOf(h)), plannedIds |-> SurfacesOf(h),
              successfulIds |-> Theirs(report.records, h),
              solverFailedIds |-> Theirs(OfLifecycle(report.failures, "solver_failed"), h),
              postFailedIds |-> Theirs(OfLifecycle(report.failures, "post_solve_pipeline_failed"), h)]
    OBVIOUS
  <1>5. p = With(g, a)
    BY <1>2, <1>3, <1>4 DEF PublishedGroup, Theirs
  <1>6. DOMAIN g = {"group", "status", "attempted", "returned", "solverFailed", "successful",
                    "postFailed", "retained", "discarded", "rows"}
    <2>1. g = [group |-> g.group, status |-> g.status, attempted |-> g.attempted,
             returned |-> g.returned, solverFailed |-> g.solverFailed,
             successful |-> g.successful, postFailed |-> g.postFailed,
             retained |-> g.retained, discarded |-> g.discarded, rows |-> g.rows]
      BY DEF Returned, FormInv
    <2> QED
      BY <2>1
  <1>7. DOMAIN a = {"partition", "name", "planned", "plannedIds", "successfulIds",
                    "solverFailedIds", "postFailedIds"}
    BY <1>4
  <1>8. /\ \A x \in DOMAIN g : p[x] = g[x]
        /\ \A x \in DOMAIN a \ DOMAIN g : p[x] = a[x]
    BY <1>5 DEF With
  <1>9. /\ p.group = g.group /\ p.status = g.status
        /\ p.attempted = g.attempted /\ p.returned = g.returned
        /\ p.solverFailed = g.solverFailed /\ p.successful = g.successful
        /\ p.postFailed = g.postFailed /\ p.retained = g.retained
        /\ p.discarded = g.discarded /\ p.rows = g.rows
    BY <1>6, <1>8
  <1>10. /\ p.partition = a.partition /\ p.name = a.name /\ p.planned = a.planned
         /\ p.plannedIds = a.plannedIds /\ p.successfulIds = a.successfulIds
         /\ p.solverFailedIds = a.solverFailedIds /\ p.postFailedIds = a.postFailedIds
    BY <1>6, <1>7, <1>8
  <1>11. /\ a.partition = assignment[h] /\ a.name = h /\ a.planned = Cardinality(SurfacesOf(h))
         /\ a.plannedIds = SurfacesOf(h) /\ a.successfulIds = Theirs(report.records, h)
         /\ a.solverFailedIds = Theirs(OfLifecycle(report.failures, "solver_failed"), h)
         /\ a.postFailedIds = Theirs(OfLifecycle(report.failures, "post_solve_pipeline_failed"), h)
    BY <1>4
  <1> QED
    BY <1>1, <1>2, <1>9, <1>10, <1>11

-----------------------------------------------------------------------------
(* The rows of a publication.                                               *)

\* Where a harvested row comes from.
LEMMA RowComesFrom ==
  ASSUME Returned, pc = "returned", NEW r \in rows, NEW s, s = r.surface
  PROVE  /\ s \in AllSurfaces /\ s.role = "base" /\ Complete(s.group)
         /\ s \in DOMAIN returned /\ returned[s] \in Surfaces
         /\ RowsFrom(rows, s) = RowsOf(s, returned[s]) /\ r \in RowsOf(s, returned[s])
         /\ computesVega => \A b \in BumpedRoles :
                Sibling(s, b) \in DOMAIN returned /\ returned[Sibling(s, b)] \in Surfaces
  <1>1. PICK i \in 1..closed : s \in SurfacesOf(order[i])
    BY OverIs DEF HarvestInv, ExecInv, RowsInv
  <1>2. r \in RowsFrom(rows, s)
    BY DEF RowsFrom
  <1>3. RowsFrom(rows, s) = IF Complete(order[i]) THEN Owed(s) ELSE {}
    BY <1>1, OverIs DEF HarvestInv, ExecInv, RowsInv
  <1>4. Complete(order[i]) /\ s.role = "base" /\ RowsFrom(rows, s) = RowsOf(s, returned[s])
    BY <1>2, <1>3 DEF Owed
  <1>5. s \in AllSurfaces
    BY <1>1, OverIs, AllClosed
  <1>6. s.group = order[i]
    BY <1>1, SurfaceIs
  <1>7. s \in DOMAIN returned
    BY <1>1, <1>4 DEF Complete
  <1>8. \A q \in DOMAIN returned : returned[q] \in Surfaces
    BY GridIs, OverIs DEF HarvestInv, ExecInv, ReturnedInv, AllSurfaces
  <1>9. computesVega => \A b \in BumpedRoles : Sibling(s, b) \in DOMAIN returned
    BY <1>4, <1>7, OverIs DEF HarvestInv, ExecInv, ReturnedInv
  <1> QED
    BY <1>2, <1>4, <1>5, <1>6, <1>7, <1>8, <1>9

LEMMA RowHas ==
  ASSUME Returned, pc = "returned", NEW r \in rows, NEW f, f = returned[r.surface], NEW n, n = r.node
  PROVE  /\ n \in Nodes \ (Endpoints \cup Buffered) /\ n \in f.finite
         /\ r.state = f.state[n] /\ r.state \in States
         /\ r.bumped = computesVega /\ r.vega = HasVega(r.surface, n)
  <1>1. PICK s : s = r.surface
    OBVIOUS
  <1>2. s \in AllSurfaces /\ f \in Surfaces /\ r \in RowsOf(s, f)
    BY <1>1, RowComesFrom
  <1>3. s.leg \in Legs
    BY <1>2 DEF AllSurfaces
  <1>4. PICK m \in UNION {Selection(s.leg, f, x) : x \in States} :
            r = [surface |-> s, node |-> m, state |-> f.state[m],
                 bumped |-> computesVega, vega |-> HasVega(s, m)]
    BY <1>2 DEF RowsOf
  <1>5. m = n
    BY <1>4
  <1>6. PICK x \in States : n \in Selection(s.leg, f, x)
    BY <1>4, <1>5
  <1>7. n \in Candidates(f, x)
    BY <1>2, <1>3, <1>6, SelectionIs
  <1>8. /\ n \in f.finite /\ n \notin Endpoints /\ n \notin Buffered /\ f.state[n] = x
    BY <1>7 DEF Candidates
  <1>9. n \in Nodes
    BY <1>2, <1>8 DEF Surfaces
  <1>10. r.state = f.state[m] /\ r.bumped = computesVega /\ r.vega = HasVega(s, m)
    BY <1>4
  <1> QED
    BY <1>1, <1>5, <1>6, <1>8, <1>9, <1>10

\* The vega columns of a row.
LEMMA NoColumns ==
  ASSUME Returned, pc = "returned", NEW r \in rows, ~computesVega
  PROVE  LegVega(r) = NoVega
  <1>1. r.bumped = computesVega
    BY RowHas
  <1> QED
    BY <1>1 DEF LegVega

LEMMA ColumnsAre ==
  ASSUME Returned, pc = "returned", computesVega, NEW r \in rows, NEW v, v = LegVega(r)
  PROVE  /\ DOMAIN v = DOMAIN NoVega
         /\ v.bump = VolatilityBump /\ v.convention = VegaConvention(VolatilityBump)
         /\ v.downState \in States /\ v.upState \in States
         /\ v.available = r.vega /\ r.vega \in BOOLEAN
         /\ ~r.vega => /\ v.vega = None /\ v.perPoint = None /\ v.down = None /\ v.up = None
                       /\ v.label = None
         /\ r.vega => /\ v.down = BaseVolatility - VolatilityBump
                      /\ v.up = BaseVolatility + VolatilityBump
                      /\ v.vega = CenteredVega(v.up, v.down, VolatilityBump)
                      /\ v.perPoint = PerVolatilityPoint(v.vega)
                      /\ v.label = LabelRecord(<<r.surface, r.node>>, v.convention)
  <1>1. PICK s, n : s = r.surface /\ n = r.node
    OBVIOUS
  <1>2. r.bumped = computesVega /\ r.vega = HasVega(s, n) /\ n \in Nodes
    BY <1>1, RowHas
  <1>11. s \in AllSurfaces
    BY <1>1, RowComesFrom
  <1>12. \A b : [s EXCEPT !.role = b] = Sibling(s, b)
    BY <1>11 DEF AllSurfaces, Sibling
  <1>14. PICK d, u : /\ d = returned[Sibling(s, "sigma_down")].state[n]
                    /\ u = returned[Sibling(s, "sigma_up")].state[n]
    OBVIOUS
  <1>15. d \in States /\ u \in States
    BY <1>1, <1>2, <1>14, RowComesFrom DEF BumpedRoles, Surfaces
  <1>16. PICK a : a = [NoVega EXCEPT
          !.bump = VolatilityBump,
          !.convention = VegaConvention(VolatilityBump),
          !.downState = d, !.upState = u]
    OBVIOUS
  <1>17. PICK dn, up, ve : /\ dn = RoleVolatility("sigma_down") /\ up = RoleVolatility("sigma_up")
                          /\ ve = CenteredVega(up, dn, VolatilityBump)
    OBVIOUS
  <1>18. v = IF ~r.vega THEN a
            ELSE [a EXCEPT
              !.down = dn, !.up = up, !.vega = ve, !.perPoint = PerVolatilityPoint(ve),
              !.label = LabelRecord(<<s, n>>, VegaConvention(VolatilityBump)),
              !.available = TRUE]
    <2>1. r.bumped
      BY <1>2
    <2>2. /\ returned[[r.surface EXCEPT !.role = "sigma_down"]].state[r.node] = d
          /\ returned[[r.surface EXCEPT !.role = "sigma_up"]].state[r.node] = u
      BY <1>1, <1>12, <1>14
    <2>3. LegVega(r) = IF ~r.bumped THEN NoVega ELSE IF ~r.vega THEN a
            ELSE [a EXCEPT
              !.down = dn, !.up = up, !.vega = ve, !.perPoint = PerVolatilityPoint(ve),
              !.label = LabelRecord(<<r.surface, r.node>>, VegaConvention(VolatilityBump)),
              !.available = TRUE]
      BY <1>16, <1>17, <2>2 DEF LegVega
    <2> QED
      BY <1>1, <2>1, <2>3
  <1>19. dn = BaseVolatility - VolatilityBump /\ up = BaseVolatility + VolatilityBump
    BY <1>17 DEF RoleVolatility
  <1>20. r.vega \in BOOLEAN
    BY <1>2 DEF HasVega
  <1>21. a = [bump |-> VolatilityBump, convention |-> VegaConvention(VolatilityBump),
              label |-> None, vega |-> None, perPoint |-> None,
              down |-> None, up |-> None, downState |-> d, upState |-> u, available |-> FALSE]
    BY <1>16 DEF NoVega
  <1>22. CASE ~r.vega
    <2>1. v = a
      BY <1>18, <1>22
    <2>2. DOMAIN v = DOMAIN NoVega
      BY <1>21, <2>1 DEF NoVega
    <2>3. /\ v.bump = VolatilityBump /\ v.convention = VegaConvention(VolatilityBump)
          /\ v.downState = d /\ v.upState = u /\ v.available = FALSE
          /\ v.vega = None /\ v.perPoint = None /\ v.down = None /\ v.up = None /\ v.label = None
      BY <1>21, <2>1
    <2> QED
      BY <1>15, <1>20, <1>22, <2>2, <2>3
  <1>23. CASE r.vega
    <2>1. v = [bump |-> VolatilityBump, convention |-> VegaConvention(VolatilityBump),
               label |-> LabelRecord(<<s, n>>, VegaConvention(VolatilityBump)), vega |-> ve,
               perPoint |-> PerVolatilityPoint(ve),
               down |-> dn, up |-> up, downState |-> d, upState |-> u, available |-> TRUE]
      BY <1>18, <1>21, <1>23
    <2>2. DOMAIN v = DOMAIN NoVega
      BY <2>1 DEF NoVega
    <2> QED
      BY <1>1, <1>15, <1>17, <1>19, <1>20, <1>23, <2>1, <2>2
  <1> QED
    BY <1>20, <1>22, <1>23

\* A published row says where it was harvested, what the surface says there
\* and the vega of its leg.
LEMMA RowIs ==
  ASSUME Returned, pc = "returned", NEW r \in rows
  PROVE  LET p == PublishedRow(PublishedPlan, r)
             m == RowMetadata(PublishedPlan, r.surface, r.node)
         IN  /\ \A f \in DOMAIN m : p[f] = m[f]
             /\ \A f \in DOMAIN NoVega : p[f] = LegVega(r)[f]
             /\ p.price = BaseVolatility /\ p.derivative = Derivative(returned[r.surface], r.node)
             /\ p.state = r.state /\ p.priced = TRUE
             /\ p.reason = EligibilityReason(returned[r.surface], r.node)
             /\ p.eligible = (p.reason = "eligible")
             /\ p.labelled = (p.reason = "eligible" /\ p.derivative # None)
  <1>0. PICK s, n, p : s = r.surface /\ n = r.node /\ p = PublishedRow(PublishedPlan, r)
    OBVIOUS
  <1>1. s \in AllSurfaces
    BY <1>0, RowComesFrom
  <1>2. PICK m, v, a :
          /\ m = RowMetadata(PublishedPlan, s, n) /\ v = LegVega(r)
          /\ a = [price |-> BaseVolatility, derivative |-> Derivative(returned[s], n),
                  state |-> r.state, priced |-> TRUE,
                  reason |-> EligibilityReason(returned[s], n),
                  eligible |-> EligibilityReason(returned[s], n) = "eligible",
                  labelled |-> EligibilityReason(returned[s], n) = "eligible"
                                /\ Derivative(returned[s], n) # None]
    OBVIOUS
  <1>3. p = With(With(m, v), a)
    BY <1>0, <1>2 DEF PublishedRow
  <1>4. PICK w : w = With(m, v)
    OBVIOUS
  <1>5. p = With(w, a)
    BY <1>3, <1>4
  <1>6. DOMAIN m = {"id", "surface", "node", "group", "partition", "name", "role", "settings",
                    "input", "base", "rate", "multiplier"}
    BY <1>1, <1>2, MetadataIs
  <1>7. DOMAIN NoVega = {"bump", "convention", "label", "vega", "perPoint", "down", "up",
                         "downState", "upState", "available"}
    BY DEF NoVega
  <1>8. DOMAIN v = DOMAIN NoVega
    BY <1>2, NoColumns, ColumnsAre
  <1>9. DOMAIN a = {"price", "derivative", "state", "priced", "reason", "eligible", "labelled"}
    BY <1>2
  <1>10. /\ DOMAIN w = DOMAIN m \cup DOMAIN v /\ \A f \in DOMAIN m : w[f] = m[f]
         /\ \A f \in DOMAIN v \ DOMAIN m : w[f] = v[f]
    BY <1>4 DEF With
  <1>11. (\A f \in DOMAIN w : p[f] = w[f]) /\ \A f \in DOMAIN a \ DOMAIN w : p[f] = a[f]
    BY <1>5 DEF With
  <1>12. \A f \in DOMAIN m : p[f] = m[f]
    BY <1>10, <1>11
  <1>13. \A f \in DOMAIN NoVega : p[f] = v[f]
    BY <1>6, <1>7, <1>8, <1>10, <1>11
  <1>14. \A f \in DOMAIN a : p[f] = a[f]
    BY <1>6, <1>7, <1>8, <1>9, <1>10, <1>11
  <1>15. /\ p.price = a.price /\ p.derivative = a.derivative /\ p.state = a.state
         /\ p.priced = a.priced /\ p.reason = a.reason /\ p.eligible = a.eligible
         /\ p.labelled = a.labelled
    BY <1>9, <1>14
  <1>16. /\ a.price = BaseVolatility /\ a.derivative = Derivative(returned[s], n)
         /\ a.state = r.state /\ a.priced = TRUE
         /\ a.reason = EligibilityReason(returned[s], n)
         /\ a.eligible = (a.reason = "eligible")
         /\ a.labelled = (a.reason = "eligible" /\ a.derivative # None)
    BY <1>2
  <1> QED
    BY <1>0, <1>2, <1>12, <1>13, <1>15, <1>16

-----------------------------------------------------------------------------
(* The publication, section by section.                                     *)

LEMMA SameAgain ==
  ASSUME NEW p, NEW D, p = [x \in D |-> p[x]], NEW t, NEW pt, NEW it,
         p.totals = t, p.partitionTotals = pt, p.integrity = it
  PROVE  [p EXCEPT !.totals = t, !.partitionTotals = pt, !.integrity = it] = p
  OBVIOUS

LEMMA PublicationIs ==
  ASSUME NEW p, p = Publication
  PROVE  /\ p.plan = PublishedPlan /\ p.semantic = Semantic
         /\ p.provenance = [raw |-> Semantic, semantic |-> Semantic]
         /\ p.sections = ConfigSections
         /\ p.groups = {PublishedGroup(PublishedPlan, g) : g \in report.groups}
         /\ p.surfaces = {PublishedRecord(PublishedPlan, r) : r \in report.records}
         /\ p.failures = {PublishedFailure(PublishedPlan, f) : f \in report.failures}
         /\ p.rows = {PublishedRow(PublishedPlan, r) : r \in rows}
         /\ p.totals = ScopeTotals(p.groups, p.surfaces, p.failures, p.shortfalls, p.rows)
         /\ p.partitionTotals = PartitionTotals(p) /\ p.integrity = Integrity(p)
         /\ p = Counted(p)
  <1>1. PICK gs, ss, fs, qs, rs, pl :
          /\ gs = {PublishedGroup(PublishedPlan, g) : g \in report.groups}
          /\ ss = {PublishedRecord(PublishedPlan, r) : r \in report.records}
          /\ fs = {PublishedFailure(PublishedPlan, f) : f \in report.failures}
          /\ qs = Shortfalls(PublishedPlan)
          /\ rs = {PublishedRow(PublishedPlan, r) : r \in rows}
          /\ pl = PublishedPlan
    OBVIOUS
  <1>2. PICK b : b = [
            plan |-> pl, semantic |-> Semantic,
            provenance |-> [raw |-> Semantic, semantic |-> Semantic],
            sections |-> ConfigSections, groups |-> gs, surfaces |-> ss, failures |-> fs,
            shortfalls |-> qs, rows |-> rs,
            totals |-> None, partitionTotals |-> None, integrity |-> None]
    OBVIOUS
  <1>3. p = Counted(b)
    BY <1>1, <1>2 DEF Publication
  <1>4. PICK t, pt, it : /\ t = ScopeTotals(gs, ss, fs, qs, rs)
                         /\ pt = PartitionTotals(b) /\ it = Integrity(b)
    OBVIOUS
  <1>5. /\ b.groups = gs /\ b.surfaces = ss /\ b.failures = fs /\ b.shortfalls = qs /\ b.rows = rs
    BY <1>2
  <1>6. p = [b EXCEPT !.totals = t, !.partitionTotals = pt, !.integrity = it]
    BY <1>3, <1>4, <1>5 DEF Counted
  <1>7. p = [plan |-> pl, semantic |-> Semantic,
            provenance |-> [raw |-> Semantic, semantic |-> Semantic],
            sections |-> ConfigSections, groups |-> gs, surfaces |-> ss, failures |-> fs,
            shortfalls |-> qs, rows |-> rs,
            totals |-> t, partitionTotals |-> pt, integrity |-> it]
    BY <1>2, <1>6
  <1>8. /\ p.groups = gs /\ p.surfaces = ss /\ p.failures = fs /\ p.shortfalls = qs /\ p.rows = rs
        /\ p.plan = pl /\ p.semantic = Semantic /\ p.sections = ConfigSections
        /\ p.provenance = [raw |-> Semantic, semantic |-> Semantic]
        /\ p.totals = t /\ p.partitionTotals = pt /\ p.integrity = it
    BY <1>7
  <1>9. PartitionTotals(p) = PartitionTotals(b)
    BY <1>5, <1>8 DEF PartitionTotals
  <1>10. Integrity(p) = Integrity(b)
    BY <1>5, <1>8 DEF Integrity
  <1>11. Counted(p) = [p EXCEPT !.totals = t, !.partitionTotals = pt, !.integrity = it]
    BY <1>4, <1>8, <1>9, <1>10 DEF Counted
  <1>12. [p EXCEPT !.totals = t, !.partitionTotals = pt, !.integrity = it] = p
    <2>1. p = [x \in DOMAIN p |-> p[x]]
      BY <1>7
    <2> QED
      BY <1>8, <2>1, SameAgain
  <1> QED
    BY <1>1, <1>4, <1>8, <1>9, <1>10, <1>11, <1>12

\* A harvested node is left out for one of the recorded reasons, and none whose
\* state is unresolved is eligible.
LEMMA ReasonIs ==
  ASSUME NEW f, NEW n \in Nodes \ (Endpoints \cup Buffered), NEW x, x = EligibilityReason(f, n)
  PROVE  /\ x \in IneligibilityReasons \cup {"eligible"}
         /\ x = "eligible" => f.state[n] # "numerically_indifferent"
  <1>1. CASE ~({n - 1, n, n + 1} \subseteq f.finite)
    <2>1. x = "non_finite_stencil_value"
      BY <1>1 DEF EligibilityReason
    <2> QED
      BY <2>1 DEF IneligibilityReasons
  <1>2. CASE {n - 1, n, n + 1} \subseteq f.finite
    <2>1. x = IF f.state[n] = "numerically_indifferent" THEN "unresolved_exercise_state"
              ELSE IF \A m \in (n - StencilRadius)..(n + StencilRadius) : f.state[m] = f.state[n]
                   THEN "eligible" ELSE "regime_stencil_not_uniform"
      BY <1>2 DEF EligibilityReason
    <2> QED
      BY <2>1 DEF IneligibilityReasons
  <1> QED
    BY <1>1, <1>2

LEMMA DesignIs ==
  /\ BaseVolatility \in Nat /\ VolatilityBump \in Nat /\ VolatilityBump > 0
  /\ None \notin Int /\ Legs # {}
  /\ BaseVolatility # None /\ VolatilityBump # None
  /\ BaseVolatility - VolatilityBump # None /\ BaseVolatility + VolatilityBump # None
  <1>1. /\ BaseVolatility \in Nat /\ VolatilityBump \in Nat /\ VolatilityBump > 0
        /\ None \notin Int /\ Legs # {}
    BY HarvestVerifyAssumption DEF DesignParses
  <1>2. BaseVolatility \in Int /\ VolatilityBump \in Int
        /\ BaseVolatility - VolatilityBump \in Int /\ BaseVolatility + VolatilityBump \in Int
    BY <1>1
  <1> QED
    BY <1>1, <1>2

LEMMA RowFields ==
  ASSUME Returned, pc = "returned", NEW r \in rows, NEW s, s = r.surface, NEW n, n = r.node,
         NEW p, p = PublishedRow(PublishedPlan, r)
  PROVE  /\ p.id = <<s, n>> /\ p.surface = s /\ p.node = n /\ p.group = s.group
         /\ p.partition = assignment[s.group] /\ p.state = r.state
         /\ (p.bump = None) = ~computesVega
         /\ computesVega => p.bump = VolatilityBump /\ p.convention = VegaConvention(p.bump)
         /\ p.available = r.vega /\ (r.vega => computesVega)
  <1>1. s \in AllSurfaces
    BY RowComesFrom
  <1>2. PICK m : m = RowMetadata(PublishedPlan, s, n)
    OBVIOUS
  <1>3. m = [id |-> <<s, n>>, surface |-> s, node |-> n, group |-> s.group,
               partition |-> assignment[s.group], name |-> s.group, role |-> s.role,
               settings |-> SettingsDigest(SolverInput(s)), input |-> SolverInput(s),
               base |-> BaseVolatility, rate |-> "rate", multiplier |-> "multiplier"]
    BY <1>1, <1>2, MetadataIs
  <1>4. \A f \in DOMAIN m : p[f] = m[f]
    BY <1>2, RowIs
  <1>5. /\ p.id = <<s, n>> /\ p.surface = s /\ p.node = n /\ p.group = s.group
        /\ p.partition = assignment[s.group]
    BY <1>3, <1>4
  <1>6. PICK v : v = LegVega(r)
    OBVIOUS
  <1>7. \A f \in DOMAIN NoVega : p[f] = v[f]
    BY <1>6, RowIs
  <1>8. DOMAIN NoVega = {"bump", "convention", "label", "vega", "perPoint", "down", "up",
                         "downState", "upState", "available"}
        /\ NoVega.bump = None /\ NoVega.available = FALSE
    BY DEF NoVega
  <1>9. p.bump = v.bump /\ p.convention = v.convention /\ p.available = v.available
    BY <1>7, <1>8
  <1>10. r.vega => computesVega
    BY RowHas DEF HasVega
  <1>11. ~computesVega => v = NoVega
    BY <1>6, NoColumns
  <1>12. computesVega => v.bump = VolatilityBump /\ v.convention = VegaConvention(VolatilityBump)
                         /\ v.available = r.vega
    BY <1>6, ColumnsAre
  <1>13. computesVega \in BOOLEAN /\ r.vega \in BOOLEAN
    BY OverIs, RowHas DEF HasVega, HarvestInv, PlanInv, OrderInv
  <1>14. p.state = r.state
    BY RowIs
  <1>15. VolatilityBump # None
    BY DesignIs
  <1> QED
    BY <1>5, <1>8, <1>9, <1>10, <1>11, <1>12, <1>13, <1>14, <1>15

LEMMA RowHolds ==
  ASSUME Returned, pc = "returned", NEW r \in rows, NEW p, p = PublishedRow(PublishedPlan, r)
  PROVE  /\ p.node \in Nodes
         /\ Restricted(p, RowMetadata(PublishedPlan, p.surface, p.node))
                = RowMetadata(PublishedPlan, p.surface, p.node)
         /\ RowNumericsHold(p) /\ RowVegaHolds(p)
  <1>1. PICK s, n, f : s = r.surface /\ n = r.node /\ f = returned[s]
    OBVIOUS
  <1>2. /\ n \in Nodes \ (Endpoints \cup Buffered) /\ r.state = f.state[n] /\ r.state \in States
    BY <1>1, RowHas
  <1>3. p.surface = s /\ p.node = n /\ p.state = r.state /\ p.id = <<s, n>>
    BY <1>1, RowFields
  <1>4. Restricted(p, RowMetadata(PublishedPlan, s, n)) = RowMetadata(PublishedPlan, s, n)
    <2>1. PICK m : m = RowMetadata(PublishedPlan, s, n)
      OBVIOUS
    <2>2. \A x \in DOMAIN m : p[x] = m[x]
      BY <1>1, <2>1, RowIs
    <2>3. s \in AllSurfaces
      BY <1>1, RowComesFrom
    <2>4. m = [x \in DOMAIN m |-> m[x]]
      BY <2>1, <2>3, MetadataIs
    <2>5. Restricted(p, m) = m
      BY <2>2, <2>4 DEF Restricted
    <2> QED
      BY <2>1, <2>5
  <1>5. RowNumericsHold(p)
    <2>1. p.reason = EligibilityReason(f, n)
      BY <1>1, RowIs
    <2>2. /\ p.reason \in IneligibilityReasons \cup {"eligible"}
          /\ p.reason = "eligible" => p.state # "numerically_indifferent"
      BY <1>2, <1>3, <2>1, ReasonIs
    <2>3. /\ p.price = BaseVolatility /\ p.priced = TRUE
          /\ p.eligible = (p.reason = "eligible")
          /\ p.labelled = (p.reason = "eligible" /\ p.derivative # None)
      BY RowIs
    <2>4. p.price # None
      BY <2>3, DesignIs
    <2>5. p.state \in States
      BY <1>2, <1>3
    <2> QED
      BY <2>2, <2>3, <2>4, <2>5 DEF RowNumericsHold
  <1>6. RowVegaHolds(p)
    <2>1. PICK v : v = LegVega(r)
      OBVIOUS
    <2>2. \A x \in DOMAIN NoVega : p[x] = v[x]
      BY <2>1, RowIs
    <2>3. DOMAIN NoVega = {"bump", "convention", "label", "vega", "perPoint", "down", "up",
                           "downState", "upState", "available"}
          /\ NoVega.bump = None /\ NoVega = [x \in DOMAIN NoVega |-> NoVega[x]]
      BY DEF NoVega
    <2>4. /\ p.bump = v.bump /\ p.convention = v.convention /\ p.available = v.available
          /\ p.down = v.down /\ p.up = v.up /\ p.vega = v.vega /\ p.perPoint = v.perPoint
          /\ p.label = v.label /\ p.downState = v.downState /\ p.upState = v.upState
      BY <2>2, <2>3
    <2>5. CASE ~computesVega
      <3>1. v = NoVega
        BY <2>1, <2>5, NoColumns
      <3>2. p.bump = None
        BY <2>3, <2>4, <3>1
      <3>3. [x \in DOMAIN NoVega |-> p[x]] = NoVega
        BY <2>2, <2>3, <3>1
      <3> QED
        BY <3>2, <3>3 DEF RowVegaHolds
    <2>6. CASE computesVega
      <3>1. /\ v.bump = VolatilityBump /\ v.convention = VegaConvention(VolatilityBump)
            /\ v.downState \in States /\ v.upState \in States
            /\ v.available = r.vega /\ r.vega \in BOOLEAN
            /\ ~r.vega => /\ v.vega = None /\ v.perPoint = None /\ v.down = None /\ v.up = None
                          /\ v.label = None
            /\ r.vega => /\ v.down = BaseVolatility - VolatilityBump
                         /\ v.up = BaseVolatility + VolatilityBump
                         /\ v.vega = CenteredVega(v.up, v.down, VolatilityBump)
                         /\ v.perPoint = PerVolatilityPoint(v.vega)
                         /\ v.label = LabelRecord(<<s, n>>, v.convention)
        BY <1>1, <2>1, <2>6, ColumnsAre
      <3>2. /\ p.bump = VolatilityBump /\ p.bump # None /\ p.bump > 0
            /\ p.convention = VegaConvention(p.bump)
            /\ p.downState \in States /\ p.upState \in States
        BY <2>4, <3>1, DesignIs
      <3>3. CASE r.vega
        <4>1. /\ p.available /\ p.up # None /\ p.down # None
              /\ p.vega = CenteredVega(p.up, p.down, p.bump)
              /\ p.perPoint = PerVolatilityPoint(p.vega)
              /\ p.label = LabelRecord(p.id, p.convention)
          BY <1>3, <2>4, <3>1, <3>3, DesignIs
        <4> QED
          BY <3>2, <4>1 DEF RowVegaHolds
      <3>4. CASE ~r.vega
        <4>1. ~p.available /\ {p.vega, p.perPoint, p.down, p.up, p.label} = {None}
          BY <2>4, <3>1, <3>4
        <4> QED
          BY <3>2, <4>1 DEF RowVegaHolds
      <3> QED
        BY <3>3, <3>4
    <2> QED
      BY <2>5, <2>6
  <1> QED
    BY <1>2, <1>3, <1>4, <1>5, <1>6

LEMMA RecordOnce ==
  ASSUME Returned, pc = "returned", NEW r \in report.records, NEW q \in report.records,
         r.surface = q.surface
  PROVE  r = q
  <1>1. PICK i \in 1..closed : /\ r.surface \in SurfacesOf(order[i]) \cap DOMAIN returned
                               /\ r = Closed(RecordOf(r.surface), ~Complete(order[i]))
    BY OverIs, RecordsAre
  <1>2. PICK j \in 1..closed : /\ q.surface \in SurfacesOf(order[j]) \cap DOMAIN returned
                               /\ q = Closed(RecordOf(q.surface), ~Complete(order[j]))
    BY OverIs, RecordsAre
  <1>3. order[i] = order[j]
    BY <1>1, <1>2, SurfaceIs
  <1> QED
    BY <1>1, <1>2, <1>3

LEMMA FailureOnce ==
  ASSUME Returned, pc = "returned"
  PROVE  /\ IsFiniteSet(report.failures) /\ \A f \in report.failures : f.lifecycle \in Lifecycles
         /\ \A f, h \in report.failures : f.surface = h.surface => f = h
  BY OverIs, AllClosed DEF ReportInv, FailuresInv

LEMMA RowOnce ==
  ASSUME Returned, pc = "returned", NEW r \in rows, NEW q \in rows,
         r.surface = q.surface, r.node = q.node
  PROVE  r = q
  BY OverIs DEF Reconciles, RowsReconcile

LEMMA CoveredNow ==
  ASSUME Returned, pc = "returned", NEW p, p = Publication
  PROVE  Covered(p)
  <1>1. PICK gs, ss, fs : gs = p.groups /\ ss = p.surfaces /\ fs = p.failures
    OBVIOUS
  <1>2. /\ p.plan = PublishedPlan
        /\ gs = {PublishedGroup(PublishedPlan, g) : g \in report.groups}
        /\ ss = {PublishedRecord(PublishedPlan, r) : r \in report.records}
        /\ fs = {PublishedFailure(PublishedPlan, f) : f \in report.failures}
    BY <1>1, PublicationIs
  <1>3. /\ {g.group : g \in report.groups} = Planned
        /\ SurfacesIn(report.records) \cap SurfacesIn(report.failures) = {}
        /\ SurfacesIn(report.records) \cup SurfacesIn(report.failures) = AllSurfaces
    BY OverIs DEF Reconciles, CoverReconciles
  <1>4. \A g \in report.groups : PublishedGroup(PublishedPlan, g).group = g.group
    BY GroupIs
  <1>5. \A r \in report.records : PublishedRecord(PublishedPlan, r).surface = r.surface
    BY RecordIs
  <1>6. \A f \in report.failures : PublishedFailure(PublishedPlan, f).surface = f.surface
    BY FailureIs
  <1>7. {g.group : g \in gs} = {g.group : g \in report.groups}
    BY <1>2, <1>4
  <1>8. SurfacesIn(ss) = SurfacesIn(report.records) /\ SurfacesIn(fs) = SurfacesIn(report.failures)
    BY <1>2, <1>5, <1>6 DEF SurfacesIn
  <1>9. \A a, b \in ss : a.surface = b.surface => a = b
    BY <1>2, <1>5, RecordOnce
  <1>10. \A a, b \in fs : a.surface = b.surface => a = b
    BY <1>2, <1>6, FailureOnce
  <1>11. DOMAIN PublishedPlan = Planned
    BY DEF PublishedPlan
  <1>12. UNION {{s.id : s \in PublishedPlan[g].surfaces} : g \in Planned} = AllSurfaces
    <2>1. \A g \in Planned : {s.id : s \in PublishedPlan[g].surfaces} = SurfacesOf(g)
      <3>1. \A s : PublishedSurface(s).id = s
        BY DEF PublishedSurface
      <3>2. \A g \in Planned : PublishedPlan[g].surfaces = {PublishedSurface(s) : s \in SurfacesOf(g)}
        BY EntryIs
      <3> QED
        BY <3>1, <3>2
    <2>2. UNION {SurfacesOf(g) : g \in Planned} = AllSurfaces
      <3>1. \A g \in Planned : SurfacesOf(g) \subseteq AllSurfaces
        BY SurfaceIs
      <3>2. \A s \in AllSurfaces : \E g \in Planned : s \in SurfacesOf(g)
        BY PlannedSurfaceIs
      <3> QED
        BY <3>1, <3>2
    <2> QED
      BY <2>1, <2>2
  <1>13. PICK pl : pl = p.plan
    OBVIOUS
  <1>14. DOMAIN pl = Planned /\ UNION {{s.id : s \in pl[g].surfaces} : g \in DOMAIN pl} = AllSurfaces
    BY <1>2, <1>11, <1>12, <1>13
  <1>15. /\ {g.group : g \in gs} = DOMAIN pl
         /\ SurfacesIn(ss) \cap SurfacesIn(fs) = {} /\ SurfacesIn(ss) \cup SurfacesIn(fs) = AllSurfaces
    BY <1>3, <1>7, <1>8, <1>14
  <1> QED
    BY <1>1, <1>9, <1>10, <1>13, <1>14, <1>15 DEF Covered

LEMMA SurfacesHoldNow ==
  ASSUME Returned, pc = "returned", NEW p, p = Publication
  PROVE  SurfacesHold(p)
  <1>1. p.plan = PublishedPlan
        /\ p.surfaces = {PublishedRecord(PublishedPlan, r) : r \in report.records}
    BY PublicationIs
  <1>2. ASSUME NEW r \in report.records, NEW q, q = PublishedRecord(PublishedPlan, r)
        PROVE  /\ Restricted(q, SurfaceMetadata(PublishedPlan, q.surface))
                        = SurfaceMetadata(PublishedPlan, q.surface)
               /\ q.status = "solved" /\ q.source = (q.role = "base")
    <2>1. PICK s, m : s = r.surface /\ m = SurfaceMetadata(PublishedPlan, s)
      OBVIOUS
    <2>2. /\ s \in AllSurfaces /\ q.surface = s
          /\ q.source = r.source /\ r.source = (s.role = "base") /\ q.role = s.role
          /\ q.group = s.group /\ q.partition = assignment[s.group] /\ q.name = s.group
          /\ q.settings = SettingsDigest(SolverInput(s)) /\ q.input = SolverInput(s)
          /\ q.status = "solved"
      BY <1>2, <2>1, RecordIs
    <2>3. m = [surface |-> s, group |-> s.group, partition |-> assignment[s.group],
               name |-> s.group, role |-> s.role, settings |-> SettingsDigest(SolverInput(s)),
               input |-> SolverInput(s)]
      BY <2>1, <2>2, MetadataIs
    <2>4. DOMAIN m = {"surface", "group", "partition", "name", "role", "settings", "input"}
          /\ m = [x \in DOMAIN m |-> m[x]]
      BY <2>3
    <2>5. \A x \in DOMAIN m : q[x] = m[x]
      BY <2>2, <2>3, <2>4
    <2>6. Restricted(q, m) = m
      BY <2>4, <2>5 DEF Restricted
    <2> QED
      BY <2>1, <2>2, <2>6
  <1> QED
    BY <1>1, <1>2 DEF SurfacesHold

LEMMA FailuresHoldNow ==
  ASSUME Returned, pc = "returned", NEW p, p = Publication
  PROVE  FailuresHold(p)
  <1>1. p.plan = PublishedPlan
        /\ p.failures = {PublishedFailure(PublishedPlan, f) : f \in report.failures}
    BY PublicationIs
  <1>2. ASSUME NEW f \in report.failures, NEW q, q = PublishedFailure(PublishedPlan, f)
        PROVE  /\ q.group = q.surface.group /\ q.partition = PublishedPlan[q.group].partition
               /\ q.lifecycle \in {"solver_failed", "post_solve_pipeline_failed"}
               /\ q.returned = (q.lifecycle = "post_solve_pipeline_failed")
               /\ ~q.returned => ~q.diagnostics
    <2>1. /\ f.surface \in AllSurfaces /\ q.surface = f.surface /\ q.lifecycle = f.lifecycle
          /\ f.lifecycle \in Lifecycles
          /\ q.group = f.surface.group /\ q.partition = assignment[f.surface.group]
          /\ q.returned = (f.lifecycle = "post_solve_pipeline_failed")
          /\ q.diagnostics = (f.lifecycle = "post_solve_pipeline_failed")
      BY <1>2, FailureIs
    <2>2. PublishedPlan[q.group].partition = assignment[q.group]
      BY <2>1, PlannedSurfaceIs, EntryIs
    <2> QED
      BY <2>1, <2>2 DEF Lifecycles
  <1> QED
    BY <1>1, <1>2 DEF FailuresHold

-----------------------------------------------------------------------------
(* The groups of a publication.                                             *)

LEMMA ImageCounts ==
  ASSUME NEW S, IsFiniteSet(S), NEW f, DOMAIN f = S, \A a, b \in S : f[a] = f[b] => a = b
  PROVE  IsFiniteSet({f[x] : x \in S}) /\ Cardinality({f[x] : x \in S}) = Cardinality(S)
  <1>1. PICK T, h : T = {f[x] : x \in S} /\ h = [x \in S |-> f[x]]
    OBVIOUS
  <1>2. h \in [S -> T] /\ (\A a, b \in S : h[a] = h[b] => a = b) /\ \A t \in T : \E a \in S : h[a] = t
    BY <1>1
  <1> QED
    BY <1>1, <1>2, CountBy

LEMMA RowsAreFinite ==
  ASSUME Returned, pc = "returned"
  PROVE  IsFiniteSet(rows)
  <1> DEFINE D == DOMAIN returned
             of == [s \in D |-> RowsFrom(rows, s)]
  <1>1. IsFiniteSet(D)
    BY OverIs DEF ReportInv, RecordsInv
  <1>2. DOMAIN of = D
    OBVIOUS
  <1>3. \A s \in D : IsFiniteSet(of[s])
    <2> SUFFICES ASSUME NEW s \in D PROVE IsFiniteSet(RowsFrom(rows, s))
      OBVIOUS
    <2>1. CASE RowsFrom(rows, s) = {}
      BY <2>1, FS_EmptySet
    <2>2. CASE RowsFrom(rows, s) # {}
      <3>1. PICK r \in rows : s = r.surface
        BY <2>2 DEF RowsFrom
      <3>2. PICK f : f = returned[s]
        OBVIOUS
      <3>3. s \in AllSurfaces /\ f \in Surfaces /\ RowsFrom(rows, s) = RowsOf(s, f)
        BY <3>1, <3>2, RowComesFrom
      <3>4. s.leg \in Legs
        BY <3>3 DEF AllSurfaces
      <3> QED
        BY <3>3, <3>4, RowsAreCounted
    <2> QED
      BY <2>1, <2>2
  <1>4. rows = UNION {of[s] : s \in D}
    <2>1. \A r \in rows : r.surface \in D
      BY RowComesFrom
    <2> QED
      BY <2>1 DEF RowsFrom
  <1> HIDE DEF of, D
  <1>5. IsFiniteSet({of[s] : s \in D})
    BY <1>1, <1>2, ImageFinite
  <1> QED
    BY <1>3, <1>4, <1>5, FS_UNION

LEMMA RowsHoldNow ==
  ASSUME Returned, pc = "returned", NEW p, p = Publication
  PROVE  RowsHold(p)
  <1>1. PICK ss, rs : /\ ss = p.surfaces /\ rs = p.rows
    OBVIOUS
  <1>2. /\ p.plan = PublishedPlan /\ ss = {PublishedRecord(PublishedPlan, r) : r \in report.records}
        /\ rs = {PublishedRow(PublishedPlan, r) : r \in rows}
    BY <1>1, PublicationIs
  <1>3. \A r \in rows : /\ PublishedRow(PublishedPlan, r).id = <<r.surface, r.node>>
                        /\ PublishedRow(PublishedPlan, r).surface = r.surface
    BY RowFields
  <1>4. ASSUME NEW row \in rs, NEW other \in rs, other.id = row.id PROVE other = row
    <2>1. PICK r \in rows, q \in rows : row = PublishedRow(PublishedPlan, r)
                                        /\ other = PublishedRow(PublishedPlan, q)
      BY <1>2
    <2>2. r.surface = q.surface /\ r.node = q.node
      BY <1>3, <1>4, <2>1
    <2> QED
      BY <2>1, <2>2, RowOnce
  <1>5. ASSUME NEW row \in rs PROVE \E q \in ss : q.surface = row.surface /\ q.source /\ q.retained
    <2>1. PICK r \in rows : row = PublishedRow(PublishedPlan, r)
      BY <1>2
    <2>2. PICK o \in report.records : o.surface = r.surface /\ o.source /\ o.retained
      BY OverIs DEF Reconciles, RowsReconcile
    <2>3. PICK q \in ss : q = PublishedRecord(PublishedPlan, o)
      BY <1>2
    <2>4. q.surface = o.surface /\ q.source = o.source /\ q.retained = o.retained
      BY <2>3, RecordIs
    <2> QED
      BY <1>3, <2>1, <2>2, <2>4
  <1>6. ASSUME NEW row \in rs
        PROVE  /\ row.node \in Nodes
               /\ Restricted(row, RowMetadata(PublishedPlan, row.surface, row.node))
                        = RowMetadata(PublishedPlan, row.surface, row.node)
               /\ RowNumericsHold(row) /\ RowVegaHolds(row)
    <2>1. PICK r \in rows : row = PublishedRow(PublishedPlan, r)
      BY <1>2
    <2> QED
      BY <2>1, RowHolds
  <1>7. Cardinality({row.id : row \in rs}) = Cardinality(rs)
    <2> DEFINE f == [row \in rs |-> row.id]
    <2>1. IsFiniteSet(rs)
      <3> DEFINE g == [r \in rows |-> PublishedRow(PublishedPlan, r)]
      <3>1. DOMAIN g = rows /\ rs = {g[r] : r \in rows}
        BY <1>2
      <3> HIDE DEF g
      <3> QED
        BY <3>1, RowsAreFinite, ImageFinite
    <2>2. \A a, b \in rs : f[a] = f[b] => a = b
      BY <1>4
    <2>3. Cardinality({f[row] : row \in rs}) = Cardinality(rs)
      <3> HIDE DEF f
      <3>1. DOMAIN f = rs
        BY DEF f
      <3> QED
        BY <2>1, <2>2, <3>1, ImageCounts
    <2>4. {f[row] : row \in rs} = {row.id : row \in rs}
      OBVIOUS
    <2> QED
      BY <2>3, <2>4
  <1> QED
    BY <1>1, <1>2, <1>5, <1>6, <1>7 DEF RowsHold

\* What is published of one group, against what was recorded of it.
LEMMA RecordsOfGroup ==
  ASSUME Returned, pc = "returned", NEW p, p = Publication, NEW g,
         NEW A, A = OfGroup(report.records, g), NEW B, B = {r \in p.surfaces : r.group = g}
  PROVE  /\ IsFiniteSet(B) /\ Cardinality(B) = Cardinality(A) /\ Cardinality(B) \in Nat
         /\ IsFiniteSet(A) /\ SurfacesIn(B) = SurfacesIn(A)
         /\ \A b \in B : \E a \in A : b = PublishedRecord(PublishedPlan, a)
  <1> DEFINE f == [r \in A |-> PublishedRecord(PublishedPlan, r)]
  <1>1. PICK R, S : R = report.records /\ S = p.surfaces
    OBVIOUS
  <1>2. S = {PublishedRecord(PublishedPlan, r) : r \in R}
    BY <1>1, PublicationIs
  <1>3. IsFiniteSet(R) /\ A \subseteq R
    BY <1>1, OverIs, RecordsAre DEF OfGroup
  <1>4. IsFiniteSet(A)
    BY <1>3, FS_Subset
  <1>5. \A r \in R : /\ PublishedRecord(PublishedPlan, r).group = r.surface.group
                     /\ PublishedRecord(PublishedPlan, r).surface = r.surface
    BY <1>1, RecordIs
  <1>6. B = {f[r] : r \in A}
    <2>1. \A b \in B : \E a \in A : b = PublishedRecord(PublishedPlan, a)
      BY <1>1, <1>2, <1>5 DEF OfGroup
    <2>2. \A a \in A : PublishedRecord(PublishedPlan, a) \in B
      BY <1>1, <1>2, <1>5 DEF OfGroup
    <2> QED
      BY <2>1, <2>2
  <1>7. \A a, b \in A : f[a] = f[b] => a = b
    BY <1>1, <1>3, <1>5, RecordOnce
  <1>8. \A a \in A : f[a].surface = a.surface /\ f[a] = PublishedRecord(PublishedPlan, a)
    BY <1>3, <1>5
  <1>9. DOMAIN f = A
    OBVIOUS
  <1> HIDE DEF f
  <1>10. IsFiniteSet(B) /\ Cardinality(B) = Cardinality(A)
    BY <1>4, <1>6, <1>7, <1>9, ImageCounts
  <1>11. SurfacesIn(B) = SurfacesIn(A)
    BY <1>6, <1>8 DEF SurfacesIn
  <1>12. \A b \in B : \E a \in A : b = PublishedRecord(PublishedPlan, a)
    BY <1>6, <1>8
  <1>13. Cardinality(B) \in Nat
    BY <1>10, FS_CardinalityType
  <1> QED
    BY <1>4, <1>10, <1>11, <1>12, <1>13

LEMMA FailuresOfGroup ==
  ASSUME Returned, pc = "returned", NEW p, p = Publication, NEW g, NEW l,
         NEW A, A = OfLifecycle(OfGroup(report.failures, g), l),
         NEW B, B = OfLifecycle({f \in p.failures : f.group = g}, l)
  PROVE  /\ IsFiniteSet(B) /\ Cardinality(B) = Cardinality(A) /\ Cardinality(B) \in Nat
         /\ SurfacesIn(B) = SurfacesIn(A)
         /\ \A b \in B : \E a \in A : b = PublishedFailure(PublishedPlan, a)
  <1> DEFINE h == [r \in A |-> PublishedFailure(PublishedPlan, r)]
  <1>1. PICK R, S : R = report.failures /\ S = p.failures
    OBVIOUS
  <1>2. S = {PublishedFailure(PublishedPlan, r) : r \in R}
    BY <1>1, PublicationIs
  <1>3. IsFiniteSet(R) /\ A \subseteq R
    BY <1>1, FailureOnce DEF OfGroup, OfLifecycle
  <1>4. IsFiniteSet(A)
    BY <1>3, FS_Subset
  <1>5. \A r \in R : /\ PublishedFailure(PublishedPlan, r).group = r.surface.group
                     /\ PublishedFailure(PublishedPlan, r).surface = r.surface
                     /\ PublishedFailure(PublishedPlan, r).lifecycle = r.lifecycle
    BY <1>1, FailureIs
  <1>6. B = {h[r] : r \in A}
    <2>1. \A b \in B : \E a \in A : b = PublishedFailure(PublishedPlan, a)
      BY <1>1, <1>2, <1>5 DEF OfGroup, OfLifecycle
    <2>2. \A a \in A : PublishedFailure(PublishedPlan, a) \in B
      BY <1>1, <1>2, <1>5 DEF OfGroup, OfLifecycle
    <2> QED
      BY <2>1, <2>2
  <1>7. \A a, b \in A : h[a] = h[b] => a = b
    BY <1>1, <1>3, <1>5, FailureOnce
  <1>8. \A a \in A : h[a].surface = a.surface /\ h[a] = PublishedFailure(PublishedPlan, a)
    BY <1>3, <1>5
  <1>9. DOMAIN h = A
    OBVIOUS
  <1> HIDE DEF h
  <1>10. IsFiniteSet(B) /\ Cardinality(B) = Cardinality(A)
    BY <1>4, <1>6, <1>7, <1>9, ImageCounts
  <1>11. SurfacesIn(B) = SurfacesIn(A)
    BY <1>6, <1>8 DEF SurfacesIn
  <1>12. \A b \in B : \E a \in A : b = PublishedFailure(PublishedPlan, a)
    BY <1>6, <1>8
  <1>13. Cardinality(B) \in Nat
    BY <1>10, FS_CardinalityType
  <1> QED
    BY <1>10, <1>11, <1>12, <1>13

LEMMA RowsOfGroup ==
  ASSUME Returned, pc = "returned", NEW p, p = Publication, NEW g,
         NEW A, A = OfGroup(rows, g), NEW B, B = {r \in p.rows : r.group = g}
  PROVE  /\ IsFiniteSet(B) /\ Cardinality(B) = Cardinality(A) /\ Cardinality(B) \in Nat
  <1> DEFINE f == [r \in A |-> PublishedRow(PublishedPlan, r)]
  <1>1. PICK R, S : R = rows /\ S = p.rows
    OBVIOUS
  <1>2. S = {PublishedRow(PublishedPlan, r) : r \in R}
    BY <1>1, PublicationIs
  <1>3. IsFiniteSet(R) /\ A \subseteq R
    BY <1>1, RowsAreFinite DEF OfGroup
  <1>4. IsFiniteSet(A)
    BY <1>3, FS_Subset
  <1>5. \A r \in R : /\ PublishedRow(PublishedPlan, r).group = r.surface.group
                     /\ PublishedRow(PublishedPlan, r).surface = r.surface
                     /\ PublishedRow(PublishedPlan, r).node = r.node
    BY <1>1, RowFields
  <1>6. B = {f[r] : r \in A}
    <2>1. \A b \in B : \E a \in A : b = PublishedRow(PublishedPlan, a)
      BY <1>1, <1>2, <1>5 DEF OfGroup
    <2>2. \A a \in A : PublishedRow(PublishedPlan, a) \in B
      BY <1>1, <1>2, <1>5 DEF OfGroup
    <2> QED
      BY <2>1, <2>2
  <1>7. \A a, b \in A : f[a] = f[b] => a = b
    BY <1>1, <1>3, <1>5, RowOnce
  <1>9. DOMAIN f = A
    OBVIOUS
  <1> HIDE DEF f
  <1>10. IsFiniteSet(B) /\ Cardinality(B) = Cardinality(A)
    BY <1>4, <1>6, <1>7, <1>9, ImageCounts
  <1>13. Cardinality(B) \in Nat
    BY <1>10, FS_CardinalityType
  <1> QED
    BY <1>10, <1>13

\* A group's surfaces are those recorded and those that failed.
LEMMA GroupSplit ==
  ASSUME Returned, pc = "returned", NEW g \in Planned,
         NEW A, A = OfGroup(report.records, g), NEW B, B = OfGroup(report.failures, g)
  PROVE  /\ IsFiniteSet(SurfacesOf(g))
         /\ Cardinality(SurfacesOf(g)) = Cardinality(A) + Cardinality(B)
         /\ IsFiniteSet(A) /\ IsFiniteSet(B) /\ Cardinality(A) \in Nat /\ Cardinality(B) \in Nat
         /\ Cardinality(B) = Cardinality(OfLifecycle(B, "solver_failed"))
                             + Cardinality(OfLifecycle(B, "post_solve_pipeline_failed"))
         /\ Cardinality(OfLifecycle(B, "solver_failed")) \in Nat
         /\ Cardinality(OfLifecycle(B, "post_solve_pipeline_failed")) \in Nat
  <1>1. PICK R, F : R = report.records /\ F = report.failures
    OBVIOUS
  <1>2. IsFiniteSet(R) /\ IsFiniteSet(F) /\ A \subseteq R /\ B \subseteq F
        /\ A = {r \in R : r.surface.group = g} /\ B = {f \in F : f.surface.group = g}
    BY <1>1, OverIs, RecordsAre, FailureOnce DEF OfGroup
  <1>3. IsFiniteSet(A) /\ IsFiniteSet(B)
    BY <1>2, FS_Subset
  <1>4. PICK a, b : a = SurfacesIn(A) /\ b = SurfacesIn(B)
    OBVIOUS
  <1>5. IsFiniteSet(a) /\ Cardinality(a) = Cardinality(A)
    <2> DEFINE f == [r \in A |-> r.surface]
    <2>1. f \in [A -> a] /\ (\A x, y \in A : f[x] = f[y] => x = y) /\ \A t \in a : \E x \in A : f[x] = t
      BY <1>1, <1>2, <1>4, RecordOnce DEF SurfacesIn
    <2> HIDE DEF f
    <2> QED
      BY <1>3, <2>1, CountBy
  <1>6. /\ IsFiniteSet(b) /\ Cardinality(b) = Cardinality(B)
        /\ Cardinality(B) = Cardinality(OfLifecycle(B, "solver_failed"))
                             + Cardinality(OfLifecycle(B, "post_solve_pipeline_failed"))
        /\ Cardinality(OfLifecycle(B, "solver_failed")) \in Nat
        /\ Cardinality(OfLifecycle(B, "post_solve_pipeline_failed")) \in Nat
    <2>1. (\A f \in B : f.lifecycle \in Lifecycles) /\ \A f, h \in B : f.surface = h.surface => f = h
      BY <1>1, <1>2, FailureOnce
    <2> QED
      BY <1>3, <1>4, <2>1, FailuresAreCounted
  <1>7. /\ SurfacesIn(R) \cap SurfacesIn(F) = {} /\ SurfacesIn(R) \cup SurfacesIn(F) = AllSurfaces
    BY <1>1, OverIs DEF Reconciles, CoverReconciles
  <1>8. a \cap b = {}
    BY <1>2, <1>4, <1>7 DEF SurfacesIn
  <1>9. \A s \in AllSurfaces : s \in SurfacesOf(g) <=> s.group = g
    BY SurfaceIs, PlannedSurfaceIs
  <1>10. SurfacesOf(g) \subseteq AllSurfaces
    BY SurfaceIs
  <1>11. a \cup b = SurfacesOf(g)
    <2>1. \A s \in AllSurfaces : s.group = g => s \in a \cup b
      BY <1>2, <1>4, <1>7 DEF SurfacesIn
    <2>2. \A s \in a \cup b : s \in AllSurfaces /\ s.group = g
      BY <1>2, <1>4, <1>7 DEF SurfacesIn
    <2> QED
      BY <1>9, <1>10, <2>1, <2>2
  <1>12. IsFiniteSet(a \cup b) /\ Cardinality(a \cup b) = Cardinality(a) + Cardinality(b)
    BY <1>5, <1>6, <1>8, AddDisjoint
  <1>13. Cardinality(A) \in Nat /\ Cardinality(B) \in Nat
    BY <1>3, FS_CardinalityType
  <1> QED
    BY <1>3, <1>5, <1>6, <1>11, <1>12, <1>13

LEMMA RolesAre ==
  Roles = IF computesVega THEN {"base", "sigma_down", "sigma_up"} ELSE {"base"}
  <1>1. CASE computesVega
    <2>1. RoleOrder = <<"sigma_down", "sigma_up", "base">>
      BY <1>1 DEF RoleOrder
    <2>2. DOMAIN RoleOrder = {1, 2, 3}
      BY <2>1
    <2>3. Roles = {RoleOrder[1], RoleOrder[2], RoleOrder[3]}
      BY <2>2 DEF Roles, Range
    <2> QED
      BY <1>1, <2>1, <2>3
  <1>2. CASE ~computesVega
    <2>1. RoleOrder = <<"base">>
      BY <1>2 DEF RoleOrder
    <2>2. DOMAIN RoleOrder = {1}
      BY <2>1
    <2>3. Roles = {RoleOrder[1]}
      BY <2>2 DEF Roles, Range
    <2> QED
      BY <1>2, <2>1, <2>3
  <1> QED
    BY <1>1, <1>2

\* Each role of a group is solved, at one volatility.
LEMMA VolatilitiesAre ==
  ASSUME NEW g \in Planned, NEW e, e = PublishedPlan[g]
  PROVE  /\ RolesDeclared(e) = Roles
         /\ \A role \in Roles : VolatilitiesOf(e, role) = {RoleVolatility(role)}
  <1>1. e.surfaces = {PublishedSurface(s) : s \in SurfacesOf(g)}
    BY EntryIs
  <1>2. \A s : PublishedSurface(s).role = s.role
               /\ PublishedSurface(s).input.volatility = RoleVolatility(s.role)
    BY DEF PublishedSurface, SolverInput
  <1>3. \A s \in SurfacesOf(g) : s.role \in Roles
    BY SurfaceIs
  <1>4. \A role \in Roles : \E s \in SurfacesOf(g) : s.role = role
    <2>1. PICK l \in Legs : TRUE
      BY DesignIs
    <2> SUFFICES ASSUME NEW role \in Roles PROVE \E s \in SurfacesOf(g) : s.role = role
      OBVIOUS
    <2>2. PICK s : s = [group |-> g, leg |-> l, role |-> role]
      OBVIOUS
    <2>3. s \in SurfacesOf(g) /\ s.role = role
      BY <2>2 DEF SurfacesOf
    <2> QED
      BY <2>3
  <1>5. \A p \in e.surfaces : \E s \in SurfacesOf(g) :
            p.role = s.role /\ p.input.volatility = RoleVolatility(p.role)
    BY <1>1, <1>2
  <1>6. \A role \in Roles : \E p \in e.surfaces :
            p.role = role /\ p.input.volatility = RoleVolatility(role)
    BY <1>1, <1>2, <1>4
  <1>7. RolesDeclared(e) = Roles
    BY <1>3, <1>5, <1>6 DEF RolesDeclared
  <1>8. \A role \in Roles : VolatilitiesOf(e, role) = {RoleVolatility(role)}
    BY <1>5, <1>6 DEF VolatilitiesOf
  <1> QED
    BY <1>7, <1>8

LEMMA DesignHolds ==
  ASSUME Returned, pc = "returned", NEW g \in Planned, NEW e, e = PublishedPlan[g], NEW B,
         \A b \in B : \E a \in rows : b = PublishedRow(PublishedPlan, a)
  PROVE  RolesHold(e) /\ VegaDesignHolds(e, B)
  <1>1. /\ RolesDeclared(e) = Roles
        /\ \A role \in Roles : VolatilitiesOf(e, role) = {RoleVolatility(role)}
    BY VolatilitiesAre
  <1>2. \A v : Cardinality({v}) = 1
    BY FS_Singleton
  <1>3. RolesHold(e)
    <2>1. Roles \in {{"base"}, {"base"} \cup BumpedRoles}
      BY RolesAre DEF BumpedRoles
    <2>2. \A role \in Roles : Cardinality(VolatilitiesOf(e, role)) = 1
      BY <1>1, <1>2
    <2> QED
      BY <1>1, <2>1, <2>2 DEF RolesHold
  <1>4. ASSUME NEW b \in B
        PROVE  /\ (b.bump = None) = ~computesVega
               /\ computesVega => b.bump = VolatilityBump /\ b.convention = VegaConvention(b.bump)
               /\ b.available => computesVega
    <2>1. PICK a \in rows : b = PublishedRow(PublishedPlan, a)
      OBVIOUS
    <2> QED
      BY <2>1, RowFields
  <1>5. CASE ~computesVega
    <2>1. RolesDeclared(e) = {"base"}
      BY <1>1, <1>5, RolesAre
    <2>2. \A b \in B : b.bump = None /\ ~b.available
      BY <1>4, <1>5
    <2> QED
      BY <1>3, <2>1, <2>2 DEF VegaDesignHolds
  <1>6. CASE computesVega
    <2>1. Roles = {"base", "sigma_down", "sigma_up"}
      BY <1>6, RolesAre
    <2>2. RolesDeclared(e) # {"base"}
      BY <1>1, <2>1
    <2>3. /\ VolatilitiesOf(e, "base") = {BaseVolatility}
          /\ VolatilitiesOf(e, "sigma_down") = {BaseVolatility - VolatilityBump}
          /\ VolatilitiesOf(e, "sigma_up") = {BaseVolatility + VolatilityBump}
      BY <1>1, <2>1 DEF RoleVolatility
    <2>4. (CHOOSE v \in VolatilitiesOf(e, "base") : TRUE) = BaseVolatility
      BY <2>3
    <2>5. \A b \in B : /\ b.bump # None /\ b.bump = VolatilityBump
                       /\ b.convention = VegaConvention(b.bump)
      BY <1>4, <1>6
    <2> QED
      BY <1>3, <2>2, <2>3, <2>4, <2>5 DEF VegaDesignHolds
  <1> QED
    BY <1>5, <1>6

\* The published record of a group agrees with what is published of it.
LEMMA GroupHoldsNow ==
  ASSUME Returned, pc = "returned", NEW p, p = Publication, NEW g \in report.groups,
         NEW q, q = PublishedGroup(PublishedPlan, g)
  PROVE  GroupHolds(p, q)
  <1>1. PICK h, ids : h = g.group /\ ids = SurfacesOf(h)
    OBVIOUS
  <1>2. PICK A, F, W : /\ A = OfGroup(report.records, h) /\ F = OfGroup(report.failures, h)
                       /\ W = OfGroup(rows, h)
    OBVIOUS
  <1>3. PICK B, E, X : /\ B = {r \in p.surfaces : r.group = h} /\ E = {f \in p.failures : f.group = h}
                       /\ X = {r \in p.rows : r.group = h}
    OBVIOUS
  <1>4. PICK e : e = p.plan[h]
    OBVIOUS
  <1>5. h \in Planned /\ q.group = h /\ e = PublishedPlan[h] /\ e.ids = ids
    BY <1>1, <1>4, GroupIs, PublicationIs, EntryIs
  <1>6. GroupReconciles(g, ids, A, F, W)
    BY <1>1, <1>2, OverIs DEF Reconciles
  <1>7. /\ IsFiniteSet(B) /\ Cardinality(B) = Cardinality(A) /\ SurfacesIn(B) = SurfacesIn(A)
        /\ \A b \in B : \E a \in A : b = PublishedRecord(PublishedPlan, a)
    BY <1>2, <1>3, RecordsOfGroup
  <1>8. /\ Cardinality(OfLifecycle(E, "post_solve_pipeline_failed"))
                = Cardinality(OfLifecycle(F, "post_solve_pipeline_failed"))
        /\ SurfacesIn(OfLifecycle(E, "post_solve_pipeline_failed"))
                = SurfacesIn(OfLifecycle(F, "post_solve_pipeline_failed"))
    BY <1>2, <1>3, FailuresOfGroup
  <1>9. /\ Cardinality(OfLifecycle(E, "solver_failed")) = Cardinality(OfLifecycle(F, "solver_failed"))
        /\ SurfacesIn(OfLifecycle(E, "solver_failed")) = SurfacesIn(OfLifecycle(F, "solver_failed"))
    BY <1>2, <1>3, FailuresOfGroup
  <1>10. Cardinality(X) = Cardinality(W) /\ \A b \in X : \E a \in rows : b = PublishedRow(PublishedPlan, a)
    <2>0. W = OfGroup(rows, h) /\ X = {r \in p.rows : r.group = h}
      BY <1>2, <1>3
    <2>1. Cardinality(X) = Cardinality(W)
      BY <2>0, RowsOfGroup
    <2>2. p.rows = {PublishedRow(PublishedPlan, a) : a \in rows}
      BY PublicationIs
    <2>3. \A b \in X : \E a \in rows : b = PublishedRow(PublishedPlan, a)
      BY <2>0, <2>2
    <2> QED
      BY <2>1, <2>3
  <1>11. E = {PublishedFailure(PublishedPlan, f) : f \in F}
    <2>1. p.failures = {PublishedFailure(PublishedPlan, f) : f \in report.failures}
      BY PublicationIs
    <2>2. \A f \in report.failures : PublishedFailure(PublishedPlan, f).group = f.surface.group
      BY FailureIs
    <2>3. \A b \in E : \E f \in F : b = PublishedFailure(PublishedPlan, f)
      BY <1>2, <1>3, <2>1, <2>2 DEF OfGroup
    <2>4. \A f \in F : PublishedFailure(PublishedPlan, f) \in E
      BY <1>2, <1>3, <2>1, <2>2 DEF OfGroup
    <2> QED
      BY <2>3, <2>4
  <1>12. (E = {}) = (F = {}) /\ Cardinality(E) = Cardinality(F)
    <2> DEFINE pub == [f \in F |-> PublishedFailure(PublishedPlan, f)]
    <2>1. IsFiniteSet(F) /\ F \subseteq report.failures
      BY <1>2, FailureOnce, FS_Subset DEF OfGroup
    <2>2. \A f \in F : pub[f].surface = f.surface
      BY <2>1, FailureIs
    <2>3. \A x, y \in F : pub[x] = pub[y] => x = y
      <3> HIDE DEF pub
      <3> QED
        BY <2>1, <2>2, FailureOnce
    <2>4. E = {pub[f] : f \in F} /\ DOMAIN pub = F
      BY <1>11
    <2> HIDE DEF pub
    <2> QED
      BY <2>1, <2>3, <2>4, ImageCounts
  <1>13. /\ q.status = g.status /\ q.attempted = g.attempted /\ q.returned = g.returned
         /\ q.solverFailed = g.solverFailed /\ q.successful = g.successful
         /\ q.postFailed = g.postFailed /\ q.retained = g.retained
         /\ q.discarded = g.discarded /\ q.rows = g.rows
         /\ q.planned = Cardinality(ids) /\ q.plannedIds = ids
         /\ q.successfulIds = Theirs(report.records, h)
         /\ q.solverFailedIds = Theirs(OfLifecycle(report.failures, "solver_failed"), h)
         /\ q.postFailedIds = Theirs(OfLifecycle(report.failures, "post_solve_pipeline_failed"), h)
    BY <1>1, GroupIs
  <1>14. /\ Theirs(report.records, h) = SurfacesIn(A)
         /\ \A l : Theirs(OfLifecycle(report.failures, l), h) = SurfacesIn(OfLifecycle(F, l))
    BY <1>2 DEF Theirs, SurfacesIn, OfGroup, OfLifecycle
  <1>15. \A b \in B : \E a \in A : b.retained = a.retained
    <2>1. A \subseteq report.records
      BY <1>2 DEF OfGroup
    <2> QED
      BY <1>7, <2>1, RecordIs
  <1>16. GroupReconciles(q, ids, B, E, X)
    <2>1. PICK ca, cp, cf, cw, ci : /\ ca = Cardinality(A) /\ cf = Cardinality(F) /\ cw = Cardinality(W)
                    /\ cp = Cardinality(OfLifecycle(F, "post_solve_pipeline_failed"))
                    /\ ci = Cardinality(ids)
      OBVIOUS
    <2>2. /\ g.status = (IF F # {} THEN "failed" ELSE "succeeded")
          /\ g.attempted = ci /\ g.returned = ca + cp
          /\ g.solverFailed = cf - cp /\ g.successful = ca /\ g.postFailed = cp
          /\ g.retained = (IF F # {} THEN 0 ELSE ca) /\ g.discarded = (IF F # {} THEN ca ELSE 0)
          /\ g.rows = cw /\ \A r \in A : r.retained = ~(F # {})
      BY <1>6, <2>1 DEF GroupReconciles
    <2>3. /\ Cardinality(B) = ca /\ Cardinality(E) = cf /\ Cardinality(X) = cw
          /\ Cardinality(OfLifecycle(E, "post_solve_pipeline_failed")) = cp
      BY <1>7, <1>8, <1>10, <1>12, <2>1
    <2>4. \A b \in B : b.retained = ~(E # {})
      BY <1>12, <1>15, <2>2
    <2> QED
      BY <1>12, <1>13, <2>1, <2>2, <2>3, <2>4 DEF GroupReconciles
  <1>17. RolesHold(e) /\ VegaDesignHolds(e, X)
    <2>1. \A b \in X : \E a \in rows : b = PublishedRow(PublishedPlan, a)
      BY <1>10
    <2> QED
      BY <1>5, <2>1, DesignHolds
  <1>18. /\ q.successfulIds = SurfacesIn(B)
         /\ q.solverFailedIds = SurfacesIn(OfLifecycle(E, "solver_failed"))
         /\ q.postFailedIds = SurfacesIn(OfLifecycle(E, "post_solve_pipeline_failed"))
    BY <1>7, <1>8, <1>9, <1>13, <1>14
  <1> QED
    BY <1>3, <1>4, <1>5, <1>13, <1>16, <1>17, <1>18 DEF GroupHolds

-----------------------------------------------------------------------------
(* The surfaces of a publication against its rows.                          *)

LEMMA PublishedRowsCount ==
  ASSUME Returned, pc = "returned", NEW V \in SUBSET rows,
         NEW T, T = {PublishedRow(PublishedPlan, a) : a \in V}
  PROVE  IsFiniteSet(T) /\ Cardinality(T) = Cardinality(V)
  <1> DEFINE f == [a \in V |-> PublishedRow(PublishedPlan, a)]
  <1>1. IsFiniteSet(V)
    BY RowsAreFinite, FS_Subset
  <1>2. \A a \in V : f[a].surface = a.surface /\ f[a].node = a.node
    BY RowFields
  <1>3. DOMAIN f = V /\ T = {f[a] : a \in V}
    OBVIOUS
  <1> HIDE DEF f
  <1>4. \A a, b \in V : f[a] = f[b] => a = b
    BY <1>2, RowOnce
  <1> QED
    BY <1>1, <1>3, <1>4, ImageCounts

LEMMA SurfaceReconcilesNow ==
  ASSUME Returned, pc = "returned", NEW p, p = Publication, NEW r \in report.records,
         NEW q, q = PublishedRecord(PublishedPlan, r)
  PROVE  LET mine == OfSurface(p.rows, q.surface)
         IN  SurfaceReconciles(q, mine, Count(mine, LAMBDA row : row.available))
  <1>1. PICK s, W, X : s = r.surface /\ W = OfSurface(rows, s) /\ X = OfSurface(p.rows, s)
    OBVIOUS
  <1>2. p.rows = {PublishedRow(PublishedPlan, a) : a \in rows}
    BY PublicationIs
  <1>3. W \in SUBSET rows
    BY <1>1 DEF OfSurface
  <1>4. \A a \in rows : /\ PublishedRow(PublishedPlan, a).surface = a.surface
                        /\ PublishedRow(PublishedPlan, a).state = a.state
                        /\ PublishedRow(PublishedPlan, a).available = a.vega
    BY RowFields
  <1>5. /\ \A b \in X : \E a \in W : b = PublishedRow(PublishedPlan, a)
        /\ \A a \in W : PublishedRow(PublishedPlan, a) \in X
    BY <1>1, <1>2, <1>4 DEF OfSurface
  <1>6. X = {PublishedRow(PublishedPlan, a) : a \in W}
    BY <1>5
  <1>7. Cardinality(X) = Cardinality(W)
    BY <1>3, <1>6, PublishedRowsCount
  <1>8. ASSUME NEW x \in States
        PROVE  Cardinality({row \in X : row.state = x}) = Cardinality({row \in W : row.state = x})
    <2>1. PICK V, T : V = {row \in W : row.state = x} /\ T = {row \in X : row.state = x}
      OBVIOUS
    <2>2. V \in SUBSET rows
      BY <1>3, <2>1
    <2>3. (\A b \in T : \E a \in V : b = PublishedRow(PublishedPlan, a))
          /\ \A a \in V : PublishedRow(PublishedPlan, a) \in T
      BY <1>3, <1>4, <1>5, <2>1
    <2>4. T = {PublishedRow(PublishedPlan, a) : a \in V}
      BY <2>3
    <2> QED
      BY <2>1, <2>2, <2>4, PublishedRowsCount
  <1>9. Count(X, LAMBDA row : row.available) = Available(W)
    <2>1. PICK V, T : V = {row \in W : row.vega} /\ T = {row \in X : row.available}
      OBVIOUS
    <2>2. V \in SUBSET rows
      BY <1>3, <2>1
    <2>3. (\A b \in T : \E a \in V : b = PublishedRow(PublishedPlan, a))
          /\ \A a \in V : PublishedRow(PublishedPlan, a) \in T
      BY <1>3, <1>4, <1>5, <2>1
    <2>4. T = {PublishedRow(PublishedPlan, a) : a \in V}
      BY <2>3
    <2>5. Cardinality(T) = Cardinality(V)
      BY <2>2, <2>4, PublishedRowsCount
    <2> QED
      BY <2>1, <2>5 DEF Count, Available
  <1>10. SurfaceReconciles(r, W, Available(W))
    BY <1>1, OverIs DEF Reconciles
  <1>11. /\ q.surface = s /\ q.source = r.source /\ q.retained = r.retained
         /\ q.retainedRows = r.retainedRows /\ q.vegaRows = r.vegaRows
         /\ q.harvested = r.harvested /\ q.selected = r.selected /\ q.rejected = r.rejected
    BY <1>1, RecordIs
  <1>12. PICK v : v = Available(W)
    OBVIOUS
  <1>13. X = {} <=> W = {}
    BY <1>6
  <1>14. SurfaceReconciles(q, X, v)
    <2>1. /\ OverStates(r.selected) + SumOfReasons(r.rejected) = Cardinality(Nodes)
          /\ OverStates(r.selected) = r.harvested
          /\ r.retainedRows = Cardinality(W) /\ r.vegaRows = v
          /\ (~r.source \/ ~r.retained => W = {})
          /\ (r.retained =>
                \A x \in States :
                    /\ r.selected[x] = Cardinality({row \in W : row.state = x})
                    /\ r.source => r.selected[x] <= Requested(r.surface.leg, x))
      BY <1>10, <1>12 DEF SurfaceReconciles
    <2>2. /\ OverStates(q.selected) + SumOfReasons(q.rejected) = Cardinality(Nodes)
          /\ OverStates(q.selected) = q.harvested
          /\ q.retainedRows = Cardinality(X) /\ q.vegaRows = v
          /\ (~q.source \/ ~q.retained => X = {})
      BY <1>7, <1>11, <1>13, <2>1
    <2>3. q.retained =>
                \A x \in States :
                    /\ q.selected[x] = Cardinality({row \in X : row.state = x})
                    /\ q.source => q.selected[x] <= Requested(q.surface.leg, x)
      <3> SUFFICES ASSUME q.retained, NEW x \in States
                   PROVE  /\ q.selected[x] = Cardinality({row \in X : row.state = x})
                          /\ q.source => q.selected[x] <= Requested(q.surface.leg, x)
        OBVIOUS
      <3>1. PICK cx, cw : /\ cx = Cardinality({row \in X : row.state = x})
                          /\ cw = Cardinality({row \in W : row.state = x})
        OBVIOUS
      <3>2. cx = cw
        BY <1>8, <3>1
      <3>3. r.selected[x] = cw /\ (r.source => r.selected[x] <= Requested(r.surface.leg, x))
        BY <1>11, <2>1, <3>1
      <3> QED
        BY <1>1, <1>11, <3>1, <3>2, <3>3
    <2> QED
      BY <2>2, <2>3 DEF SurfaceReconciles
  <1> QED
    BY <1>1, <1>9, <1>11, <1>12, <1>14

-----------------------------------------------------------------------------
(* The totals of a publication.                                             *)

\* What the totals of some groups and surfaces are summed from.
PlannedCounts(gs) == [g \in gs |-> g.planned]
AttemptedCounts(gs) == [g \in gs |-> g.attempted]
ReturnedCounts(gs) == [g \in gs |-> g.returned]
SolverFailedCounts(gs) == [g \in gs |-> g.solverFailed]
PostFailedCounts(gs) == [g \in gs |-> g.postFailed]
Retained(ss) == {r \in ss : r.retained}
GroupsOf(rs) == {r.group : r \in rs}

LEMMA TotalsAre ==
  ASSUME NEW gs, NEW ss, NEW fs, NEW qs, NEW rs
  PROVE  LET t == ScopeTotals(gs, ss, fs, qs, rs)
         IN  /\ t.count = Cardinality(rs) /\ t.independent = Cardinality(GroupsOf(rs))
             /\ t.planned = Cardinality(Heap(PlannedCounts(gs)))
             /\ t.attempted = Cardinality(Heap(AttemptedCounts(gs)))
             /\ t.returned = Cardinality(Heap(ReturnedCounts(gs)))
             /\ t.solverFailed = Cardinality(Heap(SolverFailedCounts(gs)))
             /\ t.successful = Cardinality(ss)
             /\ t.postFailed = Cardinality(Heap(PostFailedCounts(gs)))
             /\ t.retained = Cardinality(Retained(ss))
             /\ t.discarded = Cardinality(ss) - t.retained
             /\ YieldsHold(t)
  <1>0. PICK t : t = ScopeTotals(gs, ss, fs, qs, rs)
    OBVIOUS
  <1>1. PICK pl, at, re, sf, pf, kept, prod :
          /\ pl = Cardinality(Heap(PlannedCounts(gs)))
          /\ at = Cardinality(Heap(AttemptedCounts(gs)))
          /\ re = Cardinality(Heap(ReturnedCounts(gs)))
          /\ sf = Cardinality(Heap(SolverFailedCounts(gs)))
          /\ pf = Cardinality(Heap(PostFailedCounts(gs)))
          /\ kept = Cardinality(Retained(ss))
          /\ prod = GroupsOf(rs)
    OBVIOUS
  <1>2. PICK n, m, o, no, np : n = Cardinality(rs) /\ m = Cardinality(gs) /\ o = Cardinality(ss)
                           /\ no = Cardinality({g \in gs : g.status = "succeeded"})
                           /\ np = Cardinality({g \in gs : g.status = "failed"})
    OBVIOUS
  <1>3. PICK ind, qc, qr, rj : /\ ind = Cardinality(ss) + Count(fs, LAMBDA f : f.returned)
                           /\ qc = Cardinality(qs) /\ qr = Sum(qs, LAMBDA q : q.requested - q.achieved)
                           /\ rj = Sum(ss, LAMBDA r : SumOfReasons(r.rejected))
    OBVIOUS
  <1>4. PICK a : a = [
        groups |-> m, succeeded |-> no, failed |-> np,
        independent |-> Cardinality(prod), planned |-> pl, attempted |-> at,
        returned |-> re, solverFailed |-> sf, successful |-> o, postFailed |-> pf,
        retained |-> kept, discarded |-> o - kept, inductions |-> ind,
        perGroup |-> <<n, Cardinality(prod)>>, perAttempt |-> <<n, at>>,
        perRetained |-> <<n, kept>>, shortfalls |-> qc, shortfallRows |-> qr, rejected |-> rj]
    OBVIOUS
  <1>5. PICK w : w = RowTotals(rs)
    OBVIOUS
  <1>6. t = With(w, a)
    <2>1. /\ Sum(gs, LAMBDA g : g.planned) = pl /\ Sum(gs, LAMBDA g : g.attempted) = at
          /\ Sum(gs, LAMBDA g : g.returned) = re /\ Sum(gs, LAMBDA g : g.solverFailed) = sf
          /\ Sum(gs, LAMBDA g : g.postFailed) = pf
          /\ Count(ss, LAMBDA r : r.retained) = kept
          /\ Count(gs, LAMBDA g : g.status = "succeeded") = no
          /\ Count(gs, LAMBDA g : g.status = "failed") = np
      BY <1>1, <1>2 DEF Sum, Count, PlannedCounts, AttemptedCounts, ReturnedCounts,
                        SolverFailedCounts, PostFailedCounts, Retained
    <2> QED
      BY <1>0, <1>1, <1>2, <1>3, <1>4, <1>5, <2>1 DEF ScopeTotals, GroupsOf
  <1>7. DOMAIN w = {"count", "available", "unchanged", "bumped", "states", "eligible", "reasons",
                    "labelled"} /\ w.count = n
    BY <1>2, <1>5 DEF RowTotals
  <1>8. DOMAIN a = {"groups", "succeeded", "failed", "independent", "planned", "attempted",
                    "returned", "solverFailed", "successful", "postFailed", "retained", "discarded",
                    "inductions", "perGroup", "perAttempt", "perRetained", "shortfalls",
                    "shortfallRows", "rejected"}
    BY <1>4
  <1>9. (\A f \in DOMAIN w : t[f] = w[f]) /\ \A f \in DOMAIN a \ DOMAIN w : t[f] = a[f]
    BY <1>6 DEF With
  <1>10. t.count = n
    BY <1>7, <1>9
  <1>11. \A f \in DOMAIN a : t[f] = a[f]
    BY <1>7, <1>8, <1>9
  <1>12. /\ t.independent = a.independent /\ t.planned = a.planned /\ t.attempted = a.attempted
         /\ t.returned = a.returned /\ t.solverFailed = a.solverFailed /\ t.successful = a.successful
         /\ t.postFailed = a.postFailed /\ t.retained = a.retained /\ t.discarded = a.discarded
         /\ t.perGroup = a.perGroup /\ t.perAttempt = a.perAttempt /\ t.perRetained = a.perRetained
    BY <1>8, <1>11
  <1>13. /\ a.independent = Cardinality(prod) /\ a.planned = pl /\ a.attempted = at
         /\ a.returned = re /\ a.solverFailed = sf /\ a.successful = o
         /\ a.postFailed = pf /\ a.retained = kept /\ a.discarded = o - kept
         /\ a.perGroup = <<n, Cardinality(prod)>> /\ a.perAttempt = <<n, at>>
         /\ a.perRetained = <<n, kept>>
    BY <1>4
  <1>14. YieldsHold(t)
    BY <1>10, <1>12, <1>13 DEF YieldsHold
  <1> QED
    BY <1>0, <1>1, <1>2, <1>10, <1>12, <1>13, <1>14

LEMMA PlannedIsFinite ==
  ASSUME HarvestInv
  PROVE  IsFiniteSet(Planned)
  <1>1. order \in Seq(Groups)
    BY DEF HarvestInv, PlanInv, OrderInv
  <1>2. PICK n : n = Len(order)
    OBVIOUS
  <1>3. n \in Nat /\ DOMAIN order = 1..n
    BY <1>1, <1>2
  <1>4. IsFiniteSet(1..n)
    BY <1>3, FS_Interval
  <1> QED
    BY <1>3, <1>4, ImageFinite DEF Planned

\* One record for each group.
LEMMA GroupOnce ==
  ASSUME Returned, pc = "returned", NEW a \in report.groups, NEW b \in report.groups,
         a.group = b.group
  PROVE  a = b
  <1>1. PICK h : h = a.group
    OBVIOUS
  <1>2. PICK A, F, W : /\ A = OfGroup(report.records, h) /\ F = OfGroup(report.failures, h)
                       /\ W = OfGroup(rows, h)
    OBVIOUS
  <1>3. PICK ids : ids = SurfacesOf(h)
    OBVIOUS
  <1>4. \A g \in report.groups : g.group = h => GroupReconciles(g, ids, A, F, W)
    BY <1>2, <1>3, OverIs DEF Reconciles
  <1>5. GroupReconciles(a, ids, A, F, W) /\ GroupReconciles(b, ids, A, F, W)
    BY <1>1, <1>4
  <1>6. PICK ca, cp, cf, cw, ci : /\ ca = Cardinality(A) /\ cf = Cardinality(F) /\ cw = Cardinality(W)
                    /\ cp = Cardinality(OfLifecycle(F, "post_solve_pipeline_failed"))
                    /\ ci = Cardinality(ids)
    OBVIOUS
  <1>7. /\ a.status = b.status /\ a.attempted = b.attempted /\ a.returned = b.returned
        /\ a.solverFailed = b.solverFailed /\ a.successful = b.successful
        /\ a.postFailed = b.postFailed /\ a.retained = b.retained
        /\ a.discarded = b.discarded /\ a.rows = b.rows
    BY <1>5, <1>6 DEF GroupReconciles
  <1>8. /\ a = [group |-> a.group, status |-> a.status, attempted |-> a.attempted,
             returned |-> a.returned, solverFailed |-> a.solverFailed,
             successful |-> a.successful, postFailed |-> a.postFailed,
             retained |-> a.retained, discarded |-> a.discarded, rows |-> a.rows]
        /\ b = [group |-> b.group, status |-> b.status, attempted |-> b.attempted,
             returned |-> b.returned, solverFailed |-> b.solverFailed,
             successful |-> b.successful, postFailed |-> b.postFailed,
             retained |-> b.retained, discarded |-> b.discarded, rows |-> b.rows]
    BY DEF Returned, FormInv
  <1> QED
    BY <1>7, <1>8

\* The counts a published group gives of its surfaces.
LEMMA GroupCounts ==
  ASSUME Returned, pc = "returned", NEW p, p = Publication, NEW q \in p.groups,
         NEW B, B = {r \in p.surfaces : r.group = q.group}
  PROVE  /\ q.group \in Planned /\ q.partition = assignment[q.group]
         /\ q.planned = q.attempted /\ q.attempted = q.returned + q.solverFailed
         /\ q.returned = Cardinality(B) + q.postFailed
         /\ q.planned \in Nat /\ q.attempted \in Nat /\ q.returned \in Nat
         /\ q.solverFailed \in Nat /\ q.postFailed \in Nat
         /\ IsFiniteSet(B) /\ Cardinality(B) \in Nat
  <1>1. PICK g \in report.groups : q = PublishedGroup(PublishedPlan, g)
    BY PublicationIs
  <1>2. PICK h, ids : h = g.group /\ ids = SurfacesOf(h)
    OBVIOUS
  <1>3. PICK A, F, W : /\ A = OfGroup(report.records, h) /\ F = OfGroup(report.failures, h)
                       /\ W = OfGroup(rows, h)
    OBVIOUS
  <1>4. /\ h \in Planned /\ q.group = h /\ q.partition = assignment[h]
        /\ q.attempted = g.attempted /\ q.returned = g.returned
        /\ q.solverFailed = g.solverFailed /\ q.postFailed = g.postFailed
        /\ q.planned = Cardinality(ids)
    BY <1>1, <1>2, GroupIs
  <1>5. GroupReconciles(g, ids, A, F, W)
    BY <1>2, <1>3, OverIs DEF Reconciles
  <1>6. PICK ca, cp, cs, cf, ci : /\ ca = Cardinality(A) /\ cf = Cardinality(F)
                    /\ cp = Cardinality(OfLifecycle(F, "post_solve_pipeline_failed"))
                    /\ cs = Cardinality(OfLifecycle(F, "solver_failed"))
                    /\ ci = Cardinality(ids)
    OBVIOUS
  <1>7. /\ ci = ca + cf /\ cf = cs + cp /\ ca \in Nat /\ cf \in Nat /\ cs \in Nat /\ cp \in Nat
    BY <1>2, <1>3, <1>4, <1>6, GroupSplit
  <1>8. /\ g.attempted = ci /\ g.returned = ca + cp
        /\ g.solverFailed = cf - cp /\ g.postFailed = cp
    BY <1>5, <1>6 DEF GroupReconciles
  <1>9. IsFiniteSet(B) /\ Cardinality(B) = ca
    <2>1. B = {r \in p.surfaces : r.group = h}
      BY <1>4
    <2> QED
      BY <1>3, <1>6, <2>1, RecordsOfGroup
  <1>10. PICK cb : cb = Cardinality(B)
    OBVIOUS
  <1>11. /\ q.attempted = ca + cf /\ q.returned = ca + cp /\ q.solverFailed = cf - cp
         /\ q.postFailed = cp /\ q.planned = ca + cf /\ cb = ca
    BY <1>4, <1>6, <1>7, <1>8, <1>9, <1>10
  <1>12. /\ q.planned = q.attempted /\ q.attempted = q.returned + q.solverFailed
         /\ q.returned = cb + q.postFailed
         /\ q.planned \in Nat /\ q.attempted \in Nat /\ q.returned \in Nat
         /\ q.solverFailed \in Nat /\ q.postFailed \in Nat /\ cb \in Nat
    BY <1>7, <1>11
  <1> QED
    BY <1>4, <1>9, <1>10, <1>12

LEMMA PublishedGroupsAre ==
  ASSUME Returned, pc = "returned", NEW p, p = Publication
  PROVE  /\ IsFiniteSet(p.groups)
         /\ \A a, b \in p.groups : a.group = b.group => a = b
         /\ \A r \in p.surfaces : \E q \in p.groups : r.group = q.group
  <1>1. PICK P : P = p.groups
    OBVIOUS
  <1>2. P = {PublishedGroup(PublishedPlan, g) : g \in report.groups}
    BY <1>1, PublicationIs
  <1>3. \A g \in report.groups : PublishedGroup(PublishedPlan, g).group = g.group /\ g.group \in Planned
    BY GroupIs
  <1>4. \A a, b \in P : a.group = b.group => a = b
    BY <1>2, <1>3, GroupOnce
  <1>5. {g.group : g \in report.groups} = Planned
    BY OverIs DEF Reconciles, CoverReconciles
  <1>6. \A g \in Planned : \E q \in P : q.group = g
    BY <1>2, <1>3, <1>5
  <1>7. \A q \in P : q.group \in Planned
    BY <1>2, <1>3
  <1>8. PICK f : f = [g \in Planned |-> CHOOSE q \in P : q.group = g]
    OBVIOUS
  <1>9. \A g \in Planned : f[g] \in P /\ f[g].group = g
    BY <1>6, <1>8
  <1>10. P = {f[g] : g \in Planned}
    <2>1. \A q \in P : q = f[q.group]
      BY <1>4, <1>7, <1>9
    <2> QED
      BY <1>7, <1>9, <2>1
  <1>11. IsFiniteSet(P)
    <2>1. IsFiniteSet(Planned)
      BY PlannedIsFinite DEF Returned
    <2>2. DOMAIN f = Planned
      BY <1>8
    <2>3. IsFiniteSet({f[g] : g \in Planned})
      BY <2>1, <2>2, ImageFinite
    <2> QED
      BY <1>10, <2>3
  <1>12. \A r \in p.surfaces : \E q \in P : r.group = q.group
    <2>1. p.surfaces = {PublishedRecord(PublishedPlan, r) : r \in report.records}
      BY PublicationIs
    <2>2. \A r \in report.records : /\ PublishedRecord(PublishedPlan, r).group = r.surface.group
                                    /\ r.surface \in AllSurfaces
      BY RecordIs
    <2>3. \A s \in AllSurfaces : s.group \in Planned
      BY DEF AllSurfaces
    <2> QED
      BY <1>6, <2>1, <2>2, <2>3
  <1> QED
    BY <1>1, <1>4, <1>11, <1>12

\* The lifecycle of the surfaces of some groups adds up in their totals.
LEMMA LifecycleAddsUp ==
  ASSUME Returned, pc = "returned", NEW p, p = Publication, NEW G, G \subseteq p.groups,
         NEW S, S = {r \in p.surfaces : \E q \in G : r.group = q.group},
         NEW fs, NEW qs, NEW rs, NEW t, t = ScopeTotals(G, S, fs, qs, rs)
  PROVE  LifecycleHolds(t)
  <1> DEFINE part == [q \in G |-> {r \in p.surfaces : r.group = q.group}]
             su == [q \in G |-> Cardinality(part[q])]
  <1>0. PICK pl, at, re, sf, pf, kept :
          /\ pl = PlannedCounts(G) /\ at = AttemptedCounts(G) /\ re = ReturnedCounts(G)
          /\ sf = SolverFailedCounts(G) /\ pf = PostFailedCounts(G) /\ kept = Retained(S)
    OBVIOUS
  <1>1. IsFiniteSet(G)
    BY PublishedGroupsAre, FS_Subset
  <1>2. ASSUME NEW q \in G
        PROVE  /\ pl[q] = at[q] /\ at[q] = re[q] + sf[q] /\ re[q] = su[q] + pf[q]
               /\ at[q] \in Nat /\ re[q] \in Nat /\ sf[q] \in Nat /\ pf[q] \in Nat /\ su[q] \in Nat
               /\ IsFiniteSet(part[q]) /\ su[q] = Cardinality(part[q])
    <2>1. q \in p.groups
      OBVIOUS
    <2>2. PICK B : B = {r \in p.surfaces : r.group = q.group}
      OBVIOUS
    <2>3. /\ pl[q] = q.planned /\ at[q] = q.attempted /\ re[q] = q.returned
          /\ sf[q] = q.solverFailed /\ pf[q] = q.postFailed
      BY <1>0 DEF PlannedCounts, AttemptedCounts, ReturnedCounts, SolverFailedCounts, PostFailedCounts
    <2>4. part[q] = B /\ su[q] = Cardinality(B)
      BY <2>2
    <2> HIDE DEF part, su
    <2> QED
      BY <2>1, <2>2, <2>3, <2>4, GroupCounts
  <1>3. \A x, y \in G : x # y => part[x] \cap part[y] = {}
    BY PublishedGroupsAre
  <1>4. /\ \A r \in S : \E q \in G : r \in part[q]
        /\ \A q \in G : part[q] \subseteq S
    OBVIOUS
  <1>6. /\ t.planned = Cardinality(Heap(pl)) /\ t.attempted = Cardinality(Heap(at))
        /\ t.returned = Cardinality(Heap(re)) /\ t.solverFailed = Cardinality(Heap(sf))
        /\ t.successful = Cardinality(S) /\ t.postFailed = Cardinality(Heap(pf))
        /\ t.retained = Cardinality(kept) /\ t.discarded = Cardinality(S) - t.retained
    BY <1>0, TotalsAre
  <1>8. /\ pl = [q \in G |-> pl[q]] /\ at = [q \in G |-> at[q]] /\ re = [q \in G |-> re[q]]
        /\ sf = [q \in G |-> sf[q]] /\ pf = [q \in G |-> pf[q]]
    BY <1>0 DEF PlannedCounts, AttemptedCounts, ReturnedCounts, SolverFailedCounts, PostFailedCounts
  <1>7. pl = at
    BY <1>2, <1>8
  <1>15. su = [q \in G |-> su[q]] /\ DOMAIN part = G
    OBVIOUS
  <1> HIDE DEF part, su
  <1>16. /\ at \in [G -> Nat] /\ re \in [G -> Nat] /\ sf \in [G -> Nat] /\ pf \in [G -> Nat]
         /\ su \in [G -> Nat]
    BY <1>2, <1>8, <1>15
  <1>9. Cardinality(Heap(at)) = Cardinality(Heap(re)) + Cardinality(Heap(sf))
    BY <1>1, <1>2, <1>16, SumAdds
  <1>10. Cardinality(Heap(re)) = Cardinality(Heap(su)) + Cardinality(Heap(pf))
    BY <1>1, <1>2, <1>16, SumAdds
  <1>11. IsFiniteSet(S) /\ Cardinality(Heap(su)) = Cardinality(S)
    <2>1. \A x \in G : IsFiniteSet(part[x]) /\ su[x] = Cardinality(part[x])
      BY <1>2
    <2>2. PICK D, pt, f, U : D = G /\ pt = part /\ f = su /\ U = S
      OBVIOUS
    <2>3. /\ IsFiniteSet(D) /\ DOMAIN pt = D /\ f \in [D -> Nat]
          /\ \A x \in D : IsFiniteSet(pt[x]) /\ f[x] = Cardinality(pt[x])
          /\ \A x, y \in D : x # y => pt[x] \cap pt[y] = {}
          /\ \A x \in D : pt[x] \subseteq U
          /\ \A r \in U : \E x \in D : r \in pt[x]
      BY <1>1, <1>3, <1>4, <1>15, <1>16, <2>1, <2>2
    <2>4. IsFiniteSet(U) /\ Cardinality(Heap(f)) = Cardinality(U)
      BY ONLY <2>3, SumOfParts
    <2> QED
      BY <2>2, <2>4
  <1>12. Cardinality(S) \in Nat /\ Cardinality(kept) \in Nat
    <2>1. kept \subseteq S
      BY <1>0 DEF Retained
    <2>2. IsFiniteSet(kept)
      BY <1>11, <2>1, FS_Subset
    <2> QED
      BY <1>11, <2>2, FS_CardinalityType
  <1>13. PICK n, m : n = Cardinality(S) /\ m = Cardinality(kept)
    OBVIOUS
  <1>14. t.successful = t.retained + t.discarded
    BY <1>6, <1>12, <1>13
  <1> QED
    BY <1>6, <1>7, <1>9, <1>10, <1>11, <1>14 DEF LifecycleHolds

\* What is published of a group is in the group's partition.
LEMMA PlacedWithTheirGroup ==
  ASSUME Returned, pc = "returned", NEW p, p = Publication
  PROVE  /\ \A q \in p.groups : q.partition = assignment[q.group]
         /\ \A r \in p.surfaces : r.partition = assignment[r.group]
         /\ \A w \in p.rows : w.partition = assignment[w.group]
  <1>1. \A q \in p.groups : q.partition = assignment[q.group]
    <2> SUFFICES ASSUME NEW q \in p.groups PROVE q.partition = assignment[q.group]
      OBVIOUS
    <2>1. PICK g \in report.groups : q = PublishedGroup(PublishedPlan, g)
      BY PublicationIs
    <2> QED
      BY <2>1, GroupIs
  <1>2. \A r \in p.surfaces : r.partition = assignment[r.group]
    <2> SUFFICES ASSUME NEW r \in p.surfaces PROVE r.partition = assignment[r.group]
      OBVIOUS
    <2>1. PICK a \in report.records : r = PublishedRecord(PublishedPlan, a)
      BY PublicationIs
    <2> QED
      BY <2>1, RecordIs
  <1>3. \A w \in p.rows : w.partition = assignment[w.group]
    <2> SUFFICES ASSUME NEW w \in p.rows PROVE w.partition = assignment[w.group]
      OBVIOUS
    <2>1. PICK a \in rows : w = PublishedRow(PublishedPlan, a)
      BY PublicationIs
    <2> QED
      BY <2>1, RowFields
  <1> QED
    BY <1>1, <1>2, <1>3

LEMMA TotalsHoldNow ==
  ASSUME Returned, pc = "returned", NEW p, p = Publication
  PROVE  \A t \in {p.totals} \cup Range(p.partitionTotals) : YieldsHold(t) /\ LifecycleHolds(t)
  <1>1. YieldsHold(p.totals) /\ LifecycleHolds(p.totals)
    <2>1. PICK G, S, fs, qs, rs, t : /\ G = p.groups /\ S = p.surfaces /\ fs = p.failures
                                     /\ qs = p.shortfalls /\ rs = p.rows /\ t = p.totals
      OBVIOUS
    <2>2. t = ScopeTotals(G, S, fs, qs, rs)
      BY <2>1, PublicationIs
    <2>3. S = {r \in p.surfaces : \E q \in G : r.group = q.group}
      BY <2>1, PublishedGroupsAre
    <2>4. G \subseteq p.groups
      BY <2>1
    <2>5. LifecycleHolds(t)
      BY <2>2, <2>3, <2>4, LifecycleAddsUp
    <2>6. YieldsHold(t)
      BY <2>2, TotalsAre
    <2> QED
      BY <2>1, <2>5, <2>6
  <1>2. ASSUME NEW name \in Range(Partitions)
        PROVE  YieldsHold(PartitionTotals(p)[name]) /\ LifecycleHolds(PartitionTotals(p)[name])
    <2>1. PICK G, S, fs, qs, rs, t :
            /\ G = In(p.groups, name) /\ S = In(p.surfaces, name) /\ fs = In(p.failures, name)
            /\ qs = In(p.shortfalls, name) /\ rs = In(p.rows, name) /\ t = PartitionTotals(p)[name]
      OBVIOUS
    <2>2. t = ScopeTotals(G, S, fs, qs, rs)
      BY <2>1 DEF PartitionTotals
    <2>3. S = {r \in p.surfaces : \E q \in G : r.group = q.group}
      <3>1. \A r \in S : \E q \in G : r.group = q.group
        BY <2>1, PublishedGroupsAre, PlacedWithTheirGroup DEF In
      <3>2. \A r \in p.surfaces : \A q \in G : r.group = q.group => r \in S
        BY <2>1, PlacedWithTheirGroup DEF In
      <3>3. S \subseteq p.surfaces
        BY <2>1 DEF In
      <3> QED
        BY <3>1, <3>2, <3>3
    <2>4. G \subseteq p.groups
      BY <2>1 DEF In
    <2>5. LifecycleHolds(t)
      BY <2>2, <2>3, <2>4, LifecycleAddsUp
    <2>6. YieldsHold(t)
      BY <2>2, TotalsAre
    <2> QED
      BY <2>1, <2>5, <2>6
  <1>3. PICK f : f = PartitionTotals(p)
    OBVIOUS
  <1>4. p.partitionTotals = f
    BY <1>3, PublicationIs
  <1>5. DOMAIN f = Range(Partitions)
    BY <1>3 DEF PartitionTotals
  <1>6. \A t \in Range(f) : \E name \in Range(Partitions) : t = f[name]
    BY <1>5 DEF Range
  <1>7. \A name \in Range(Partitions) : YieldsHold(f[name]) /\ LifecycleHolds(f[name])
    BY <1>2, <1>3
  <1> QED
    BY <1>1, <1>4, <1>6, <1>7

LEMMA IntegrityHoldsNow ==
  ASSUME Returned, pc = "returned", NEW p, p = Publication
  PROVE  p.integrity.straddling = {} /\ p.integrity.shared = {}
  <1>1. p.integrity = Integrity(p)
    BY PublicationIs
  <1>2. {g.group : g \in {a \in p.groups : \E b \in p.groups :
                        a.group = b.group /\ a.partition # b.partition}} = {}
    BY PlacedWithTheirGroup
  <1>3. ASSUME NEW x \in Range(Partitions) \X Range(Partitions), x[1] # x[2]
        PROVE  {r.group : r \in In(p.rows, x[1])} \cap {r.group : r \in In(p.rows, x[2])} = {}
    <2>1. \A a \in In(p.rows, x[1]) : assignment[a.group] = x[1]
      BY PlacedWithTheirGroup DEF In
    <2>2. \A a \in In(p.rows, x[2]) : assignment[a.group] = x[2]
      BY PlacedWithTheirGroup DEF In
    <2> QED
      BY <1>3, <2>1, <2>2
  <1> QED
    BY <1>1, <1>2, <1>3 DEF Integrity

\* A publication passes both of its verifications.
LEMMA PublicationReconciles ==
  ASSUME Returned, pc = "returned", NEW p, p = Publication
  PROVE  ReconcileReport(p) /\ VerifyAuthoritatively(p)
  <1>1. /\ p.plan = PublishedPlan /\ p.semantic = Semantic
        /\ p.provenance = [raw |-> Semantic, semantic |-> Semantic]
        /\ p.sections = ConfigSections /\ p = Counted(p)
    BY PublicationIs
  <1>2. PlanHolds(p.plan) /\ Covered(p) /\ SurfacesHold(p) /\ FailuresHold(p) /\ RowsHold(p)
    BY <1>1, PlanHoldsNow, CoveredNow, SurfacesHoldNow, FailuresHoldNow, RowsHoldNow
  <1>3. \A q \in p.groups : GroupHolds(p, q)
    <2> SUFFICES ASSUME NEW q \in p.groups PROVE GroupHolds(p, q)
      OBVIOUS
    <2>1. PICK g \in report.groups : q = PublishedGroup(PublishedPlan, g)
      BY PublicationIs
    <2> QED
      BY <2>1, GroupHoldsNow
  <1>4. \A r \in p.surfaces :
            LET mine == OfSurface(p.rows, r.surface)
            IN  SurfaceReconciles(r, mine, Count(mine, LAMBDA row : row.available))
    <2> SUFFICES ASSUME NEW r \in p.surfaces
                 PROVE  LET mine == OfSurface(p.rows, r.surface)
                        IN  SurfaceReconciles(r, mine, Count(mine, LAMBDA row : row.available))
      OBVIOUS
    <2>1. PICK a \in report.records : r = PublishedRecord(PublishedPlan, a)
      BY PublicationIs
    <2> QED
      BY <2>1, SurfaceReconcilesNow
  <1>5. \A t \in {p.totals} \cup Range(p.partitionTotals) : YieldsHold(t) /\ LifecycleHolds(t)
    BY TotalsHoldNow
  <1>6. p.integrity.straddling = {} /\ p.integrity.shared = {}
    BY IntegrityHoldsNow
  <1>7. p.semantic = p.provenance.semantic
    BY <1>1
  <1>8. ReconcileReport(p)
    BY <1>1, <1>2, <1>3, <1>4, <1>5, <1>6, <1>7 DEF ReconcileReport
  <1>9. ConfiguredPlan(p)
    <2> SUFFICES ASSUME NEW g \in Planned, NEW s \in PublishedPlan[g].surfaces
                 PROVE  s.settings = SettingsDigest(s.input)
      BY <1>1 DEF ConfiguredPlan, PublishedPlan
    <2>1. PublishedPlan[g].surfaces = {PublishedSurface(x) : x \in SurfacesOf(g)}
      BY EntryIs
    <2> QED
      BY <2>1 DEF PublishedSurface
  <1> QED
    BY <1>1, <1>8, <1>9 DEF VerifyAuthoritatively, Configured

-----------------------------------------------------------------------------
(* The verified publication.                                                *)

\* A publication is of a returned run, and writing it never refuses it.
PublishedInv ==
    /\ Returned
    /\ Kind # "unpublished" => pc = "returned"
    /\ Kind # "refused"

LEMMA PublishedInitial == VerifyInit => PublishedInv
  <1> SUFFICES ASSUME VerifyInit PROVE PublishedInv
    OBVIOUS
  <1>1. Init /\ Kind = "unpublished" /\ pc # "returned"
    BY DEF VerifyInit, Kind, Init
  <1>2. HarvestInv /\ ReportInv /\ FormInv /\ OverInv
    BY <1>1, PlanInitial, ExecInitial, ReportInitial, FormInitial DEF HarvestInv
  <1>3. LostOnlyToVegaCount
    BY <1>1 DEF Init, LostOnlyToVegaCount
  <1> QED
    BY <1>1, <1>2, <1>3 DEF PublishedInv, Returned

LEMMA ReturnedStep == Returned /\ [Next]_vars => Returned'
  BY PlanStep, ExecStep, ReportStep, OutcomeStep, FormStep DEF Returned, HarvestInv

LEMMA PublishedStep == PublishedInv /\ [VerifyNext]_<<vars, rewrite>> => PublishedInv'
  <1> SUFFICES ASSUME PublishedInv, [VerifyNext]_<<vars, rewrite>> PROVE PublishedInv'
    OBVIOUS
  <1>1. Returned'
    <2>1. Next \/ UNCHANGED vars
      BY DEF VerifyNext, Harvesting, Publish, Rewrite
    <2> QED
      BY <2>1, ReturnedStep DEF PublishedInv
  <1>2. CASE Harvesting
    <2>1. Kind' = "unpublished"
      BY <1>2 DEF Harvesting, Kind
    <2> QED
      BY <1>1, <2>1 DEF PublishedInv
  <1>3. CASE Publish
    <2>1. pc = "returned" /\ pc' = pc
      BY <1>3 DEF Publish, vars
    <2>2. PICK p : p = Publication
      OBVIOUS
    <2>3. ReconcileReport(p)
      BY <2>1, <2>2, PublicationReconciles DEF PublishedInv
    <2>4. Kind' = "untouched"
      BY <1>3, <2>2, <2>3 DEF Publish, Kind
    <2> QED
      BY <1>1, <2>1, <2>4 DEF PublishedInv
  <1>4. CASE Rewrite
    <2>1. pc = "returned" /\ pc' = pc
      BY <1>4 DEF Rewrite, vars, PublishedInv
    <2>2. Kind' \in Kinds
      BY <1>4 DEF Rewrite, Kind
    <2>3. "refused" \notin Kinds
      BY DEF Kinds, PlanKinds, RowKinds, RecordKinds, ReportKinds
    <2> QED
      BY <1>1, <2>1, <2>2, <2>3 DEF PublishedInv
  <1>5. CASE UNCHANGED <<vars, rewrite>>
    <2>1. pc' = pc /\ Kind' = Kind
      BY <1>5 DEF vars, Kind
    <2> QED
      BY <1>1, <2>1 DEF PublishedInv
  <1> QED
    BY <1>2, <1>3, <1>4, <1>5 DEF VerifyNext

\* UntouchedVerifies: what execute_plan returned is published, never refused by
\* write_outputs, and accepted by verify_publication and by
\* verify_publication_authoritatively, for every design, configuration and
\* outcome of the solver.
THEOREM UntouchedPublicationsVerify == VerifySpec => []UntouchedVerifies
  <1>1. PublishedInv => UntouchedVerifies
    <2> SUFFICES ASSUME PublishedInv, pc = "returned"
                 PROVE  LET p == Publication
                        IN  Kind # "refused" /\ VerifyPublication(p) /\ VerifyAuthoritatively(p)
      BY DEF UntouchedVerifies
    <2>1. PICK p : p = Publication
      OBVIOUS
    <2>2. ReconcileReport(p) /\ VerifyAuthoritatively(p)
      BY <2>1, PublicationReconciles DEF PublishedInv
    <2> QED
      BY <2>1, <2>2 DEF PublishedInv, VerifyPublication
  <1> QED
    BY <1>1, PublishedInitial, PublishedStep, PTL DEF VerifySpec
=============================================================================
