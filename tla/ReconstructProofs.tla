-------------------------- MODULE ReconstructProofs --------------------------
(***************************************************************************)
(* What the market-state study publishes, for every archive, every number   *)
(* of runs and every re-ingestion underneath: the report is the last file   *)
(* of a run, and no expiry of the session's own day reaches an aggregate.   *)
(***************************************************************************)
EXTENDS Reconstruct, FiniteSetTheorems, WellFoundedInduction, TLAPS

-----------------------------------------------------------------------------
(* Least elements.                                                          *)

\* Every set of natural numbers that has an element has a least one.
LEMMA LeastNatural ==
  ASSUME NEW T \in SUBSET Nat, T # {}
  PROVE  \E m \in T : \A n \in T : m <= n
  <1>1. PICK R : R = StrictSubsetOrdering(Nat)
    OBVIOUS
  <1>2. PICK F : F = {1..n : n \in T}
    OBVIOUS
  <1>3. IsWellFoundedOn(R, FiniteSubsetsOf(Nat))
    BY <1>1, FS_StrictSubsetOrderingWellFounded
  <1>4. F \subseteq FiniteSubsetsOf(Nat) /\ F # {}
    <2>1. ASSUME NEW n \in T PROVE 1..n \in FiniteSubsetsOf(Nat)
      <3>1. n \in Int /\ 1 \in Int
        OBVIOUS
      <3>2. IsFiniteSet(1..n)
        BY <3>1, FS_Interval
      <3>3. 1..n \in SUBSET Nat
        OBVIOUS
      <3> QED
        BY <3>2, <3>3 DEF FiniteSubsetsOf
    <2> QED
      BY <1>2, <2>1
  <1>5. PICK S \in F : \A U \in F : ~(<<U, S>> \in R)
    BY <1>3, <1>4, WFMin
  <1>6. PICK m \in T : S = 1..m
    BY <1>2, <1>5
  <1>7. ASSUME NEW n \in T, n < m PROVE FALSE
    <2>1. 1..n \in F
      BY <1>2
    <2>2. 1..n \subseteq 1..m /\ m \in 1..m /\ m \notin 1..n
      BY <1>7
    <2>3. <<1..n, S>> \in R
      BY <1>1, <1>6, <2>2 DEF StrictSubsetOrdering
    <2> QED
      BY <1>5, <2>1, <2>3
  <1> QED
    BY <1>7

\* The head of the snapshot loop is one of the snapshots still to take.
LEMMA HeadOfQueue ==
  ASSUME queue \subseteq Snapshots, queue # {}
  PROVE  Next1 \in queue
  <1>1. Sessions \subseteq Nat /\ Instants \subseteq Nat
    BY MarketAssumption
  <1>2. \A a \in queue : a[1] \in Nat /\ a[2] \in Nat /\ a = <<a[1], a[2]>>
    BY <1>1 DEF Snapshots
  <1>3. PICK D : D = {a[1] : a \in queue}
    OBVIOUS
  <1>4. PICK d \in D : \A n \in D : d <= n
    BY <1>2, <1>3, LeastNatural, ZenonT(40)
  <1>5. PICK I : I = {a[2] : a \in {b \in queue : b[1] = d}}
    OBVIOUS
  <1>6. I \subseteq Nat /\ I # {}
    BY <1>2, <1>3, <1>4, <1>5
  <1>7. PICK i \in I : \A n \in I : i <= n
    BY <1>6, LeastNatural
  <1>8. PICK a \in queue : a[1] = d /\ a[2] = i
    BY <1>5, <1>7
  <1>9. \A b \in queue : Earlier(a, b)
    <2> TAKE b \in queue
    <2>1. d <= b[1] /\ (b[1] = d => i <= b[2])
      BY <1>3, <1>4, <1>5, <1>7
    <2> QED
      BY <1>2, <1>8, <2>1 DEF Earlier
  <1> QED
    BY <1>9 DEF Next1

-----------------------------------------------------------------------------
(* The order of publication.                                                *)

LEMMA FiguresAreFinite == IsFiniteSet(Figures)
  <1>1. /\ IsFiniteSet({"rates"}) /\ IsFiniteSet({"containment"}) /\ IsFiniteSet({"spread"})
        /\ IsFiniteSet({"residual"}) /\ IsFiniteSet({"slopes"})
    BY FS_Singleton
  <1>2. IsFiniteSet({"rates"} \cup {"containment"})
    BY <1>1, FS_Union
  <1>3. IsFiniteSet({"rates"} \cup {"containment"} \cup {"spread"})
    BY <1>1, <1>2, FS_Union
  <1>4. IsFiniteSet({"rates"} \cup {"containment"} \cup {"spread"} \cup {"residual"})
    BY <1>1, <1>3, FS_Union
  <1>5. IsFiniteSet({"rates"} \cup {"containment"} \cup {"spread"} \cup {"residual"} \cup {"slopes"})
    BY <1>1, <1>4, FS_Union
  <1>6. Figures = {"rates"} \cup {"containment"} \cup {"spread"} \cup {"residual"} \cup {"slopes"}
    BY DEF Figures
  <1> QED
    BY <1>5, <1>6

LEMMA NameRanks ==
  /\ \A f \in Figures : NameRank[f] \in 1..5
  /\ \A f, g \in Figures : NameRank[f] = NameRank[g] => f = g
  BY DEF NameRank, Figures

\* Every figure has its place in the order of the file names, and no other
\* figure has that place.
LEMMA SortedHasAll ==
  ASSUME NEW figures \in SUBSET Figures
  PROVE  /\ Cardinality(figures) \in Nat
         /\ Sorted(figures) \in [1..Cardinality(figures) -> figures]
         /\ \A f \in figures : \E n \in 1..Cardinality(figures) : Sorted(figures)[n] = f
  <1>1. IsFiniteSet(figures) /\ Cardinality(figures) \in Nat
    BY FiguresAreFinite, FS_Subset, FS_CardinalityType
  <1>2. ASSUME NEW f \in figures
        PROVE  /\ IsFiniteSet(UpTo(figures, f)) /\ f \in UpTo(figures, f)
               /\ Cardinality(UpTo(figures, f)) \in 1..Cardinality(figures)
    <2>1. PICK U : U = UpTo(figures, f)
      OBVIOUS
    <2>2. U \in SUBSET figures /\ f \in U
      BY <2>1 DEF UpTo, NameRank, Figures
    <2>3. IsFiniteSet(U) /\ Cardinality(U) <= Cardinality(figures)
      BY <1>1, <2>2, FS_Subset
    <2>4. Cardinality(U) \in Nat /\ Cardinality(U) # 0
      BY <2>2, <2>3, FS_CardinalityType, FS_EmptySet
    <2> QED
      BY <1>1, <2>1, <2>2, <2>3, <2>4
  <1>3. ASSUME NEW f \in figures, NEW g \in figures,
               Cardinality(UpTo(figures, f)) = Cardinality(UpTo(figures, g))
        PROVE  f = g
    <2>1. PICK U, W : U = UpTo(figures, f) /\ W = UpTo(figures, g)
      OBVIOUS
    <2>2. U \subseteq W \/ W \subseteq U
      <3>1. NameRank[f] <= NameRank[g] \/ NameRank[g] <= NameRank[f]
        BY NameRanks
      <3>2. \A h \in figures : NameRank[h] \in Int
        BY NameRanks
      <3> QED
        BY <2>1, <3>1, <3>2 DEF UpTo
    <2>3. IsFiniteSet(U) /\ IsFiniteSet(W) /\ Cardinality(U) = Cardinality(W)
      BY <1>2, <1>3, <2>1
    <2>4. U = W
      BY <2>2, <2>3, FS_Subset
    <2>5. f \in W /\ g \in U
      BY <1>2, <2>1, <2>4
    <2> QED
      BY <2>1, <2>5 DEF UpTo, NameRank, Figures
  <1>4. \A f \in figures : Sorted(figures)[Cardinality(UpTo(figures, f))] = f
    BY <1>2, <1>3 DEF Sorted
  <1>5. ASSUME NEW n \in 1..Cardinality(figures) PROVE Sorted(figures)[n] \in figures
    <2>1. PICK N, T : N = Cardinality(figures) /\ T = 1..N
      OBVIOUS
    <2>2. PICK r : r = [f \in figures |-> Cardinality(UpTo(figures, f))]
      OBVIOUS
    <2>3. r \in [figures -> T]
      BY <1>2, <2>1, <2>2
    <2>4. r \in Injection(figures, T)
      BY <1>3, <2>2, <2>3 DEF Injection, IsInjective
    <2>5. IsFiniteSet(T) /\ Cardinality(T) = N
      BY <1>1, <2>1, FS_Interval
    <2>6. r \in Surjection(figures, T)
      BY <2>1, <2>4, <2>5, FS_Injection
    <2>7. \E f \in figures : Cardinality(UpTo(figures, f)) = n
      BY <2>1, <2>2, <2>6 DEF Surjection
    <2> QED
      BY <2>7 DEF Sorted
  <1> QED
    BY <1>1, <1>2, <1>4, <1>5 DEF Sorted


-----------------------------------------------------------------------------
(* The inductive invariant.                                                 *)

Tables == {"european_table", "american_table"}

\* What is not written yet is still pending, and the report is written last.
OwedInv ==
    /\ pending \in Seq(Artefacts) /\ pending # <<>>
    /\ \A i \in 1..Len(pending) : pending[i] = "report" <=> i = Len(pending)
    /\ \A a \in Tables \cup document.figures :
          out[a] = run \/ \E i \in 1..Len(pending) : pending[i] = a

PublishInv ==
    /\ run \in Nat /\ out \in [Artefacts -> Nat]
    /\ \A a \in Artefacts : out[a] <= run
    /\ \A a \in Tables : out[a] >= out["report"]
    /\ out["report"] = run => pc = "done"
    /\ pc = "publish" => document.figures \subseteq Figures /\ OwedInv
    /\ pc = "done" => \A a \in Tables \cup document.figures : out[a] = run

\* A snapshot of the session: a discount factor of the session's own day is no rate.
SnapshotOK(a, o) ==
    /\ o = [spot |-> o.spot, european |-> o.european, pairs |-> o.pairs, american |-> o.american]
    /\ \A e \in DOMAIN o.european :
          ZeroDte(e, a[1]) => ~Interpretable(o.european[e].fits[<<Widest, Baseline>>])

TakenInv ==
    /\ queue \subseteq Snapshots /\ DOMAIN outcomes \subseteq Snapshots
    /\ \A a \in DOMAIN outcomes : SnapshotOK(a, outcomes[a])

\* The aggregates of the document are those of the snapshots.
DocumentInv ==
    pc = "publish" =>
        /\ document.facts.spread = DiscountWithin(outcomes).median
        /\ document.facts.intraday = DiscountAcross(outcomes).median
        /\ document.facts.contaminated = StrikeDependence(outcomes)
        /\ document.carry = CarryWithin(outcomes)
        /\ document.transitions = Transitions(outcomes)
        /\ document.rates = RateRows(outcomes)

StudyInv == PublishInv /\ TakenInv /\ DocumentInv

LEMMA StudyInitial == ReconstructInit => StudyInv
  <1> SUFFICES ASSUME ReconstructInit PROVE StudyInv
    OBVIOUS
  <1>1. /\ run = 1 /\ out = [a \in Artefacts |-> 0] /\ pc = "verify" /\ queue = Snapshots
        /\ outcomes = <<>>
    BY DEF ReconstructInit, Fresh
  <1>2. "report" \in Artefacts /\ Tables \subseteq Artefacts /\ DOMAIN outcomes = {}
    BY <1>1 DEF Artefacts, Tables
  <1> QED
    BY <1>1, <1>2 DEF StudyInv, PublishInv, TakenInv, DocumentInv

\* The run goes on or ends without publishing anything.
LEMMA Onward ==
  ASSUME StudyInv, pc \notin {"publish", "done"}, pc' \notin {"publish", "done"},
         UNCHANGED <<run, out, queue, outcomes>>
  PROVE  StudyInv'
  BY DEF StudyInv, PublishInv, TakenInv, DocumentInv, SnapshotOK

\* Nothing that the invariant speaks of changes.
LEMMA Untouched ==
  ASSUME StudyInv, UNCHANGED <<pc, run, out, queue, outcomes, document, pending>>
  PROVE  StudyInv'
  BY DEF StudyInv, PublishInv, OwedInv, TakenInv, DocumentInv, SnapshotOK

LEMMA EndsStep ==
  ASSUME StudyInv, NEW how, how \notin {"publish", "done"}, Ends(how), pc # "done"
  PROVE  StudyInv'
  <1>1. pc' = how /\ UNCHANGED <<run, out, queue, outcomes>>
    BY DEF Ends, study
  <1> QED
    BY <1>1 DEF StudyInv, PublishInv, TakenInv, DocumentInv, SnapshotOK

LEMMA PublicationOwes ==
  ASSUME NEW figures \in SUBSET Figures
  PROVE  LET P == Publication(figures) IN
         /\ P \in Seq(Artefacts) /\ P # <<>>
         /\ \A i \in 1..Len(P) : P[i] = "report" <=> i = Len(P)
         /\ \A a \in Tables \cup figures : \E i \in 1..Len(P) : P[i] = a
  <1>1. PICK N, s : N = Cardinality(figures) /\ s = Sorted(figures)
    OBVIOUS
  <1>2. N \in Nat /\ s \in [1..N -> figures] /\ \A f \in figures : \E n \in 1..N : s[n] = f
    BY <1>1, SortedHasAll
  <1>3. s \in Seq(Artefacts) /\ Len(s) = N
    BY <1>2 DEF Artefacts
  <1>4. PICK P : P = Publication(figures)
    OBVIOUS
  <1>5. P = <<"european_table", "american_table">> \o s \o <<"report">>
    BY <1>1, <1>4 DEF Publication
  <1>6. P \in Seq(Artefacts) /\ Len(P) = N + 3
    <2>1. <<"european_table", "american_table">> \in Seq(Artefacts) /\ <<"report">> \in Seq(Artefacts)
      BY DEF Artefacts
    <2> QED
      BY <1>2, <1>3, <1>5, <2>1
  <1>7. /\ P[1] = "european_table" /\ P[2] = "american_table" /\ P[N + 3] = "report"
        /\ \A n \in 1..N : P[n + 2] = s[n]
    BY <1>2, <1>3, <1>5
  <1>8. \A i \in 1..(N + 3) : i = 1 \/ i = 2 \/ i = N + 3 \/ \E n \in 1..N : i = n + 2
    <2> TAKE i \in 1..(N + 3)
    <2>1. CASE i > 2 /\ i < N + 3
      <3>1. i - 2 \in 1..N /\ i = (i - 2) + 2
        BY <1>2, <2>1
      <3> QED
        BY <3>1
    <2> QED
      BY <1>2, <2>1
  <1>9. \A n \in 1..N : s[n] # "report"
    BY <1>2 DEF Figures
  <1>10. \A i \in 1..(N + 3) : P[i] = "report" <=> i = N + 3
    <2> TAKE i \in 1..(N + 3)
    <2>1. CASE i = 1 \/ i = 2
      BY <1>2, <1>7, <2>1
    <2>2. CASE i = N + 3
      BY <1>7, <2>2
    <2>3. CASE \E n \in 1..N : i = n + 2
      <3>1. PICK n \in 1..N : i = n + 2
        BY <2>3
      <3>2. P[i] = s[n] /\ i # N + 3
        BY <1>2, <1>7, <3>1
      <3> QED
        BY <1>9, <3>2
    <2> QED
      BY <1>8, <2>1, <2>2, <2>3
  <1>11. ASSUME NEW a \in Tables \cup figures PROVE \E i \in 1..(N + 3) : P[i] = a
    <2>1. CASE a \in Tables
      <3>1. 1 \in 1..(N + 3) /\ 2 \in 1..(N + 3)
        BY <1>2
      <3> QED
        BY <1>7, <2>1, <3>1 DEF Tables
    <2>2. CASE a \in figures
      <3>1. PICK n \in 1..N : s[n] = a
        BY <1>2, <2>2
      <3>2. n + 2 \in 1..(N + 3) /\ P[n + 2] = a
        BY <1>2, <1>7, <3>1
      <3> QED
        BY <3>2
    <2> QED
      BY <2>1, <2>2
  <1> QED
    BY <1>2, <1>4, <1>6, <1>10, <1>11

LEMMA FiguresOnly == \A taken : BuildFigures(taken) \subseteq Figures
  BY DEF BuildFigures, Figures

LEMMA AggregateStep ==
  ASSUME StudyInv, Aggregate
  PROVE  StudyInv'
  <1>1. CASE ~agrees["fred"]
    BY <1>1, EndsStep DEF Aggregate
  <1>2. CASE agrees["fred"]
    <2>1. PICK figures : figures = BuildFigures(outcomes)
      OBVIOUS
    <2>2. /\ pc = "session" /\ pc' = "publish" /\ pending' = Publication(figures)
          /\ UNCHANGED <<run, out, queue, outcomes>>
          /\ document'.figures = figures
      BY <1>2, <2>1 DEF Aggregate
    <2>3. /\ document'.facts.spread = DiscountWithin(outcomes).median
          /\ document'.facts.intraday = DiscountAcross(outcomes).median
          /\ document'.facts.contaminated = StrikeDependence(outcomes)
          /\ document'.carry = CarryWithin(outcomes)
          /\ document'.transitions = Transitions(outcomes)
          /\ document'.rates = RateRows(outcomes)
      <3>1. PICK facts : /\ facts = MeasureFacts(outcomes,
                                      [s \in Sessions |-> universes[s]["american"]], probes)
                         /\ document'.facts = facts
        BY <1>2 DEF Aggregate
      <3>2. /\ facts.spread = DiscountWithin(outcomes).median
            /\ facts.intraday = DiscountAcross(outcomes).median
            /\ facts.contaminated = StrikeDependence(outcomes)
        BY <3>1 DEF MeasureFacts
      <3>3. /\ document'.carry = CarryWithin(outcomes)
            /\ document'.transitions = Transitions(outcomes)
            /\ document'.rates = RateRows(outcomes)
        BY <1>2 DEF Aggregate
      <3> QED
        BY <3>1, <3>2, <3>3
    <2>4. figures \subseteq Figures
      BY <2>1, FiguresOnly
    <2>5. /\ pending' \in Seq(Artefacts) /\ pending' # <<>>
          /\ \A i \in 1..Len(pending') : pending'[i] = "report" <=> i = Len(pending')
          /\ \A a \in Tables \cup figures : \E i \in 1..Len(pending') : pending'[i] = a
      BY <2>2, <2>4, PublicationOwes
    <2>6. PublishInv'
      BY <2>2, <2>4, <2>5 DEF StudyInv, PublishInv, OwedInv
    <2>7. TakenInv'
      BY <2>2 DEF StudyInv, TakenInv, SnapshotOK
    <2>8. DocumentInv'
      BY <2>2, <2>3 DEF DocumentInv
    <2> QED
      BY <2>6, <2>7, <2>8 DEF StudyInv
  <1> QED
    BY <1>1, <1>2

LEMMA PublishStep ==
  ASSUME StudyInv, Publish
  PROVE  StudyInv'
  <1>1. CASE Ends("failed")
    BY <1>1, EndsStep DEF Publish
  <1>2. CASE ~Ends("failed")
    <2>1. /\ pc = "publish" /\ pending # <<>>
          /\ out' = [out EXCEPT ![Head(pending)] = run] /\ pending' = Tail(pending)
          /\ pc' = IF Len(pending) = 1 THEN "done" ELSE "publish"
          /\ UNCHANGED <<run, queue, outcomes, document>>
      BY <1>2 DEF Publish, study
    <2>2. PICK n, h, fs : n = Len(pending) /\ h = pending[1] /\ fs = document.figures
      OBVIOUS
    <2>3. /\ pending \in Seq(Artefacts) /\ n \in Nat /\ n >= 1 /\ h \in Artefacts
          /\ Head(pending) = h /\ Len(Tail(pending)) = n - 1
          /\ \A i \in 1..(n - 1) : Tail(pending)[i] = pending[i + 1]
          /\ \A i \in 1..n : pending[i] = "report" <=> i = n
          /\ \A a \in Tables \cup fs : out[a] = run \/ \E i \in 1..n : pending[i] = a
          /\ fs \subseteq Figures
      BY <2>1, <2>2 DEF StudyInv, PublishInv, OwedInv
    <2>4. /\ run \in Nat /\ out \in [Artefacts -> Nat] /\ \A a \in Artefacts : out[a] <= run
          /\ \A a \in Tables : out[a] >= out["report"]
          /\ out["report"] # run
      BY <2>1 DEF StudyInv, PublishInv
    <2>5. \A a \in Artefacts : out'[a] = IF a = h THEN run ELSE out[a]
      BY <2>1, <2>3, <2>4
    <2>6. Tables \cup fs \subseteq Artefacts /\ "report" \in Artefacts /\ "report" \notin Tables
      BY <2>3 DEF Tables, Artefacts
    <2>7. ASSUME NEW a \in Tables \cup fs
          PROVE  out'[a] = run \/ \E i \in 1..(n - 1) : Tail(pending)[i] = a
      <3>1. CASE out[a] = run \/ a = h
        BY <2>5, <2>6, <3>1
      <3>2. CASE \E i \in 1..n : pending[i] = a /\ i # 1
        <4>1. PICK i \in 1..n : pending[i] = a /\ i # 1
          BY <3>2
        <4>2. i - 1 \in 1..(n - 1) /\ Tail(pending)[i - 1] = pending[(i - 1) + 1] /\ (i - 1) + 1 = i
          BY <2>3, <4>1
        <4> QED
          BY <4>1, <4>2
      <3> QED
        BY <2>2, <2>3, <3>1, <3>2
    <2>8. /\ run' \in Nat /\ out' \in [Artefacts -> Nat] /\ \A a \in Artefacts : out'[a] <= run
      BY <2>1, <2>3, <2>4, <2>5
    <2>9. CASE n = 1
      <3>1. h = "report" /\ pc' = "done" /\ 1..(n - 1) = {}
        BY <2>1, <2>2, <2>3, <2>9
      <3>2. \A a \in Tables \cup fs : out'[a] = run
        BY <2>7, <3>1
      <3>3. \A a \in Tables : out'[a] >= out'["report"]
        BY <2>4, <2>5, <2>6, <3>1, <3>2
      <3>4. PublishInv'
        BY <2>1, <2>2, <2>8, <3>1, <3>2, <3>3 DEF PublishInv
      <3> QED
        BY <2>1, <3>1, <3>4 DEF StudyInv, TakenInv, DocumentInv, SnapshotOK
    <2>10. CASE n # 1
      <3>1. h # "report" /\ pc' = "publish"
        BY <2>1, <2>2, <2>3, <2>10
      <3>2. out'["report"] = out["report"]
        BY <2>5, <2>6, <3>1
      <3>3. \A a \in Tables : out'[a] >= out'["report"]
        BY <2>4, <2>5, <2>6, <3>2
      <3>4. /\ Tail(pending) \in Seq(Artefacts) /\ Tail(pending) # <<>>
            /\ \A i \in 1..(n - 1) : Tail(pending)[i] = "report" <=> i = n - 1
        <4>1. \A i \in 1..(n - 1) : i + 1 \in 1..n /\ (i + 1 = n <=> i = n - 1)
          BY <2>3
        <4>2. Len(Tail(pending)) # 0 /\ Len(<<>>) = 0
          BY <2>3, <2>10
        <4>3. Tail(pending) \in Seq(Artefacts)
          BY <2>1, <2>3
        <4> QED
          BY <2>3, <4>1, <4>2, <4>3
      <3>5. OwedInv'
        BY <2>1, <2>2, <2>3, <2>7, <3>4 DEF OwedInv
      <3>6. PublishInv'
        BY <2>1, <2>2, <2>3, <2>4, <2>8, <3>1, <3>2, <3>3, <3>5 DEF PublishInv
      <3>7. DocumentInv'
        BY <2>1, <3>1 DEF StudyInv, DocumentInv
      <3> QED
        BY <2>1, <3>6, <3>7 DEF StudyInv, TakenInv, SnapshotOK
    <2> QED
      BY <2>9, <2>10
  <1> QED
    BY <1>1, <1>2

LEMMA AgainStep ==
  ASSUME StudyInv, Again
  PROVE  StudyInv'
  <1>1. /\ pc' = "verify" /\ run' = run + 1 /\ out' = out /\ queue' = Snapshots
        /\ outcomes' = <<>>
    BY DEF Again
  <1>2. PublishInv'
    <2>1. "report" \in Artefacts
      BY DEF Artefacts
    <2> QED
      BY <1>1, <2>1 DEF StudyInv, PublishInv
  <1>3. DOMAIN outcomes' = {}
    BY <1>1
  <1> QED
    BY <1>1, <1>2, <1>3 DEF StudyInv, TakenInv, DocumentInv

-----------------------------------------------------------------------------
(* What a snapshot contains.                                                *)

LEMMA BaselineIsFitted == <<Widest, Baseline>> \in Widths \X Methods
  <1>1. Percents \in Seq(Nat \ {0}) /\ Percents # <<>>
    BY MarketAssumption
  <1>2. Len(Percents) \in DOMAIN Percents
    BY <1>1
  <1> QED
    BY <1>2 DEF Widest, Widths, Range, Baseline, Methods

\* The discount factor of an expiry of the session's own day is never read as a rate.
LEMMA SameDayWithheld ==
  ASSUME NEW pairs, NEW method, NEW tau
  PROVE  ~Interpretable(Fit(pairs, method, tau, TRUE))
  <1>1. \A w \in WithholdingReasons : w # NoValue
    BY ParityAssumption
  <1>2. \A w : Degenerate(pairs, w).withheld = w
    BY DEF Degenerate
  <1>3. ASSUME NEW line, NEW discount
        PROVE  Interpreted(pairs, line, discount, tau, TRUE).withheld \in WithholdingReasons
    BY DEF Interpreted, RateWithheld, WithholdingReasons
  <1>4. Fit(pairs, method, tau, TRUE).withheld \in WithholdingReasons
    BY <1>2, <1>3 DEF Fit, FitOn, WithholdingReasons
  <1> QED
    BY <1>1, <1>4 DEF Interpretable

LEMMA SnapshotTaken ==
  ASSUME NEW a, NEW i, NEW u, NEW rows, RunSnapshot(a[1], i, u, rows) # NoValue
  PROVE  SnapshotOK(a, RunSnapshot(a[1], i, u, rows))
  <1>1. PICK o : o = RunSnapshot(a[1], i, u, rows)
    OBVIOUS
  <1>2. PICK spot, european, american :
           o = SnapshotOf(a[1], Instant(a[1], i), spot, european, american,
                          ReconstructExpiries(european, Instant(a[1], i), a[1]))
    BY <1>1 DEF RunSnapshot, TakenFrom
  <1>3. /\ o = [spot |-> o.spot, european |-> o.european, pairs |-> o.pairs,
                american |-> o.american]
        /\ o.european = ReconstructExpiries(european, Instant(a[1], i), a[1])
    BY <1>2 DEF SnapshotOf
  <1>4. ASSUME NEW e \in DOMAIN o.european, ZeroDte(e, a[1])
        PROVE  ~Interpretable(o.european[e].fits[<<Widest, Baseline>>])
    <2>1. PICK pairs, method, tau, zero :
             /\ o.european[e].fits[<<Widest, Baseline>>] = Fit(pairs, method, tau, zero)
             /\ zero = ZeroDte(e, a[1])
      BY <1>3, BaselineIsFitted DEF ReconstructExpiries
    <2>2. o.european[e].fits[<<Widest, Baseline>>] = Fit(pairs, method, tau, TRUE)
      BY <1>4, <2>1
    <2> QED
      BY <2>2, SameDayWithheld
  <1> QED
    BY <1>1, <1>3, <1>4 DEF SnapshotOK

LEMMA TakeStep ==
  ASSUME StudyInv, TakeSnapshot
  PROVE  StudyInv'
  <1>1. PICK o, rows : /\ rows = [p \in {"european", "american", "underlying"} |->
                                    Content(<<Next1[1], p, "quotes">>)]
                       /\ o = RunSnapshot(Next1[1], Next1[2], universes[Next1[1]], rows)
    OBVIOUS
  <1>2. CASE o = NoValue
    BY <1>1, <1>2, EndsStep DEF TakeSnapshot
  <1>3. CASE o # NoValue
    <2>1. /\ pc = "session" /\ queue # {}
          /\ outcomes' = [a \in DOMAIN outcomes \cup {Next1} |->
                             IF a = Next1 THEN o ELSE outcomes[a]]
          /\ queue' = Remaining(queue) /\ UNCHANGED <<pc, run, out, document, pending>>
      BY <1>1, <1>3 DEF TakeSnapshot
    <2>2. Next1 \in queue /\ queue \subseteq Snapshots
      BY <2>1, HeadOfQueue DEF StudyInv, TakenInv
    <2>3. SnapshotOK(Next1, o)
      BY <1>1, <1>3, SnapshotTaken
    <2>4. PublishInv' /\ DocumentInv'
      BY <2>1 DEF StudyInv, PublishInv, DocumentInv
    <2>5. queue' \subseteq Snapshots /\ DOMAIN outcomes' \subseteq Snapshots
      BY <2>1, <2>2 DEF StudyInv, TakenInv, Remaining
    <2>6. \A a \in DOMAIN outcomes' : SnapshotOK(a, outcomes'[a])
      BY <2>1, <2>3 DEF StudyInv, TakenInv
    <2> QED
      BY <2>4, <2>5, <2>6 DEF StudyInv, TakenInv, SnapshotOK
  <1> QED
    BY <1>2, <1>3

LEMMA StudyStep ==
  ASSUME StudyInv, [ReconstructNext]_vars
  PROVE  StudyInv'
  <1>1. CASE (\E t \in Slots : Replace(t)) \/ ReplaceReport \/ UNCHANGED vars
    BY <1>1, Untouched DEF Replace, ReplaceReport, vars, study
  <1>2. CASE Verify
    BY <1>2, EndsStep DEF Verify
  <1>3. CASE Parse
    <2>1. CASE Ends("provenance_error")
      BY <1>3, <2>1, EndsStep DEF Parse
    <2>2. CASE ~Ends("provenance_error")
      BY <1>3, <2>2, Onward DEF Parse
    <2> QED
      BY <2>1, <2>2
  <1>4. CASE LoadControls
    BY <1>4, Onward DEF LoadControls
  <1>5. CASE LoadUniverses
    <2>1. UNCHANGED <<pc, run, out, queue, outcomes, document, pending>>
      BY <1>5 DEF LoadUniverses
    <2> QED
      BY <2>1, Untouched
  <1>6. CASE Kill
    BY <1>6, EndsStep DEF Kill
  <1> QED
    BY <1>1, <1>2, <1>3, <1>4, <1>5, <1>6, TakeStep, AggregateStep, PublishStep, AgainStep
       DEF ReconstructNext

\* The invariant holds in every reachable state, for every archive and however
\* often the study is run over partitions that change underneath it.
THEOREM StudyInvariance == ReconstructSpec => []StudyInv
  BY StudyInitial, StudyStep, PTL DEF ReconstructSpec

\* The report on disk is never newer than a table or a figure of its run: what
\* is killed or fails leaves an older report beside newer files.
THEOREM ReportIsLast == ReconstructSpec => []ReportPublishedLast
  <1>1. StudyInv => ReportPublishedLast
    BY DEF StudyInv, PublishInv, ReportPublishedLast, Tables
  <1> QED
    BY <1>1, StudyInvariance, PTL


-----------------------------------------------------------------------------
(* Leaving the expiries of the session's own day out changes no aggregate.  *)

\* Both families of a snapshot, with and without the session's own day.
Thinned(all, some, session) ==
    /\ DOMAIN some = {e \in DOMAIN all : ~ZeroDte(e, session)}
    /\ \A e \in DOMAIN some : some[e] = all[e]

Thins(all, some) ==
    /\ DOMAIN some = DOMAIN all
    /\ \A a \in DOMAIN all :
          /\ a = <<a[1], a[2]>>
          /\ Thinned(all[a].european, some[a].european, a[1])
          /\ Thinned(all[a].american, some[a].american, a[1])
          /\ \A e \in DOMAIN all[a].european :
                ZeroDte(e, a[1]) => ~Interpretable(all[a].european[e].fits[<<Widest, Baseline>>])

LEMMA WithoutSameDayThins ==
  ASSUME TakenInv
  PROVE  Thins(outcomes, WithoutSameDay(outcomes))
  <1>1. \A f, S : DOMAIN Restrict(f, S) = S /\ \A e \in S : Restrict(f, S)[e] = f[e]
    BY DEF Restrict
  <1>2. \A f, s : Thinned(f, Restrict(f, {e \in DOMAIN f : ~(e <= s)}), s)
    BY <1>1 DEF Thinned, ZeroDte
  <1>3. DOMAIN WithoutSameDay(outcomes) = DOMAIN outcomes
    BY DEF WithoutSameDay
  <1>4. ASSUME NEW a \in DOMAIN outcomes
        PROVE  /\ a = <<a[1], a[2]>>
               /\ Thinned(outcomes[a].european, WithoutSameDay(outcomes)[a].european, a[1])
               /\ Thinned(outcomes[a].american, WithoutSameDay(outcomes)[a].american, a[1])
               /\ \A e \in DOMAIN outcomes[a].european : ZeroDte(e, a[1]) =>
                     ~Interpretable(outcomes[a].european[e].fits[<<Widest, Baseline>>])
    <2>1. a \in Snapshots /\ SnapshotOK(a, outcomes[a])
      BY DEF TakenInv
    <2>2. a = <<a[1], a[2]>>
      BY <2>1 DEF Snapshots
    <2>3. PICK o : o = outcomes[a]
      OBVIOUS
    <2>4. o = [spot |-> o.spot, european |-> o.european, pairs |-> o.pairs,
               american |-> o.american]
      BY <2>1, <2>3 DEF SnapshotOK
    <2>5. PICK E, A : /\ E = Restrict(o.european, {e \in DOMAIN o.european : ~(e <= a[1])})
                      /\ A = Restrict(o.american, {e \in DOMAIN o.american : ~(e <= a[1])})
      OBVIOUS
    <2>6. WithoutSameDay(outcomes)[a] = [o EXCEPT !.european = E, !.american = A]
      BY <2>3, <2>5 DEF WithoutSameDay
    <2>7. [o EXCEPT !.european = E, !.american = A].european = E
          /\ [o EXCEPT !.european = E, !.american = A].american = A
      BY <2>4
    <2> QED
      BY <1>2, <2>1, <2>2, <2>3, <2>5, <2>6, <2>7 DEF SnapshotOK
  <1> QED
    BY <1>3, <1>4 DEF Thins

\* The longer-dated cells are the same, and so is what is known of each.
LEMMA EuropeanCellsAgree ==
  ASSUME NEW all, NEW some, Thins(all, some)
  PROVE  /\ LongerDated(EuropeanCells(some)) = LongerDated(EuropeanCells(all))
         /\ \A c \in LongerDated(EuropeanCells(all)) :
               EuropeanOf(some, c) = EuropeanOf(all, c)
  <1>1. ASSUME NEW a \in DOMAIN all, NEW e
        PROVE  e \in DOMAIN some[a].european <=>
                   e \in DOMAIN all[a].european /\ ~ZeroDte(e, a[1])
    BY DEF Thins, Thinned
  <1>2. \A c \in LongerDated(EuropeanCells(all)) : \E a \in DOMAIN all :
           \E e \in DOMAIN some[a].european : c = <<a[1], a[2], e>>
    BY <1>1 DEF LongerDated, EuropeanCells
  <1>3. \A a \in DOMAIN all : \A e \in DOMAIN some[a].european :
           <<a[1], a[2], e>> \in LongerDated(EuropeanCells(some))
    BY <1>1 DEF LongerDated, EuropeanCells, Thins
  <1>4. \A c \in LongerDated(EuropeanCells(some)) : \E a \in DOMAIN all :
           \E e \in DOMAIN all[a].european : c = <<a[1], a[2], e>> /\ ~ZeroDte(e, a[1])
    BY <1>1 DEF LongerDated, EuropeanCells, Thins
  <1>5. \A a \in DOMAIN all : \A e \in DOMAIN all[a].european :
           ~ZeroDte(e, a[1]) => <<a[1], a[2], e>> \in LongerDated(EuropeanCells(all))
    BY DEF LongerDated, EuropeanCells
  <1>6. ASSUME NEW c \in LongerDated(EuropeanCells(all))
        PROVE  EuropeanOf(some, c) = EuropeanOf(all, c)
    <2>1. PICK a \in DOMAIN all : \E e \in DOMAIN some[a].european : c = <<a[1], a[2], e>>
      BY <1>2
    <2>2. PICK e \in DOMAIN some[a].european : c = <<a[1], a[2], e>>
      BY <2>1
    <2>3. <<c[1], c[2]>> = a /\ c[3] = e
      BY <2>2 DEF Thins
    <2> QED
      BY <2>3 DEF EuropeanOf, Thins, Thinned
  <1> QED
    BY <1>2, <1>3, <1>4, <1>5, <1>6

LEMMA AmericanCellsAgree ==
  ASSUME NEW all, NEW some, Thins(all, some)
  PROVE  /\ AmericanCells(some) = LongerDated(AmericanCells(all))
         /\ LongerDated(AmericanCells(some)) = LongerDated(AmericanCells(all))
         /\ \A c \in LongerDated(AmericanCells(all)) :
               AmericanOf(some, c) = AmericanOf(all, c)
  <1>1. ASSUME NEW a \in DOMAIN all, NEW e
        PROVE  e \in DOMAIN some[a].american <=>
                   e \in DOMAIN all[a].american /\ ~ZeroDte(e, a[1])
    BY DEF Thins, Thinned
  <1>2. \A c \in LongerDated(AmericanCells(all)) : \E a \in DOMAIN all :
           \E e \in DOMAIN some[a].american : c = <<a[1], a[2], e>>
    BY <1>1 DEF LongerDated, AmericanCells
  <1>3. \A a \in DOMAIN all : \A e \in DOMAIN some[a].american :
           /\ <<a[1], a[2], e>> \in AmericanCells(some)
           /\ <<a[1], a[2], e>> \in LongerDated(AmericanCells(some))
    BY <1>1 DEF LongerDated, AmericanCells, Thins
  <1>4. \A c \in AmericanCells(some) : \E a \in DOMAIN all :
           \E e \in DOMAIN all[a].american : c = <<a[1], a[2], e>> /\ ~ZeroDte(e, a[1])
    BY <1>1 DEF AmericanCells, Thins
  <1>5. \A a \in DOMAIN all : \A e \in DOMAIN all[a].american :
           ~ZeroDte(e, a[1]) => <<a[1], a[2], e>> \in LongerDated(AmericanCells(all))
    BY DEF LongerDated, AmericanCells
  <1>6. ASSUME NEW c \in LongerDated(AmericanCells(all))
        PROVE  AmericanOf(some, c) = AmericanOf(all, c)
    <2>1. PICK a \in DOMAIN all : \E e \in DOMAIN some[a].american : c = <<a[1], a[2], e>>
      BY <1>2
    <2>2. PICK e \in DOMAIN some[a].american : c = <<a[1], a[2], e>>
      BY <2>1
    <2>3. <<c[1], c[2]>> = a /\ c[3] = e
      BY <2>2 DEF Thins
    <2> QED
      BY <2>3 DEF AmericanOf, Thins, Thinned
  <1>7. LongerDated(AmericanCells(some)) \subseteq AmericanCells(some)
    BY DEF LongerDated
  <1>8. AmericanCells(some) \subseteq LongerDated(AmericanCells(all))
    BY <1>4, <1>5
  <1>9. LongerDated(AmericanCells(all)) \subseteq LongerDated(AmericanCells(some))
    BY <1>2, <1>3
  <1> QED
    BY <1>6, <1>7, <1>8, <1>9


LEMMA DiscountWithinAgrees ==
  ASSUME NEW all, NEW some, Thins(all, some)
  PROVE  DiscountWithin(some) = DiscountWithin(all)
  <1>1. PICK cells : cells = LongerDated(EuropeanCells(all))
    OBVIOUS
  <1>2. LongerDated(EuropeanCells(some)) = cells
        /\ \A c \in cells : Fits(some, c) = Fits(all, c)
    BY <1>1, EuropeanCellsAgree DEF Fits
  <1>3. PICK S : S = {c \in cells : ValidCount(Fits(all, c)) > 1}
    OBVIOUS
  <1>4. {c \in cells : ValidCount(Fits(some, c)) > 1} = S
    BY <1>2, <1>3
  <1>5. [c \in S |-> Spread(ValidDiscounts(Fits(some, c)))]
           = [c \in S |-> Spread(ValidDiscounts(Fits(all, c)))]
    BY <1>2, <1>3
  <1>6. DiscountWithin(some) = Dispersion([c \in S |-> Spread(ValidDiscounts(Fits(some, c)))])
    BY <1>2, <1>4 DEF DiscountWithin
  <1>7. DiscountWithin(all) = Dispersion([c \in S |-> Spread(ValidDiscounts(Fits(all, c)))])
    BY <1>1, <1>3 DEF DiscountWithin
  <1> QED
    BY <1>5, <1>6, <1>7

LEMMA DiscountAcrossAgrees ==
  ASSUME NEW all, NEW some, Thins(all, some)
  PROVE  DiscountAcross(some) = DiscountAcross(all)
  <1>1. PICK cells : cells = LongerDated(EuropeanCells(all))
    OBVIOUS
  <1>2. LongerDated(EuropeanCells(some)) = cells
        /\ \A c \in cells : Fits(some, c) = Fits(all, c)
    BY <1>1, EuropeanCellsAgree DEF Fits
  <1>3. PICK G : G = {{d \in cells : d[1] = c[1] /\ d[3] = c[3]} : c \in cells}
    OBVIOUS
  <1>4. \A g \in G : g \subseteq cells
    BY <1>3
  <1>5. \A g \in G : Estimates(some, g) = Estimates(all, g)
    <2> TAKE g \in G
    <2>1. \A d \in g : Fits(some, d) = Fits(all, d)
      BY <1>2, <1>4
    <2> QED
      BY <2>1 DEF Estimates
  <1>6. \A g \in G : UNION {ValidDiscounts(Fits(some, d)) : d \in g}
                        = UNION {ValidDiscounts(Fits(all, d)) : d \in g}
    <2> TAKE g \in G
    <2>1. \A d \in g : Fits(some, d) = Fits(all, d)
      BY <1>2, <1>4
    <2> QED
      BY <2>1
  <1>7. PICK H : H = {g \in G : Cardinality(Estimates(all, g)) > 1}
    OBVIOUS
  <1>8. {g \in G : Cardinality(Estimates(some, g)) > 1} = H
    BY <1>5, <1>7
  <1>9. [g \in H |-> Spread(UNION {ValidDiscounts(Fits(some, d)) : d \in g})]
           = [g \in H |-> Spread(UNION {ValidDiscounts(Fits(all, d)) : d \in g})]
    BY <1>6, <1>7
  <1>10. DiscountAcross(some)
            = Dispersion([g \in H |-> Spread(UNION {ValidDiscounts(Fits(some, d)) : d \in g})])
    <2>1. PICK same : same = LongerDated(EuropeanCells(some))
      OBVIOUS
    <2>2. same = cells
      BY <1>2, <2>1
    <2>3. PICK K : K = {{d \in same : d[1] = c[1] /\ d[3] = c[3]} : c \in same}
      OBVIOUS
    <2>4. PICK L : L = {g \in K : Cardinality(Estimates(some, g)) > 1}
      OBVIOUS
    <2>5. DiscountAcross(some)
             = Dispersion([g \in L |-> Spread(UNION {ValidDiscounts(Fits(some, d)) : d \in g})])
      BY <2>1, <2>3, <2>4 DEF DiscountAcross
    <2>6. K = G
      BY <1>3, <2>2, <2>3
    <2>7. L = H
      BY <1>8, <2>4, <2>6
    <2> QED
      BY <2>5, <2>7
  <1>11. DiscountAcross(all)
            = Dispersion([g \in H |-> Spread(UNION {ValidDiscounts(Fits(all, d)) : d \in g})])
    BY <1>1, <1>3, <1>7 DEF DiscountAcross
  <1> QED
    BY <1>9, <1>10, <1>11

LEMMA CarryWithinAgrees ==
  ASSUME NEW all, NEW some, Thins(all, some)
  PROVE  CarryWithin(some) = CarryWithin(all)
  <1>1. PICK cells : cells = LongerDated(AmericanCells(all))
    OBVIOUS
  <1>2. LongerDated(AmericanCells(some)) = cells
        /\ \A c \in cells : Residuals(some, c) = Residuals(all, c)
    BY <1>1, AmericanCellsAgree DEF Residuals
  <1>3. PICK S : S = {c \in cells : MidCount(Residuals(all, c)) > 1}
    OBVIOUS
  <1>4. {c \in cells : MidCount(Residuals(some, c)) > 1} = S
    BY <1>2, <1>3
  <1>5. [c \in S |-> Spread(MidResiduals(Residuals(some, c)))]
           = [c \in S |-> Spread(MidResiduals(Residuals(all, c)))]
    BY <1>2, <1>3
  <1>6. CarryWithin(some) = Dispersion([c \in S |-> Spread(MidResiduals(Residuals(some, c)))])
    BY <1>2, <1>4 DEF CarryWithin
  <1>7. CarryWithin(all) = Dispersion([c \in S |-> Spread(MidResiduals(Residuals(all, c)))])
    BY <1>1, <1>3 DEF CarryWithin
  <1> QED
    BY <1>5, <1>6, <1>7

LEMMA StrikeDependenceAgrees ==
  ASSUME NEW all, NEW some, Thins(all, some)
  PROVE  StrikeDependence(some) = StrikeDependence(all)
  <1>1. PICK cells : cells = LongerDated(AmericanCells(all))
    OBVIOUS
  <1>2. LongerDated(AmericanCells(some)) = cells
        /\ \A c \in cells : AmericanOf(some, c) = AmericanOf(all, c)
    BY <1>1, AmericanCellsAgree
  <1>3. [c \in cells |-> IF AmericanOf(some, c).slope = NoValue THEN NoValue
                         ELSE Magnitude(AmericanOf(some, c).slope)]
           = [c \in cells |-> IF AmericanOf(all, c).slope = NoValue THEN NoValue
                              ELSE Magnitude(AmericanOf(all, c).slope)]
    BY <1>2
  <1>4. [c \in cells |-> IF AmericanOf(some, c).control = NoValue THEN NoValue
                         ELSE Magnitude(AmericanOf(some, c).control)]
           = [c \in cells |-> IF AmericanOf(all, c).control = NoValue THEN NoValue
                              ELSE Magnitude(AmericanOf(all, c).control)]
    BY <1>2
  <1> QED
    BY <1>1, <1>2, <1>3, <1>4 DEF StrikeDependence

\* A rate is read only where the expiry is longer-dated.
LEMMA RateRowsAgree ==
  ASSUME NEW all, NEW some, Thins(all, some)
  PROVE  RateRows(some) = RateRows(all)
  <1>1. PICK cells : cells = LongerDated(EuropeanCells(all))
    OBVIOUS
  <1>2. LongerDated(EuropeanCells(some)) = cells
        /\ \A c \in cells : EuropeanOf(some, c) = EuropeanOf(all, c)
    BY <1>1, EuropeanCellsAgree
  <1>3. cells \subseteq EuropeanCells(all) /\ cells \subseteq EuropeanCells(some)
    BY <1>1, <1>2 DEF LongerDated
  <1>4. \A c \in EuropeanCells(some) : c \in cells
    <2> TAKE c \in EuropeanCells(some)
    <2>1. PICK a \in DOMAIN some : \E e \in DOMAIN some[a].european : c = <<a[1], a[2], e>>
      BY DEF EuropeanCells
    <2>2. PICK e \in DOMAIN some[a].european : c = <<a[1], a[2], e>>
      BY <2>1
    <2>3. ~ZeroDte(e, a[1])
      BY <2>1, <2>2 DEF Thins, Thinned
    <2>4. c \in LongerDated(EuropeanCells(some))
      BY <2>2, <2>3 DEF LongerDated
    <2> QED
      BY <1>2, <2>4
  <1>5. \A c \in EuropeanCells(all) :
           Interpretable(Fits(all, c)[<<Widest, Baseline>>]) => c \in cells
    <2> TAKE c \in EuropeanCells(all)
    <2> HAVE Interpretable(Fits(all, c)[<<Widest, Baseline>>])
    <2>1. PICK a \in DOMAIN all : \E e \in DOMAIN all[a].european : c = <<a[1], a[2], e>>
      BY DEF EuropeanCells
    <2>2. PICK e \in DOMAIN all[a].european : c = <<a[1], a[2], e>>
      BY <2>1
    <2>3. <<c[1], c[2]>> = a /\ c[3] = e /\ c[1] = a[1]
      BY <2>2 DEF Thins
    <2>4. ~ZeroDte(c[3], c[1])
      BY <2>2, <2>3 DEF Thins, Fits, EuropeanOf
    <2> QED
      BY <1>1, <2>4 DEF LongerDated
  <1>6. \A a : RateTaus(some, a) = RateTaus(all, a)
    <2> TAKE a
    <2>1. \A c \in cells : Fits(some, c) = Fits(all, c)
      BY <1>2 DEF Fits
    <2>2. {x \in EuropeanCells(some) :
              <<x[1], x[2]>> = a /\ Interpretable(Fits(some, x)[<<Widest, Baseline>>])}
          = {x \in cells :
              <<x[1], x[2]>> = a /\ Interpretable(Fits(all, x)[<<Widest, Baseline>>])}
      BY <1>3, <1>4, <2>1
    <2>3. {x \in EuropeanCells(all) :
              <<x[1], x[2]>> = a /\ Interpretable(Fits(all, x)[<<Widest, Baseline>>])}
          = {x \in cells :
              <<x[1], x[2]>> = a /\ Interpretable(Fits(all, x)[<<Widest, Baseline>>])}
      BY <1>3, <1>5
    <2> QED
      BY <1>2, <2>2, <2>3 DEF RateTaus
  <1>7. DOMAIN some = DOMAIN all
    BY DEF Thins
  <1> QED
    BY <1>6, <1>7 DEF RateRows


\* No expiry but a longer-dated one has a median residual in any session.
LEMMA UnseenHasNoMedian ==
  ASSUME NEW all, NEW session, NEW expiry,
         \A c \in LongerDated(AmericanCells(all)) : c[3] # expiry
  PROVE  SessionMedian(all, session, expiry) = NoValue
  <1>1. PICK cells : cells = {c \in LongerDated(AmericanCells(all)) :
                                 c[1] = session /\ c[3] = expiry}
    OBVIOUS
  <1>2. cells = {}
    BY <1>1
  <1>3. PICK keys : keys = UNION {{<<c, k>> : k \in {j \in DOMAIN Residuals(all, c) :
                       j[3] = "mid" /\ Residuals(all, c)[j].diagnostics = {}}} : c \in cells}
    OBVIOUS
  <1>4. keys = {}
    BY <1>2, <1>3
  <1>5. PICK f : f = [ck \in keys |-> Residuals(all, ck[1])[ck[2]].value]
    OBVIOUS
  <1>6. SessionMedian(all, session, expiry) = Dispersion(f).median
    BY <1>1, <1>3, <1>5 DEF SessionMedian
  <1>7. DOMAIN f = {}
    BY <1>4, <1>5
  <1>8. DOMAIN Restrict(f, {i \in DOMAIN f : f[i] # NoValue}) = {}
    BY <1>7 DEF Restrict
  <1> QED
    BY <1>6, <1>8 DEF Dispersion

LEMMA SessionMedianAgrees ==
  ASSUME NEW all, NEW some, Thins(all, some), NEW session, NEW expiry
  PROVE  SessionMedian(some, session, expiry) = SessionMedian(all, session, expiry)
  <1>1. PICK cells : cells = {c \in LongerDated(AmericanCells(all)) :
                                 c[1] = session /\ c[3] = expiry}
    OBVIOUS
  <1>2. PICK same : same = {c \in LongerDated(AmericanCells(some)) :
                                 c[1] = session /\ c[3] = expiry}
    OBVIOUS
  <1>3. same = cells /\ \A c \in cells : Residuals(some, c) = Residuals(all, c)
    BY <1>1, <1>2, AmericanCellsAgree DEF Residuals
  <1>4. PICK keys : keys = UNION {{<<c, k>> : k \in {j \in DOMAIN Residuals(all, c) :
                       j[3] = "mid" /\ Residuals(all, c)[j].diagnostics = {}}} : c \in cells}
    OBVIOUS
  <1>5. PICK ours : ours = UNION {{<<c, k>> : k \in {j \in DOMAIN Residuals(some, c) :
                       j[3] = "mid" /\ Residuals(some, c)[j].diagnostics = {}}} : c \in same}
    OBVIOUS
  <1>6. ours = keys
    BY <1>3, <1>4, <1>5
  <1>7. \A ck \in keys : ck[1] \in cells
    BY <1>4
  <1>8. [ck \in keys |-> Residuals(some, ck[1])[ck[2]].value]
           = [ck \in keys |-> Residuals(all, ck[1])[ck[2]].value]
    BY <1>3, <1>7
  <1>9. SessionMedian(some, session, expiry)
           = Dispersion([ck \in ours |-> Residuals(some, ck[1])[ck[2]].value]).median
    BY <1>2, <1>5 DEF SessionMedian
  <1>10. SessionMedian(all, session, expiry)
            = Dispersion([ck \in keys |-> Residuals(all, ck[1])[ck[2]].value]).median
    BY <1>1, <1>4 DEF SessionMedian
  <1> QED
    BY <1>6, <1>8, <1>9, <1>10

\* A value that is not there weighs nothing in a median.
LEMMA DispersionDrops ==
  ASSUME NEW f, NEW g, DOMAIN g \subseteq DOMAIN f, \A i \in DOMAIN g : g[i] = f[i],
         \A i \in DOMAIN f \ DOMAIN g : f[i] = NoValue
  PROVE  Dispersion(f) = Dispersion(g)
  <1>1. {i \in DOMAIN f : f[i] # NoValue} = {i \in DOMAIN g : g[i] # NoValue}
    OBVIOUS
  <1>2. Restrict(f, {i \in DOMAIN f : f[i] # NoValue})
           = Restrict(g, {i \in DOMAIN g : g[i] # NoValue})
    BY <1>1 DEF Restrict
  <1> QED
    BY <1>2 DEF Dispersion


LEMMA TransitionsAgree ==
  ASSUME NEW all, NEW some, Thins(all, some)
  PROVE  Transitions(some) = Transitions(all)
  <1>1. PICK E, F : /\ E = {c[3] : c \in AmericanCells(all)}
                    /\ F = {c[3] : c \in AmericanCells(some)}
    OBVIOUS
  <1>2. AmericanCells(some) = LongerDated(AmericanCells(all))
    BY AmericanCellsAgree
  <1>3. F \subseteq E
    BY <1>1, <1>2 DEF LongerDated
  <1>4. \A st, e : MedianStep(some, st, e) = MedianStep(all, st, e)
    BY SessionMedianAgrees DEF MedianStep
  <1>5. ASSUME NEW st, NEW e \in E \ F
        PROVE  MedianStep(all, st, e) = NoValue
    <2>1. \A c \in LongerDated(AmericanCells(all)) : c[3] # e
      BY <1>1, <1>2, <1>5
    <2>2. SessionMedian(all, st[1], e) = NoValue
      BY <2>1, UnseenHasNoMedian
    <2> QED
      BY <2>2 DEF MedianStep
  <1>6. PICK O : O = {a[1] : a \in DOMAIN all}
    OBVIOUS
  <1>7. {a[1] : a \in DOMAIN some} = O
    BY <1>6 DEF Thins
  <1>8. PICK C : C = {st \in O \X O : Following(st[1], st[2])
                         /\ \E e \in E : MedianStep(all, st, e) # NoValue}
    OBVIOUS
  <1>9. PICK D : D = {st \in O \X O : Following(st[1], st[2])
                         /\ \E e \in F : MedianStep(some, st, e) # NoValue}
    OBVIOUS
  <1>10. C = D
    BY <1>3, <1>4, <1>5, <1>8, <1>9
  <1>11. ASSUME NEW st
         PROVE  Dispersion([e \in E |-> MedianStep(all, st, e)])
                   = Dispersion([e \in F |-> MedianStep(some, st, e)])
    <2>1. PICK f, g : /\ f = [e \in E |-> MedianStep(all, st, e)]
                      /\ g = [e \in F |-> MedianStep(some, st, e)]
      OBVIOUS
    <2>2. DOMAIN f = E /\ DOMAIN g = F
      BY <2>1
    <2>3. \A e \in F : g[e] = f[e]
      BY <1>3, <1>4, <2>1
    <2>4. \A e \in E \ F : f[e] = NoValue
      BY <1>5, <2>1
    <2>5. Dispersion(f) = Dispersion(g)
      BY <1>3, <2>2, <2>3, <2>4, DispersionDrops
    <2> QED
      BY <2>1, <2>5
  <1>12. Transitions(all) = [st \in C |-> [crosses |-> CrossesExDate(st[1], st[2]),
            change |-> Dispersion([e \in E |-> MedianStep(all, st, e)]).median]]
    BY <1>1, <1>6, <1>8 DEF Transitions
  <1>13. Transitions(some) = [st \in D |-> [crosses |-> CrossesExDate(st[1], st[2]),
            change |-> Dispersion([e \in F |-> MedianStep(some, st, e)]).median]]
    BY <1>1, <1>7, <1>9 DEF Transitions
  <1>14. [st \in C |-> [crosses |-> CrossesExDate(st[1], st[2]),
            change |-> Dispersion([e \in E |-> MedianStep(all, st, e)]).median]]
         = [st \in C |-> [crosses |-> CrossesExDate(st[1], st[2]),
            change |-> Dispersion([e \in F |-> MedianStep(some, st, e)]).median]]
    BY <1>11
  <1> QED
    BY <1>10, <1>12, <1>13, <1>14

\* What the document says of spreads, residuals, transitions and rates, a study
\* that never saw a same-session expiry would have said too.
THEOREM SameDayIsExcluded == ReconstructSpec => []SameDayExpiriesExcluded
  <1>1. StudyInv => SameDayExpiriesExcluded
    <2> SUFFICES ASSUME StudyInv, Computed PROVE SameDayExpiriesExcluded
      BY DEF SameDayExpiriesExcluded
    <2>1. PICK W : W = WithoutSameDay(outcomes)
      OBVIOUS
    <2>2. Thins(outcomes, W)
      BY <2>1, WithoutSameDayThins DEF StudyInv
    <2>3. /\ document.facts.spread = DiscountWithin(outcomes).median
          /\ document.facts.intraday = DiscountAcross(outcomes).median
          /\ document.facts.contaminated = StrikeDependence(outcomes)
          /\ document.carry = CarryWithin(outcomes)
          /\ document.transitions = Transitions(outcomes)
          /\ document.rates = RateRows(outcomes)
      BY DEF StudyInv, DocumentInv, Computed
    <2> QED
      BY <2>1, <2>2, <2>3, DiscountWithinAgrees, DiscountAcrossAgrees, CarryWithinAgrees,
         StrikeDependenceAgrees, RateRowsAgree, TransitionsAgree DEF SameDayExpiriesExcluded
  <1> QED
    BY <1>1, StudyInvariance, PTL
=============================================================================
