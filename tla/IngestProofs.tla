---------------------------- MODULE IngestProofs ----------------------------
(***************************************************************************)
(* What an ingestion leaves under the processed root and in its report, for *)
(* every archive, every batch size and record limit, and every point at     *)
(* which a call fails or the process dies.                                  *)
(***************************************************************************)
EXTENDS Ingest, TLAPS, FiniteSetTheorems

-----------------------------------------------------------------------------
(* The inductive invariant.                                                 *)

Running == pc \notin {"verify", "aborted", "killed"}
Active == pc \in {"define", "rows", "open", "read", "exit"}
Writing == pc \in {"rows", "read", "exit"}

ProgressInv ==
    /\ archive \in Archives /\ limit \in RecordLimits /\ pc \in Stages
    /\ todo \subseteq Inputs(archive) /\ failures \subseteq Inputs(archive) \ todo
    /\ pc = "verify" => failures = {} /\ results = <<>>
    /\ Active => src \in Inputs(archive) \ (todo \cup failures)
    /\ pc \in {"verify", "next", "report", "done"} => src = NoValue
    /\ pc \in {"report", "done"} => todo = {}
    /\ pc \in {"define", "rows"} => src.schema = Definitions
    /\ pc \in {"open", "read"} => src.schema # Definitions
    /\ pc \in {"define", "open", "read"} =>
        /\ pos \in 0..RecordsRead(src)
        /\ src.damage # NoValue => pos <= src.damage
    /\ pc = "open" => pos = 0
    /\ pc \in {"rows", "exit"} => pos = RecordsRead(src) /\ (limit = NoValue => src.damage = NoValue)

\* The records the writer holds, in its buffer and in the temporary file.
UsableTo(f, n) == {i \in 1..n : Usable(f, f.records[i])}
WriterInv ==
    /\ Writing =>
        /\ writer \in Writer
        /\ writer.flushed + writer.buffer = writer.rows
        /\ pc = "read" => writer.rows = Cardinality(UsableTo(src, pos))
        /\ pc = "exit" => writer.rows = RowsOwed(src)
    /\ ~Writing => writer = NoValue
    /\ tmp => Writing \/ pc = "killed"

\* Among the first n records, the i-th has the last word on its instrument.
LastTo(f, i, n) ==
    Speaks(f, i) /\ \A j \in 1..n :
        /\ j # i /\ Speaks(f, j) /\ f.records[j].key = f.records[i].key
        => \/ Effective(f.records[j]) < Effective(f.records[i])
           \/ Effective(f.records[j]) = Effective(f.records[i]) /\ j < i

\* What a definition record is entered as.
Entry(f, i) == LET r == f.records[i] IN
    [stamp |-> Effective(r), order |-> i - 1, action |-> r.action,
     payload |-> IF Resolves(f, r) THEN Contract(f, r) ELSE NoValue]

\* The ledger after n records holds, for every instrument that they speak of,
\* the entry of the one with the last word.
Recorded(u, f, n) ==
    /\ DOMAIN u = DOMAIN EmptyUniverse
    /\ DOMAIN u.ledger = {f.records[i].key : i \in {j \in 1..n : Speaks(f, j)}}
    /\ \A k \in DOMAIN u.ledger : \E i \in 1..n :
           LastTo(f, i, n) /\ f.records[i].key = k /\ u.ledger[k] = Entry(f, i)

RecordsOf(f) == IF pc = "define" /\ f = src THEN pos ELSE RecordsRead(f)
LedgerInv == Running =>
    \A f \in Inputs(archive) \ (todo \cup failures) : f.schema = Definitions =>
        At(f) \in DOMAIN results /\ Recorded(results[At(f)].universe, f, RecordsOf(f))

\* The instruments whose quotes belong to the primary population.
PrimaryKeys(product, universe) ==
    IF Product[product].kind = "future" THEN Outrights(Contracts(universe))
    ELSE DOMAIN Contracts(universe)

\* The minutes of a coverage, as pairs of an instrument and a slot of the grid.
Grid == 0..(SlotCount - 1)
Cells(slots) == {p \in (DOMAIN slots) \X Grid : p[2] \in slots[p[1]]}

CoverageInv(c) ==
    /\ DOMAIN c = DOMAIN NoCoverage
    /\ DOMAIN c.tradable \subseteq DOMAIN c.raw
    /\ \A k \in DOMAIN c.tradable : c.tradable[k] \subseteq Grid
    /\ IsFiniteSet(Cells(c.tradable)) /\ c.coreMinutes = Cardinality(Cells(c.tradable))

AuditInv(a) ==
    /\ DOMAIN a = DOMAIN NewAudit /\ DOMAIN a.populations = Labels
    /\ \A l \in Labels : a.populations[l].records \in Nat /\ CoverageInv(a.populations[l])
    /\ a.records = a.populations[Primary].records + a.populations[MultiLeg].records
                   + a.populations[Unclassified].records

\* Definitions come first: a universe is complete before the first quote of its
\* date is classified by it.
Audited(t, r) ==
    /\ AuditInv(r.audit)
    /\ r.universe # NoValue => InstrumentsIn(r.audit, Primary) \subseteq PrimaryKeys(t[1], r.universe)
ResultInv(t, r) ==
    /\ DOMAIN r = DOMAIN NoResult
    /\ r.universe # NoValue => IsFiniteSet(DOMAIN r.universe.ledger)
    /\ r.audit # NoValue => Audited(t, r)
ResultsInv ==
    /\ \A t \in DOMAIN results : ResultInv(t, results[t])
    /\ Running =>
        /\ (\E f \in todo : f.schema = Definitions) \/ (Active /\ src.schema = Definitions) =>
              WithAudit(results) = {}
        /\ Active /\ src.schema # Definitions => \A f \in todo : f.schema # Definitions
        /\ Active /\ src.schema \in QuoteSchemas =>
              At(src) \in DOMAIN results /\ Audited(At(src), results[At(src)])

SkippedInv == Running =>
    \A f \in Inputs(archive) : f.schema \in QuoteSchemas /\ Complete(f) =>
        /\ At(f) \in DOMAIN results
        /\ results[At(f)].skipped =
              Cardinality({i \in 1..RecordsRead(f) : ~Usable(f, f.records[i])})

DiskInv ==
    /\ DOMAIN disk \subseteq DeclaredSlots
    /\ pc = "verify" => \A t \in DOMAIN disk : ~disk[t].mine
    /\ \A t \in DOMAIN disk : disk[t].mine =>
          \E f \in Inputs(archive) : Complete(f) /\ Destination(f) = t /\ disk[t].rows = RowsOwed(f)
    /\ Running => \A f \in Inputs(archive) : Complete(f) =>
        /\ Destination(f) \in DOMAIN disk
        /\ disk[Destination(f)] = [mine |-> TRUE, rows |-> RowsOwed(f)]
        /\ limit = NoValue => f.damage = NoValue

ReportInv ==
    /\ report # NoValue => pc \in {"report", "done"}
    /\ FeasibleIsLossless

IngestInv ==
    ProgressInv /\ WriterInv /\ LedgerInv /\ ResultsInv /\ SkippedInv /\ DiskInv /\ ReportInv

-----------------------------------------------------------------------------
(* Payloads and records.                                                    *)

LEMMA WithIs ==
  ASSUME NEW f, NEW k, NEW v
  PROVE  /\ DOMAIN With(f, k, v) = DOMAIN f \cup {k}
         /\ With(f, k, v)[k] = v
         /\ \A j \in DOMAIN f : j # k => With(f, k, v)[j] = f[j]
  BY DEF With

LEMMA InputFacts ==
  ASSUME archive \in Archives, NEW f \in Inputs(archive)
  PROVE  /\ f \in archive.payloads /\ f # NoValue /\ f.product \in DOMAIN Product /\ f.date \in Dates
         /\ f.schema \in Product[f.product].schemas
         /\ f.schema \in {Definitions, Statistics} \cup QuoteSchemas
         /\ Destination(f) \in DeclaredSlots
         /\ Len(f.records) \in Nat
         /\ f.damage # NoValue => f.damage \in 0..Len(f.records)
  BY ArchivesAssumption DEF Inputs, Candidate, Destination, DeclaredSlots

LEMMA SchemasDiffer ==
  /\ Definitions \notin QuoteSchemas /\ Statistics \notin QuoteSchemas /\ Definitions # Statistics
  BY DEF Definitions, Statistics, QuoteSchemas

\* The pass takes the records that a row is owed for.
LEMMA OwedIsUsable ==
  ASSUME archive \in Archives, NEW f \in Inputs(archive), f.schema # Definitions, NEW r
  PROVE  Owes(f, r) <=> Usable(f, r)
  BY InputFacts, SchemasDiffer DEF Owes, Usable

\* Of several payloads of one slot the first is decoded, so a slot has one.
LEMMA InputsDiffer ==
  ASSUME archive \in Archives, NEW f \in Inputs(archive), NEW g \in Inputs(archive)
  PROVE  /\ Destination(f) = Destination(g) => f = g
         /\ f.schema = g.schema /\ At(f) = At(g) => f = g
         /\ f.schema \in QuoteSchemas /\ g.schema \in QuoteSchemas /\ At(f) = At(g) => f = g
  <1>1. Slot3(f) = Slot3(g) => f = g
    <2> SUFFICES ASSUME Slot3(f) = Slot3(g) PROVE f = g
      OBVIOUS
    <2>1. Candidate(f) /\ Candidate(g) /\ f \in archive.payloads /\ g \in archive.payloads
      BY DEF Inputs
    <2>2. f.serial <= g.serial /\ g.serial <= f.serial
      BY <2>1 DEF Inputs
    <2>3. f.serial = g.serial
      BY <2>1, <2>2, ArchivesAssumption
    <2> QED
      BY <2>1, <2>3, ArchivesAssumption
  <1>2. At(f) = At(g) => f.product = g.product /\ f.date = g.date
    BY DEF At
  <1>3. f.schema \in QuoteSchemas /\ g.schema \in QuoteSchemas /\ f.product = g.product => f.schema = g.schema
    BY InputFacts, QuoteSchemaAssumption
  <1> QED
    BY <1>1, <1>2, <1>3 DEF Slot3, Destination

\* Where the reading of a payload may stop.
LEMMA Stopping ==
  ASSUME archive \in Archives, limit \in RecordLimits, src \in Inputs(archive)
  PROVE  /\ RecordsRead(src) \in 0..Len(src.records)
         /\ limit = NoValue => RecordsRead(src) = Len(src.records)
         /\ pos \in 0..RecordsRead(src) /\ Ended => pos = RecordsRead(src)
         /\ pos \in 0..RecordsRead(src) /\ ~Ended => pos + 1 \in 1..RecordsRead(src)
  <1>1. Len(src.records) \in Nat /\ (limit = NoValue \/ limit \in Nat)
    BY InputFacts, ArchivesAssumption
  <1> QED
    BY <1>1 DEF RecordsRead, Ended, Capped

\* What has been counted so far, one record further.
LEMMA Counting ==
  ASSUME NEW f, NEW n \in Nat
  PROVE  /\ UsableTo(f, 0) = {} /\ Cardinality(UsableTo(f, 0)) = 0
         /\ Cardinality(UsableTo(f, n)) \in Nat
         /\ Cardinality(UsableTo(f, n + 1)) =
               Cardinality(UsableTo(f, n)) + (IF Usable(f, f.records[n + 1]) THEN 1 ELSE 0)
  <1>1. UsableTo(f, 0) = {}
    BY DEF UsableTo
  <1>2. IsFiniteSet(UsableTo(f, n))
    <2>1. IsFiniteSet(1..n) /\ UsableTo(f, n) \in SUBSET (1..n)
      BY FS_Interval DEF UsableTo
    <2> QED
      BY <2>1, FS_Subset
  <1>3. UsableTo(f, n + 1) = IF Usable(f, f.records[n + 1]) THEN UsableTo(f, n) \cup {n + 1} ELSE UsableTo(f, n)
    BY DEF UsableTo
  <1>4. n + 1 \notin UsableTo(f, n)
    BY DEF UsableTo
  <1>5. Cardinality(UsableTo(f, n)) \in Nat
    BY <1>2, FS_CardinalityType
  <1>6. Cardinality(UsableTo(f, n) \cup {n + 1}) = Cardinality(UsableTo(f, n)) + 1
    BY <1>2, <1>4, FS_AddElement
  <1> QED
    BY <1>1, <1>3, <1>5, <1>6, FS_EmptySet

-----------------------------------------------------------------------------
(* The ledger.                                                              *)

LEMMA StepIs ==
  ASSUME archive \in Archives, NEW f \in Inputs(archive), f.schema = Definitions,
         NEW n \in Nat, n + 1 <= Len(f.records), Usable(f, f.records[n + 1]),
         NEW u, Recorded(u, f, n)
  PROVE  LET r == f.records[n + 1]
             v == IF Product[f.product].kind = "option"
                  THEN OptionStep(u, r, n, Product[f.product].root)
                  ELSE FutureStep(u, r, n)
         IN  /\ DOMAIN v = DOMAIN EmptyUniverse
             /\ v.ledger = IF Speaks(f, n + 1) /\ ~(r.key \in DOMAIN u.ledger
                                                    /\ Before(Entry(f, n + 1), u.ledger[r.key]))
                           THEN With(u.ledger, r.key, Entry(f, n + 1))
                           ELSE u.ledger
  <1> DEFINE r == f.records[n + 1]
             e == Entry(f, n + 1)
             counted == [u EXCEPT !.counters = Bump(@, "records")]
  <1>1. DOMAIN counted = DOMAIN u /\ counted.ledger = u.ledger /\ DOMAIN u = {"ledger", "counters", "failures"}
    BY DEF Recorded, EmptyUniverse
  <1>2. e = [stamp |-> Effective(r), order |-> n, action |-> r.action,
             payload |-> IF Resolves(f, r) THEN Contract(f, r) ELSE NoValue]
    BY DEF Entry
  <1>3. Speaks(f, n + 1) <=> r.action = Delete \/ Resolves(f, r)
    BY SchemasDiffer DEF Speaks, Usable, Resolves
  <1>4. ASSUME NEW payload, payload = IF Resolves(f, r) THEN Contract(f, r) ELSE NoValue
        PROVE  LET v == Offer(counted, r, n, payload)
               IN  /\ DOMAIN v = DOMAIN u
                   /\ v.ledger = IF r.key \in DOMAIN u.ledger /\ Before(e, u.ledger[r.key])
                                 THEN u.ledger ELSE With(u.ledger, r.key, e)
    BY <1>1, <1>2, <1>4 DEF Offer
  <1>5. ASSUME NEW resolves, NEW payload, resolves <=> Resolves(f, r), Resolves(f, r) => payload = Contract(f, r)
        PROVE  LET v == DefinitionStep(u, r, n, resolves, payload)
               IN  /\ DOMAIN v = DOMAIN u
                   /\ v.ledger = IF Speaks(f, n + 1) /\ ~(r.key \in DOMAIN u.ledger /\ Before(e, u.ledger[r.key]))
                                 THEN With(u.ledger, r.key, e) ELSE u.ledger
    BY <1>1, <1>3, <1>4, <1>5 DEF DefinitionStep
  <1> QED
    BY <1>5, <1>1 DEF OptionStep, FutureStep, Resolves, Contract, EmptyUniverse

\* One more record keeps the ledger the last word of all read so far.
LEMMA LedgerAdvances ==
  ASSUME archive \in Archives, NEW f \in Inputs(archive), f.schema = Definitions,
         NEW n \in Nat, n + 1 <= Len(f.records), Usable(f, f.records[n + 1]),
         NEW u, Recorded(u, f, n)
  PROVE  LET r == f.records[n + 1]
             v == IF Product[f.product].kind = "option"
                  THEN OptionStep(u, r, n, Product[f.product].root)
                  ELSE FutureStep(u, r, n)
         IN  Recorded(v, f, n + 1)
  <1> DEFINE r == f.records[n + 1]
             v == IF Product[f.product].kind = "option"
                  THEN OptionStep(u, r, n, Product[f.product].root)
                  ELSE FutureStep(u, r, n)
             Said(m) == {f.records[i].key : i \in {j \in 1..m : Speaks(f, j)}}
             Eff(i) == Effective(f.records[i])
             Key(i) == f.records[i].key
  <1>1. /\ DOMAIN v = DOMAIN EmptyUniverse
        /\ v.ledger = IF Speaks(f, n + 1) /\ ~(r.key \in DOMAIN u.ledger
                                              /\ Before(Entry(f, n + 1), u.ledger[r.key]))
                      THEN With(u.ledger, r.key, Entry(f, n + 1))
                      ELSE u.ledger
    BY StepIs
  <1> SUFFICES Recorded(v, f, n + 1)
    OBVIOUS
  <1> HIDE DEF v
  <1>2. /\ DOMAIN u.ledger = Said(n)
        /\ \A k \in DOMAIN u.ledger : \E i \in 1..n :
              LastTo(f, i, n) /\ Key(i) = k /\ u.ledger[k] = Entry(f, i)
    BY DEF Recorded
  <1>3. \A i \in 1..(n + 1) : Eff(i) \in Int
    <2>1. f \in archive.payloads /\ Len(f.records) \in Nat
      BY InputFacts
    <2> QED
      BY <2>1, ArchivesAssumption
  <1>4. \A i, j : Before(Entry(f, i), Entry(f, j)) <=> Eff(i) < Eff(j) \/ (Eff(i) = Eff(j) /\ i - 1 < j - 1)
    BY DEF Before, Entry
  <1>5. \A i : i \in 1..(n + 1) <=> i \in 1..n \/ i = n + 1
    OBVIOUS
  <1>6. Said(n + 1) = IF Speaks(f, n + 1) THEN Said(n) \cup {r.key} ELSE Said(n)
    BY <1>5
  <1>7. ASSUME NEW i \in 1..n, LastTo(f, i, n),
               Speaks(f, n + 1) /\ Key(i) = r.key => Before(Entry(f, n + 1), Entry(f, i))
        PROVE  LastTo(f, i, n + 1)
    <2>1. Speaks(f, n + 1) /\ Key(i) = r.key => Eff(n + 1) < Eff(i)
      BY <1>3, <1>4, <1>7
    <2> QED
      BY <1>5, <1>7, <2>1 DEF LastTo
  <1>8. CASE ~(Speaks(f, n + 1) /\ ~(r.key \in DOMAIN u.ledger
                                   /\ Before(Entry(f, n + 1), u.ledger[r.key])))
    <2>1. v.ledger = u.ledger /\ (Speaks(f, n + 1) => r.key \in Said(n))
      BY <1>1, <1>2, <1>8
    <2>2. DOMAIN v.ledger = Said(n + 1)
      <3>1. Said(n + 1) = Said(n)
        BY <1>6, <2>1
      <3> QED
        BY <1>2, <2>1, <3>1
    <2>3. ASSUME NEW k \in DOMAIN v.ledger
          PROVE  \E i \in 1..(n + 1) : LastTo(f, i, n + 1) /\ Key(i) = k /\ v.ledger[k] = Entry(f, i)
      <3>1. PICK i \in 1..n : LastTo(f, i, n) /\ Key(i) = k /\ u.ledger[k] = Entry(f, i)
        BY <1>2, <2>1
      <3>2. LastTo(f, i, n + 1)
        BY <1>7, <1>8, <3>1
      <3> QED
        BY <1>5, <2>1, <3>1, <3>2
    <2> QED
      BY <1>1, <2>2, <2>3 DEF Recorded
  <1>9. CASE Speaks(f, n + 1) /\ ~(r.key \in DOMAIN u.ledger
                                   /\ Before(Entry(f, n + 1), u.ledger[r.key]))
    <2>1. /\ DOMAIN v.ledger = DOMAIN u.ledger \cup {r.key} /\ v.ledger[r.key] = Entry(f, n + 1)
          /\ \A k \in DOMAIN u.ledger : k # r.key => v.ledger[k] = u.ledger[k]
      <3>1. v.ledger = With(u.ledger, r.key, Entry(f, n + 1))
        BY <1>1, <1>9
      <3> QED
        BY <3>1 DEF With
    <2>2. DOMAIN v.ledger = Said(n + 1)
      BY <1>2, <1>6, <1>9, <2>1
    <2>3. LastTo(f, n + 1, n + 1)
      <3> SUFFICES ASSUME NEW j \in 1..n, Speaks(f, j), Key(j) = r.key
                   PROVE  Eff(j) < Eff(n + 1) \/ (Eff(j) = Eff(n + 1) /\ j < n + 1)
        BY <1>5, <1>9 DEF LastTo
      <3>1. r.key \in DOMAIN u.ledger
        BY <1>2
      <3>2. PICK i \in 1..n : LastTo(f, i, n) /\ Key(i) = r.key /\ u.ledger[r.key] = Entry(f, i)
        BY <1>2, <3>1
      <3>3. Eff(i) <= Eff(n + 1)
        BY <1>3, <1>4, <1>9, <3>1, <3>2
      <3>4. j = i \/ Eff(j) <= Eff(i)
        BY <1>3, <3>2 DEF LastTo
      <3>5. Eff(i) \in Int /\ Eff(j) \in Int /\ Eff(n + 1) \in Int
        BY <1>3
      <3> QED
        BY <3>3, <3>4, <3>5
    <2>4. ASSUME NEW k \in DOMAIN v.ledger
          PROVE  \E i \in 1..(n + 1) : LastTo(f, i, n + 1) /\ Key(i) = k /\ v.ledger[k] = Entry(f, i)
      <3>1. CASE k = r.key
        BY <1>5, <1>9, <2>1, <2>3, <3>1
      <3>2. CASE k # r.key
        <4>1. k \in DOMAIN u.ledger /\ v.ledger[k] = u.ledger[k]
          BY <2>1, <3>2
        <4>2. PICK i \in 1..n : LastTo(f, i, n) /\ Key(i) = k /\ u.ledger[k] = Entry(f, i)
          BY <1>2, <4>1
        <4>3. LastTo(f, i, n + 1)
          BY <1>7, <3>2, <4>2
        <4> QED
          BY <1>5, <4>1, <4>2, <4>3
      <3> QED
        BY <3>1, <3>2
    <2> QED
      BY <1>1, <2>2, <2>4 DEF Recorded
  <1> QED
    BY <1>8, <1>9

\* A record that is passed over says nothing.
LEMMA LedgerStands ==
  ASSUME NEW f, f.schema = Definitions, NEW n \in Nat, ~Usable(f, f.records[n + 1]),
         NEW u, Recorded(u, f, n)
  PROVE  Recorded(u, f, n + 1)
  <1>1. ~Speaks(f, n + 1)
    BY SchemasDiffer DEF Speaks, Usable
  <1>2. \A i : i \in 1..(n + 1) <=> i \in 1..n \/ i = n + 1
    OBVIOUS
  <1>3. {i \in 1..(n + 1) : Speaks(f, i)} = {i \in 1..n : Speaks(f, i)}
    BY <1>1, <1>2
  <1>4. \A i \in 1..n : LastTo(f, i, n) => LastTo(f, i, n + 1)
    BY <1>1, <1>2 DEF LastTo
  <1> QED
    BY <1>2, <1>3, <1>4 DEF Recorded

\* An empty ledger is that of no records.
LEMMA LedgerBegins ==
  ASSUME NEW f
  PROVE  Recorded(EmptyUniverse, f, 0)
  BY DEF Recorded, EmptyUniverse

\* The contracts of a complete ledger are those that the last words give.
LEMMA ContractsAreListings ==
  ASSUME archive \in Archives, limit \in RecordLimits,
         NEW f \in Inputs(archive), f.schema = Definitions, NEW u, Recorded(u, f, RecordsRead(f))
  PROVE  /\ DOMAIN Contracts(u) = Listings(f)
         /\ \A i \in 1..RecordsRead(f) : LET r == f.records[i] IN
               LastWord(f, i) /\ r.action # Delete => Contracts(u)[r.key] = Contract(f, r)
  <1> DEFINE n == RecordsRead(f)
             Key(i) == f.records[i].key
  <1>1. n \in 0..Len(f.records) /\ f \in archive.payloads /\ Len(f.records) \in Nat
    BY InputFacts, ArchivesAssumption DEF RecordsRead
  <1>2. \A i \in 1..n : LastTo(f, i, n) <=> LastWord(f, i)
    BY DEF LastTo, LastWord
  <1>3. Listings(f) = {Key(i) : i \in {j \in 1..n : LastTo(f, j, n) /\ f.records[j].action # Delete}}
    BY <1>2 DEF Listings
  <1>4. ASSUME NEW i \in 1..n, Speaks(f, i), f.records[i].action # Delete
        PROVE  Entry(f, i).payload # NoValue
    <2>1. Resolves(f, f.records[i])
      BY <1>4 DEF Speaks
    <2>2. i \in 1..Len(f.records)
      BY <1>1
    <2>3. Contract(f, f.records[i]) # NoValue
      BY <1>1, <2>1, <2>2, ArchivesAssumption DEF Resolves, Contract
    <2> QED
      BY <2>1, <2>3 DEF Entry
  <1>5. \A i \in 1..n : Entry(f, i).action = f.records[i].action
    BY DEF Entry
  <1>6. \A i \in 1..n : Effective(f.records[i]) \in Int
    BY <1>1, ArchivesAssumption
  <1>7. \A i, j \in 1..n : LastTo(f, i, n) /\ LastTo(f, j, n) /\ Key(i) = Key(j) => i = j
    <2> SUFFICES ASSUME NEW i \in 1..n, NEW j \in 1..n, LastTo(f, i, n), LastTo(f, j, n), Key(i) = Key(j), i # j
                 PROVE  FALSE
      OBVIOUS
    <2>1. /\ \/ Effective(f.records[j]) < Effective(f.records[i])
             \/ Effective(f.records[j]) = Effective(f.records[i]) /\ j < i
          /\ \/ Effective(f.records[i]) < Effective(f.records[j])
             \/ Effective(f.records[i]) = Effective(f.records[j]) /\ i < j
      BY DEF LastTo
    <2> QED
      BY <1>6, <2>1
  <1>8. DOMAIN Contracts(u) = {k \in DOMAIN u.ledger : u.ledger[k].action # Delete /\ u.ledger[k].payload # NoValue}
    BY DEF Contracts
  <1>9. ASSUME NEW k \in DOMAIN Contracts(u) PROVE k \in Listings(f)
    <2>1. PICK i \in 1..n : LastTo(f, i, n) /\ Key(i) = k /\ u.ledger[k] = Entry(f, i)
      BY <1>8 DEF Recorded
    <2> QED
      BY <1>3, <1>5, <1>8, <2>1
  <1>10. ASSUME NEW j \in 1..n, LastTo(f, j, n), f.records[j].action # Delete
         PROVE  /\ Key(j) \in DOMAIN Contracts(u)
                /\ Contracts(u)[Key(j)] = Contract(f, f.records[j])
    <2>1. Key(j) \in DOMAIN u.ledger /\ Speaks(f, j)
      BY <1>10 DEF Recorded, LastTo
    <2>2. PICK i \in 1..n : LastTo(f, i, n) /\ Key(i) = Key(j) /\ u.ledger[Key(j)] = Entry(f, i)
      BY <2>1 DEF Recorded
    <2>3. i = j
      BY <1>7, <1>10, <2>2
    <2>4. u.ledger[Key(j)] = Entry(f, j)
      BY <2>2, <2>3
    <2>5. Resolves(f, f.records[j])
      BY <1>10, <2>1 DEF Speaks
    <2>6. /\ Entry(f, j).action # Delete /\ Entry(f, j).payload # NoValue
          /\ Entry(f, j).payload = Contract(f, f.records[j])
      BY <1>4, <1>5, <1>10, <2>1, <2>5 DEF Entry
    <2>7. Key(j) \in DOMAIN Contracts(u)
      BY <1>8, <2>1, <2>4, <2>6
    <2>8. Contracts(u)[Key(j)] = u.ledger[Key(j)].payload
      BY <2>7 DEF Contracts
    <2> QED
      BY <2>4, <2>6, <2>7, <2>8
  <1>11. ASSUME NEW k \in Listings(f) PROVE k \in DOMAIN Contracts(u)
    <2>1. PICK j \in 1..n : LastTo(f, j, n) /\ f.records[j].action # Delete /\ Key(j) = k
      BY <1>3
    <2> QED
      BY <1>10, <2>1
  <1> QED
    BY <1>2, <1>9, <1>10, <1>11

-----------------------------------------------------------------------------
(* Coverage.                                                                *)

LEMMA DivisionGrows ==
  ASSUME NEW x \in Int, NEW z \in Int, x <= z, NEW y \in Nat \ {0}
  PROVE  x \div y \in Int /\ z \div y \in Int /\ x \div y <= z \div y
  <1> DEFINE a == x \div y
             b == z \div y
             r == x % y
             s == z % y
  <1>1. a \in Int /\ r \in 0..(y - 1) /\ x = y * a + r
    OBVIOUS
  <1>2. b \in Int /\ s \in 0..(y - 1) /\ z = y * b + s
    OBVIOUS
  <1> HIDE DEF a, b, r, s
  <1>3. y * a \in Int /\ y * b \in Int /\ y * (b + 1) = y * b + y
    BY <1>1, <1>2
  <1>4. y * a < y * (b + 1)
    BY <1>1, <1>2, <1>3
  <1>5. a <= b
    BY <1>1, <1>2, <1>4
  <1> QED
    BY <1>1, <1>2, <1>5 DEF a, b

\* A quote on the grid has one of the session's slots.
LEMMA SlotsAreOnGrid ==
  ASSUME NEW ts \in Int, Slot(ts) # NoValue
  PROVE  Slot(ts) \in Grid
  <1> DEFINE x == ts - Open
             c == Close - Open
             F == Frequency
  <1>1. x \in Int /\ c \in Int /\ F \in Nat \ {0} /\ 0 < x /\ x <= c /\ x % F = 0
        /\ Slot(ts) = x \div F - 1 /\ SlotCount = c \div F
    BY WindowAssumption DEF Slot, InSession, SlotCount
  <1> HIDE DEF x, c, F
  <1>2. x \div F \in Int /\ c \div F \in Int /\ x \div F <= c \div F
    BY <1>1, DivisionGrows
  <1>3. x = F * (x \div F)
    BY <1>1
  <1> DEFINE d == x \div F
  <1>4. d \in Int /\ x = F * d
    BY <1>2, <1>3
  <1> HIDE DEF d
  <1>5. d >= 1
    BY <1>1, <1>4
  <1> QED
    BY <1>1, <1>2, <1>5 DEF Grid, d

\* Marking a minute adds its cell, once.
LEMMA MarksAreCells ==
  ASSUME NEW slots, NEW key, NEW slot \in Grid, IsFiniteSet(Cells(slots)),
         \A k \in DOMAIN slots : slots[k] \subseteq Grid
  PROVE  LET after == Mark(slots, key, slot)
         IN  /\ DOMAIN after = DOMAIN slots \cup {key}
             /\ \A k \in DOMAIN after : after[k] \subseteq Grid
             /\ IsFiniteSet(Cells(after))
             /\ Cardinality(Cells(after)) =
                   Cardinality(Cells(slots)) + (IF Marked(slots, key, slot) THEN 0 ELSE 1)
  <1> DEFINE after == Mark(slots, key, slot)
  <1>1. /\ DOMAIN after = DOMAIN slots \cup {key}
        /\ \A k \in DOMAIN slots : k # key => after[k] = slots[k]
        /\ key \in DOMAIN slots => after[key] = slots[key] \cup {slot}
        /\ key \notin DOMAIN slots => after[key] = {slot}
    BY DEF Mark
  <1> HIDE DEF after
  <1>2. \A k \in DOMAIN after : after[k] \subseteq Grid
    BY <1>1
  <1>3. Cells(after) = Cells(slots) \cup {<<key, slot>>}
    <2>1. \A p : p \in Cells(after) => p \in Cells(slots) \cup {<<key, slot>>}
      BY <1>1 DEF Cells
    <2>2. \A p : p \in Cells(slots) => p \in Cells(after)
      BY <1>1 DEF Cells
    <2>3. <<key, slot>> \in Cells(after)
      BY <1>1 DEF Cells
    <2> QED
      BY <2>1, <2>2, <2>3
  <1>4. <<key, slot>> \in Cells(slots) <=> Marked(slots, key, slot)
    BY DEF Cells, Marked
  <1>5. IsFiniteSet(Cells(after)) /\ Cardinality(Cells(after)) =
           IF <<key, slot>> \in Cells(slots) THEN Cardinality(Cells(slots)) ELSE Cardinality(Cells(slots)) + 1
    BY <1>3, FS_AddElement
  <1>6. Cardinality(Cells(slots)) \in Nat
    BY FS_CardinalityType
  <1> QED
    BY <1>1, <1>2, <1>4, <1>5, <1>6 DEF after

LEMMA GridKeepsCoverage ==
  ASSUME NEW c, CoverageInv(c), NEW q, NEW slot \in Grid
  PROVE  LET d == ObserveOnGrid(c, q, slot)
         IN  CoverageInv(d) /\ d.records = c.records /\ DOMAIN d.raw = DOMAIN c.raw \cup {q.key}
  <1> DEFINE seen == [c EXCEPT
                 !.raw = Mark(@, q.key, slot),
                 !.rawMinutes = @ + (IF Marked(c.raw, q.key, slot) THEN 0 ELSE 1)]
             kept == [seen EXCEPT
                 !.tradable = Mark(@, q.key, slot),
                 !.coreMinutes = @ + (IF Marked(c.tradable, q.key, slot) THEN 0 ELSE 1),
                 !.spreads = Append(@, q.spread)]
  <1>1. DOMAIN c = {"records", "core", "raw", "tradable", "rawMinutes", "coreMinutes", "spreads"}
    BY DEF CoverageInv, NoCoverage
  <1>2. /\ DOMAIN seen = DOMAIN c /\ seen.raw = Mark(c.raw, q.key, slot) /\ seen.tradable = c.tradable
        /\ seen.coreMinutes = c.coreMinutes /\ seen.records = c.records
    BY <1>1
  <1>3. DOMAIN seen.raw = DOMAIN c.raw \cup {q.key}
    BY <1>2 DEF Mark
  <1> HIDE DEF seen
  <1>4. /\ DOMAIN kept = DOMAIN c /\ kept.raw = seen.raw /\ kept.tradable = Mark(c.tradable, q.key, slot)
        /\ kept.coreMinutes = c.coreMinutes + (IF Marked(c.tradable, q.key, slot) THEN 0 ELSE 1)
        /\ kept.records = c.records
    BY <1>1, <1>2
  <1> HIDE DEF kept
  <1>5. CoverageInv(seen)
    BY <1>2, <1>3 DEF CoverageInv
  <1>6. CoverageInv(kept)
    <2>1. /\ IsFiniteSet(Cells(c.tradable)) /\ c.coreMinutes = Cardinality(Cells(c.tradable))
          /\ \A k \in DOMAIN c.tradable : c.tradable[k] \subseteq Grid
          /\ DOMAIN c.tradable \subseteq DOMAIN c.raw /\ DOMAIN c = DOMAIN NoCoverage
      BY DEF CoverageInv
    <2> DEFINE after == Mark(c.tradable, q.key, slot)
    <2>2. /\ DOMAIN after = DOMAIN c.tradable \cup {q.key}
          /\ \A k \in DOMAIN after : after[k] \subseteq Grid
          /\ IsFiniteSet(Cells(after))
          /\ Cardinality(Cells(after)) =
               Cardinality(Cells(c.tradable)) + (IF Marked(c.tradable, q.key, slot) THEN 0 ELSE 1)
      BY <2>1, MarksAreCells
    <2> HIDE DEF after
    <2>3. kept.tradable = after
      BY <1>4 DEF after
    <2> QED
      BY <1>2, <1>3, <1>4, <2>1, <2>2, <2>3 DEF CoverageInv
  <1>7. ObserveOnGrid(c, q, slot) = IF ~q.core THEN seen ELSE kept
    BY DEF ObserveOnGrid, seen, kept
  <1> QED
    BY <1>2, <1>3, <1>4, <1>5, <1>6, <1>7

\* Every quote is counted in one population, and its minute in that one.
LEMMA ObserveKeepsAudit ==
  ASSUME NEW a, AuditInv(a), NEW q, q.session => q.ts \in Int, NEW label \in Labels
  PROVE  LET b == Observe(a, q, label)
         IN  /\ AuditInv(b)
             /\ InstrumentsIn(b, Primary) \subseteq InstrumentsIn(a, Primary) \cup {q.key}
             /\ label # Primary => InstrumentsIn(b, Primary) = InstrumentsIn(a, Primary)
  <1> DEFINE b == Observe(a, q, label)
             counted == [a EXCEPT
                 !.records = @ + 1,
                 !.core = @ + (IF q.core THEN 1 ELSE 0),
                 !.populations[label] = ObserveRecord(@, q)]
             onGrid == [counted EXCEPT !.populations[label] = ObserveOnGrid(@, q, Slot(q.ts))]
             Sum(p) == p[Primary].records + p[MultiLeg].records + p[Unclassified].records
  <1>1. /\ DOMAIN a = {"records", "outside", "offGrid", "core", "populations"}
        /\ DOMAIN a.populations = Labels /\ a.records = Sum(a.populations)
        /\ \A l \in Labels : a.populations[l].records \in Nat /\ CoverageInv(a.populations[l])
    BY DEF AuditInv, NewAudit
  <1>2. Labels = {Primary, MultiLeg, Unclassified} /\ Primary # MultiLeg /\ Primary # Unclassified
        /\ MultiLeg # Unclassified
    BY DEF Labels, Primary, MultiLeg, Unclassified
  <1>3. ASSUME NEW c, CoverageInv(c), c.records \in Nat
        PROVE  LET d == ObserveRecord(c, q)
               IN  CoverageInv(d) /\ d.records = c.records + 1 /\ d.raw = c.raw
    <2> DEFINE d == ObserveRecord(c, q)
    <2>1. DOMAIN c = {"records", "core", "raw", "tradable", "rawMinutes", "coreMinutes", "spreads"}
      BY <1>3 DEF CoverageInv, NoCoverage
    <2>2. /\ DOMAIN d = DOMAIN c /\ d.raw = c.raw /\ d.tradable = c.tradable
          /\ d.coreMinutes = c.coreMinutes /\ d.records = c.records + 1
      BY <2>1 DEF ObserveRecord
    <2> HIDE DEF d
    <2> QED
      BY <1>3, <2>2 DEF CoverageInv, d
  <1> DEFINE c == a.populations[label]
             d == ObserveRecord(c, q)
  <1>4. CoverageInv(d) /\ d.records = c.records + 1 /\ d.raw = c.raw
    BY <1>1, <1>3
  <1>5. /\ DOMAIN counted = DOMAIN a /\ counted.records = a.records + 1
        /\ DOMAIN counted.populations = Labels /\ counted.populations[label] = d
        /\ \A l \in Labels : l # label => counted.populations[l] = a.populations[l]
    BY <1>1
  <1> HIDE DEF counted, d, b
  <1>6. ASSUME NEW x, DOMAIN x = DOMAIN a, x.records = a.records + 1, DOMAIN x.populations = Labels,
               \A l \in Labels : l # label => x.populations[l] = a.populations[l],
               CoverageInv(x.populations[label]), x.populations[label].records = c.records + 1,
               DOMAIN x.populations[label].raw \subseteq DOMAIN c.raw \cup {q.key}
        PROVE  /\ AuditInv(x)
               /\ InstrumentsIn(x, Primary) \subseteq InstrumentsIn(a, Primary) \cup {q.key}
               /\ label # Primary => InstrumentsIn(x, Primary) = InstrumentsIn(a, Primary)
    <2>1. \A l \in Labels : x.populations[l].records =
             (IF l = label THEN a.populations[l].records + 1 ELSE a.populations[l].records)
      BY <1>6
    <2>2. x.records = Sum(x.populations)
      BY <1>1, <1>2, <1>6, <2>1
    <2>3. \A l \in Labels : x.populations[l].records \in Nat /\ CoverageInv(x.populations[l])
      BY <1>1, <1>6, <2>1
    <2>4. DOMAIN x = DOMAIN NewAudit
      BY <1>6 DEF AuditInv
    <2>5. AuditInv(x)
      BY <1>6, <2>2, <2>3, <2>4 DEF AuditInv
    <2> QED
      BY <1>2, <1>6, <2>5 DEF InstrumentsIn
  <1>7. CASE ~q.session
    <2> DEFINE x == [counted EXCEPT !.outside = @ + 1]
    <2>1. b = x /\ DOMAIN x = DOMAIN counted /\ x.records = counted.records /\ x.populations = counted.populations
      BY <1>1, <1>5, <1>7 DEF Observe, b, counted
    <2> QED
      BY <1>4, <1>5, <1>6, <2>1 DEF b
  <1>8. CASE q.session /\ Slot(q.ts) = NoValue
    <2> DEFINE x == [counted EXCEPT !.offGrid = @ + 1]
    <2>1. b = x /\ DOMAIN x = DOMAIN counted /\ x.records = counted.records /\ x.populations = counted.populations
      BY <1>1, <1>5, <1>8 DEF Observe, b, counted
    <2> QED
      BY <1>4, <1>5, <1>6, <2>1 DEF b
  <1>9. CASE q.session /\ Slot(q.ts) # NoValue
    <2>1. Slot(q.ts) \in Grid
      BY <1>9, SlotsAreOnGrid
    <2> DEFINE e == ObserveOnGrid(d, q, Slot(q.ts))
    <2>2. CoverageInv(e) /\ e.records = d.records /\ DOMAIN e.raw = DOMAIN d.raw \cup {q.key}
      BY <1>4, <2>1, GridKeepsCoverage
    <2> HIDE DEF e
    <2>3. /\ DOMAIN onGrid = DOMAIN counted /\ onGrid.records = counted.records
          /\ DOMAIN onGrid.populations = Labels /\ onGrid.populations[label] = e
          /\ \A l \in Labels : l # label => onGrid.populations[l] = counted.populations[l]
      BY <1>1, <1>5 DEF e
    <2> HIDE DEF onGrid
    <2>4. b = onGrid
      BY <1>9 DEF Observe, b, counted, onGrid
    <2> QED
      BY <1>4, <1>5, <1>6, <2>2, <2>3, <2>4 DEF b
  <1> QED
    BY <1>7, <1>8, <1>9

LEMMA NewAuditIsCounted ==
  /\ AuditInv(NewAudit) /\ InstrumentsIn(NewAudit, Primary) = {}
  <1>1. CoverageInv(NoCoverage)
    <2>1. Cells(<<>>) = {}
      BY DEF Cells
    <2> QED
      BY <2>1, FS_EmptySet DEF CoverageInv, NoCoverage
  <1>2. Primary \in Labels /\ MultiLeg \in Labels /\ Unclassified \in Labels
    BY DEF Labels
  <1>3. NoCoverage.records = 0 /\ DOMAIN NoCoverage.raw = {}
    BY DEF NoCoverage
  <1> HIDE DEF NoCoverage
  <1> QED
    BY <1>1, <1>2, <1>3 DEF AuditInv, NewAudit, InstrumentsIn

\* A universe of n instruments has at most n times as many cells as slots.
LEMMA CoverageIsBounded ==
  ASSUME NEW c, CoverageInv(c), NEW keys, IsFiniteSet(keys), DOMAIN c.raw \subseteq keys
  PROVE  LET block == CoverageBlock(c.tradable, c.coreMinutes, Cardinality(keys))
         IN  block.present <= block.expected
  <1>1. SlotCount \in Nat
    <2>1. Close - Open \in Nat /\ Frequency \in Nat \ {0}
      BY WindowAssumption
    <2> QED
      BY <2>1 DEF SlotCount
  <1>2. IsFiniteSet(Grid) /\ Cardinality(Grid) = SlotCount
    BY <1>1, FS_Interval DEF Grid
  <1>3. IsFiniteSet(keys \X Grid) /\ Cardinality(keys \X Grid) = Cardinality(keys) * SlotCount
    BY <1>2, FS_Product
  <1>4. Cells(c.tradable) \in SUBSET (keys \X Grid)
    BY DEF CoverageInv, Cells
  <1>5. c.coreMinutes <= Cardinality(keys) * SlotCount
    BY <1>3, <1>4, FS_Subset DEF CoverageInv
  <1>6. Cardinality(keys) # NoValue
    BY FS_CardinalityType, ArchivesAssumption
  <1> QED
    BY <1>5, <1>6 DEF CoverageBlock

-----------------------------------------------------------------------------
(* The steps.                                                               *)

THEOREM IngestInitial == IngestInit => IngestInv
  <1> SUFFICES ASSUME IngestInit PROVE IngestInv
    OBVIOUS
  <1>1. ProgressInv
    BY DEF IngestInit, ProgressInv, Active, Stages
  <1>2. WriterInv
    BY DEF IngestInit, WriterInv, Writing
  <1>3. LedgerInv /\ SkippedInv
    BY DEF IngestInit, LedgerInv, SkippedInv, Running
  <1>4. ResultsInv
    BY DEF IngestInit, ResultsInv, Running
  <1>5. DiskInv
    BY DEF IngestInit, DiskInv, Running, Leftovers
  <1>6. ReportInv
    BY DEF IngestInit, ReportInv, FeasibleIsLossless
  <1> QED
    BY <1>1, <1>2, <1>3, <1>4, <1>5, <1>6 DEF IngestInv

LEMMA ProgressStep ==
  ASSUME ProgressInv, [IngestNext]_vars
  PROVE  ProgressInv' /\ archive' = archive /\ limit' = limit
  <1>1. archive' = archive /\ limit' = limit
    BY DEF IngestNext, vars, data, Verify, Pick, Next1, DecodeFails, Define, DefineEnds, WriteDefinition,
       DefinitionsWritten, OpenWriter, ReadQuote, ReadStatistic, ReadEnds, Exit, WriteFails, Abort,
       Report, SaveReport, Kill
  <1>2. archive \in Archives /\ limit \in RecordLimits
    BY DEF ProgressInv
  <1>3. Inputs(archive)' = Inputs(archive) /\ \A f : RecordsRead(f)' = RecordsRead(f)
    BY <1>1 DEF Inputs, RecordsRead, Candidate, Slot3
  <1>4. Active => src \in Inputs(archive) /\ RecordsRead(src) \in 0..Len(src.records) /\ Len(src.records) \in Nat
    BY <1>2, InputFacts, Stopping DEF ProgressInv
  <1>5. \A f \in Inputs(archive) : RecordsRead(f) \in Nat /\ (f.damage # NoValue => f.damage \in Nat)
    <2> SUFFICES ASSUME NEW f \in Inputs(archive)
                 PROVE  RecordsRead(f) \in Nat /\ (f.damage # NoValue => f.damage \in Nat)
      OBVIOUS
    <2>1. Len(f.records) \in Nat /\ (f.damage # NoValue => f.damage \in Nat) /\ (limit = NoValue \/ limit \in Nat)
      BY <1>2, InputFacts, ArchivesAssumption
    <2> QED
      BY <2>1 DEF RecordsRead
  <1> USE DEF ProgressInv, Active
  <1>6. CASE Verify
    BY <1>1, <1>3, <1>6 DEF Verify, Stages
  <1>7. CASE Pick
    <2>1. PICK f \in todo : Next1(f) /\ pc = "next"
      BY <1>7 DEF Pick
    <2>2. /\ src' = f /\ pos' = 0 /\ todo' = todo \ {f} /\ UNCHANGED failures
          /\ pc' = IF f.schema = Definitions THEN "define" ELSE "open"
      BY <2>1 DEF Next1
    <2>3. f \in Inputs(archive) \ failures
      OBVIOUS
    <2> QED
      BY <1>1, <1>3, <1>5, <2>1, <2>2, <2>3 DEF Stages
  <1>8. CASE DecodeFails
    BY <1>1, <1>3, <1>8 DEF DecodeFails, Failed, Stages
  <1>9. ASSUME More, pc' = pc, pos' = pos + 1, pc \in {"define", "read"}, UNCHANGED <<todo, failures, src>>
        PROVE  ProgressInv'
    <2>1. pos + 1 \in 1..RecordsRead(src)
      BY <1>2, <1>4, <1>9, Stopping DEF More
    <2>2. src.damage # NoValue => src.damage # pos /\ src.damage \in Nat
      BY <1>4, <1>5, <1>9 DEF More, Damaged
    <2> QED
      BY <1>1, <1>3, <1>9, <2>1, <2>2
  <1>10. CASE Define \/ ReadQuote \/ ReadStatistic
    BY <1>1, <1>9, <1>10 DEF Define, ReadQuote, ReadStatistic
  <1>11. CASE DefineEnds \/ ReadEnds
    <2>1. /\ pc \in {"define", "read"} /\ Ended /\ (Capped \/ ~Damaged) /\ UNCHANGED <<todo, src, pos, failures>>
          /\ pc' = IF pc = "define" THEN "rows" ELSE "exit"
      BY <1>11 DEF DefineEnds, ReadEnds
    <2>2. pos = RecordsRead(src)
      BY <1>2, <1>4, <2>1, Stopping
    <2>3. limit = NoValue => src.damage = NoValue
      <3> SUFFICES ASSUME limit = NoValue, src.damage # NoValue PROVE FALSE
        OBVIOUS
      <3>1. ~Capped /\ pos = Len(src.records)
        BY <1>2, <1>4, <2>1, <2>2, Stopping DEF Capped
      <3>2. src.damage \in 0..Len(src.records) /\ pos <= src.damage
        BY <1>2, <1>4, <2>1, InputFacts
      <3> QED
        BY <1>4, <2>1, <3>1, <3>2 DEF Damaged
    <2> QED
      BY <1>1, <1>3, <2>1, <2>2, <2>3 DEF Stages
  <1>12. CASE WriteDefinition \/ DefinitionsWritten
    BY <1>1, <1>3, <1>12 DEF WriteDefinition, DefinitionsWritten, Stages
  <1>13. CASE OpenWriter
    BY <1>1, <1>3, <1>13 DEF OpenWriter, Stages
  <1>14. CASE Exit \/ Report
    BY <1>1, <1>3, <1>14 DEF Exit, Report, Stages
  <1>15. CASE WriteFails \/ SaveReport \/ Kill
    BY <1>1, <1>3, <1>15 DEF WriteFails, Abort, SaveReport, Kill, Stages
  <1>16. CASE UNCHANGED vars
    BY <1>1, <1>3, <1>16 DEF vars
  <1> QED
    BY <1>1, <1>6, <1>7, <1>8, <1>10, <1>11, <1>12, <1>13, <1>14, <1>15, <1>16 DEF IngestNext

\* A result may be new, and one entry of the dictionary is replaced at a time.
LEMMA ResultAtIs ==
  ASSUME ResultsInv, NEW t
  PROVE  /\ DOMAIN ResultAt(t) = {"universe", "audit", "statistics", "skipped", "mids", "reference"}
         /\ t \in DOMAIN results => ResultAt(t) = results[t]
         /\ t \notin DOMAIN results => ResultAt(t).universe = NoValue /\ ResultAt(t).audit = NoValue
  BY DEF ResultsInv, ResultInv, ResultAt, NoResult

LEMMA SetResultIs ==
  ASSUME NEW t, NEW r, SetResult(t, r)
  PROVE  /\ DOMAIN results' = DOMAIN results \cup {t} /\ results'[t] = r
         /\ \A u \in DOMAIN results : u # t => results'[u] = results[u]
  BY DEF SetResult, With

LEMMA ReferencesAreAdded ==
  /\ DOMAIN ResolveReferences(results) = DOMAIN results
  /\ \A t \in DOMAIN results :
        /\ DOMAIN ResolveReferences(results)[t] = DOMAIN results[t]
        /\ \A x \in DOMAIN results[t] \ {"reference"} : ResolveReferences(results)[t][x] = results[t][x]
  BY DEF ResolveReferences

\* Only what reads definitions changes a universe.
UniversesKept == \A t \in DOMAIN results :
    t \in DOMAIN results' /\ results'[t].universe = results[t].universe

LEMMA QuotesKeepUniverses ==
  ASSUME ResultsInv, ReadQuote \/ ReadStatistic \/ Exit \/ Report \/ UNCHANGED results
  PROVE  UniversesKept
  <1>1. ASSUME NEW t, NEW r, SetResult(t, r), t \in DOMAIN results => r.universe = ResultAt(t).universe
        PROVE  UniversesKept
    BY <1>1, ResultAtIs, SetResultIs, ZenonT(40) DEF UniversesKept
  <1>2. CASE UNCHANGED results
    BY <1>2 DEF UniversesKept
  <1>3. CASE ReadQuote
    <2> DEFINE R == ResultAt(At(src))
               q == Normalize(Record, IF Record.key \in DOMAIN previous THEN previous[Record.key] ELSE NoValue)
    <2>1. DOMAIN R = {"universe", "audit", "statistics", "skipped", "mids", "reference"}
      BY ResultAtIs
    <2>2. CASE ~Usable(src, Record)
      BY <1>2, <1>3, <2>2 DEF ReadQuote
    <2>3. CASE Usable(src, Record)
      <3>1. PICK a, m : SetResult(At(src), [R EXCEPT !.audit = a, !.mids = m])
        BY <1>3, <2>3 DEF ReadQuote
      <3> HIDE DEF R
      <3>2. [R EXCEPT !.audit = a, !.mids = m].universe = R.universe
        BY <2>1
      <3> QED
        BY <1>1, <3>1, <3>2 DEF R
    <2> QED
      BY <2>2, <2>3
  <1>4. CASE ReadStatistic
    <2> DEFINE R == ResultAt(At(src))
    <2>1. DOMAIN R = {"universe", "audit", "statistics", "skipped", "mids", "reference"}
      BY ResultAtIs
    <2>2. CASE ~Usable(src, Record)
      BY <1>2, <1>4, <2>2 DEF ReadStatistic
    <2>3. CASE Usable(src, Record)
      <3>1. PICK a : SetResult(At(src), [R EXCEPT !.statistics = a])
        BY <1>4, <2>3 DEF ReadStatistic
      <3> HIDE DEF R
      <3>2. [R EXCEPT !.statistics = a].universe = R.universe
        BY <2>1
      <3> QED
        BY <1>1, <3>1, <3>2 DEF R
    <2> QED
      BY <2>2, <2>3
  <1>5. CASE Exit
    <2> DEFINE R == ResultAt(At(src))
    <2>1. DOMAIN R = {"universe", "audit", "statistics", "skipped", "mids", "reference"}
      BY ResultAtIs
    <2>2. CASE src.schema \in QuoteSchemas
      <3>1. PICK a : SetResult(At(src), [R EXCEPT !.skipped = a])
        BY <1>5, <2>2 DEF Exit
      <3> HIDE DEF R
      <3>2. [R EXCEPT !.skipped = a].universe = R.universe
        BY <2>1
      <3> QED
        BY <1>1, <3>1, <3>2 DEF R
    <2>3. CASE src.schema \notin QuoteSchemas
      BY <1>2, <1>5, <2>3 DEF Exit
    <2> QED
      BY <2>2, <2>3
  <1>6. CASE Report
    <2>1. results' = ResolveReferences(results)
      BY <1>6 DEF Report
    <2>2. \A t \in DOMAIN results : "universe" \in DOMAIN results[t] \ {"reference"}
      BY DEF ResultsInv, ResultInv, NoResult
    <2> QED
      BY <2>1, <2>2, ReferencesAreAdded DEF UniversesKept
  <1> QED
    BY <1>2, <1>3, <1>4, <1>5, <1>6

LEMMA LedgerStep ==
  ASSUME ProgressInv, ResultsInv, LedgerInv, [IngestNext]_vars
  PROVE  LedgerInv'
  <1> SUFFICES ASSUME Running', NEW f \in Inputs(archive), f \notin todo' \cup failures', f.schema = Definitions
               PROVE  /\ At(f) \in DOMAIN results'
                      /\ Recorded(results'[At(f)].universe, f, RecordsOf(f)')
    <2>1. archive' = archive
      BY ProgressStep
    <2>2. Inputs(archive)' = Inputs(archive) /\ \A f : At(f)' = At(f)
      BY <2>1 DEF Inputs, Candidate, Slot3, At
    <2> QED
      BY <2>2 DEF LedgerInv
  <1>1. archive \in Archives /\ limit \in RecordLimits /\ RecordsRead(f)' = RecordsRead(f)
    BY ProgressStep DEF ProgressInv, RecordsRead
  <1>2. ASSUME UniversesKept, Running, f \notin todo \cup failures, RecordsOf(f)' = RecordsOf(f)
        PROVE  /\ At(f) \in DOMAIN results'
               /\ Recorded(results'[At(f)].universe, f, RecordsOf(f)')
    BY <1>2 DEF LedgerInv, UniversesKept
  <1>3. ASSUME NEW g \in Inputs(archive), g.schema = Definitions, g # f, NEW r, SetResult(At(g), r)
        PROVE  At(f) \in DOMAIN results => At(f) \in DOMAIN results' /\ results'[At(f)] = results[At(f)]
    <2>1. At(g) # At(f)
      BY <1>1, <1>3, InputsDiffer
    <2> QED
      BY <1>3, <2>1, SetResultIs
  <1>4. CASE Verify
    BY <1>4 DEF Verify, Running, ProgressInv
  <1>5. CASE Pick
    <2>1. PICK g \in todo : Next1(g) /\ pc = "next"
      BY <1>5 DEF Pick
    <2>2. g \in Inputs(archive) /\ todo' = todo \ {g} /\ src' = g /\ pos' = 0 /\ failures' = failures
          /\ pc' = IF g.schema = Definitions THEN "define" ELSE "open"
      BY <2>1 DEF Next1, ProgressInv
    <2> DEFINE R == ResultAt(At(g))
    <2>3. DOMAIN R = {"universe", "audit", "statistics", "skipped", "mids", "reference"}
      BY ResultAtIs
    <2>4. CASE g.schema = Definitions
      <3>1. SetResult(At(g), [R EXCEPT !.universe = EmptyUniverse])
        BY <2>1, <2>4, SchemasDiffer DEF Next1, SetResult
      <3> HIDE DEF R
      <3>2. [R EXCEPT !.universe = EmptyUniverse].universe = EmptyUniverse
        BY <2>3
      <3>3. CASE f = g
        <4>1. RecordsOf(f)' = 0
          BY <2>2, <2>4, <3>3 DEF RecordsOf
        <4>2. At(f) \in DOMAIN results' /\ results'[At(f)].universe = EmptyUniverse
          BY <3>1, <3>2, <3>3, SetResultIs, ZenonT(40)
        <4> QED
          BY <4>1, <4>2, LedgerBegins
      <3>4. CASE f # g
        <4>1. f \notin todo \cup failures /\ RecordsOf(f) = RecordsRead(f) /\ RecordsOf(f)' = RecordsRead(f)
          BY <1>1, <2>1, <2>2, <3>4 DEF RecordsOf
        <4>2. At(f) \in DOMAIN results /\ Recorded(results[At(f)].universe, f, RecordsOf(f))
          BY <2>1, <4>1 DEF LedgerInv, Running
        <4> QED
          BY <1>3, <2>2, <2>4, <3>1, <3>4, <4>1, <4>2
      <3> QED
        BY <3>3, <3>4
    <2>5. CASE g.schema # Definitions
      <3>1. PICK r : SetResult(At(g), r) /\ r.universe = R.universe
        <4>1. \/ SetResult(At(g), [R EXCEPT !.audit = NewAudit])
              \/ SetResult(At(g), [R EXCEPT !.statistics = NoStatistics])
          BY <2>1, <2>5 DEF Next1
        <4> HIDE DEF R
        <4>2. /\ [R EXCEPT !.audit = NewAudit].universe = R.universe
              /\ [R EXCEPT !.statistics = NoStatistics].universe = R.universe
          BY <2>3
        <4> QED
          BY <4>1, <4>2
      <3>2. UniversesKept
        BY <3>1, ResultAtIs, SetResultIs, ZenonT(40) DEF UniversesKept
      <3>3. f # g /\ RecordsOf(f)' = RecordsOf(f) /\ Running /\ f \notin todo \cup failures
        BY <1>1, <2>1, <2>2, <2>5 DEF RecordsOf, Running
      <3> QED
        BY <1>2, <3>2, <3>3
    <2> QED
      BY <2>4, <2>5
  <1>6. CASE DecodeFails
    <2>1. /\ failures' = failures \cup {src} /\ todo' = todo /\ pc' = "next" /\ pc \in {"define", "read"}
          /\ src \in Inputs(archive)
      BY <1>6 DEF DecodeFails, Failed, ProgressInv, Active
    <2>2. f # src /\ f \notin todo \cup failures /\ RecordsOf(f)' = RecordsRead(f) /\ RecordsOf(f) = RecordsRead(f)
      BY <1>1, <2>1 DEF RecordsOf
    <2>3. CASE pc = "define"
      <3>1. src.schema = Definitions
        BY <2>3 DEF ProgressInv
      <3>2. PICK r : SetResult(At(src), r)
        BY <1>6, <2>3 DEF DecodeFails
      <3>3. At(f) \in DOMAIN results /\ Recorded(results[At(f)].universe, f, RecordsOf(f))
        BY <2>2, <2>3 DEF LedgerInv, Running
      <3> QED
        BY <1>3, <2>1, <2>2, <3>1, <3>2, <3>3
    <2>4. CASE pc # "define"
      <3>1. UniversesKept /\ Running
        BY <1>6, <2>4, QuotesKeepUniverses DEF DecodeFails, Running
      <3> QED
        BY <1>2, <2>2, <3>1
    <2> QED
      BY <2>3, <2>4
  <1>7. CASE Define
    <2> DEFINE R == ResultAt(At(src))
               u == R.universe
               v == IF Product[src.product].kind = "option"
                    THEN OptionStep(u, Record, pos, Product[src.product].root)
                    ELSE FutureStep(u, Record, pos)
    <2>1. /\ pc = "define" /\ pc' = "define" /\ More /\ pos' = pos + 1 /\ UNCHANGED <<todo, failures, src>>
          /\ src \in Inputs(archive) /\ src \notin todo \cup failures /\ src.schema = Definitions
          /\ pos \in 0..RecordsRead(src)
      BY <1>7 DEF Define, ProgressInv, Active
    <2>2. IF Usable(src, Record) THEN SetResult(At(src), [R EXCEPT !.universe = v]) ELSE UNCHANGED results
      BY <1>7 DEF Define
    <2>3. [R EXCEPT !.universe = v].universe = v
      BY ResultAtIs
    <2>4. /\ RecordsOf(f) = IF f = src THEN pos ELSE RecordsRead(f)
          /\ RecordsOf(f)' = IF f = src THEN pos + 1 ELSE RecordsRead(f)
      BY <1>1, <2>1 DEF RecordsOf
    <2>5. At(f) \in DOMAIN results /\ Recorded(results[At(f)].universe, f, RecordsOf(f))
      BY <2>1 DEF LedgerInv, Running
    <2>6. CASE f # src
      BY <1>3, <2>1, <2>2, <2>4, <2>5, <2>6
    <2>7. CASE f = src
      <3>1. R = results[At(f)] /\ Recorded(u, src, pos)
        BY <2>4, <2>5, <2>7, ResultAtIs
      <3>2. RecordsRead(src) \in 0..Len(src.records) /\ Len(src.records) \in Nat /\ pos + 1 \in 1..RecordsRead(src)
        BY <1>1, <2>1, Stopping, InputFacts DEF More
      <3>3. pos \in Nat /\ pos + 1 <= Len(src.records)
        BY <2>1, <3>2
      <3>4. Usable(src, Record) => Recorded(v, src, pos + 1)
        BY <1>1, <2>1, <3>1, <3>3, LedgerAdvances DEF Record
      <3>5. ~Usable(src, Record) => Recorded(results[At(f)].universe, src, pos + 1)
        BY <2>1, <3>1, <3>3, LedgerStands DEF Record
      <3> HIDE DEF v, R
      <3>6. CASE Usable(src, Record)
        BY <2>2, <2>3, <2>4, <2>7, <3>4, <3>6, SetResultIs, ZenonT(40)
      <3>7. CASE ~Usable(src, Record)
        BY <2>2, <2>4, <2>5, <2>7, <3>5, <3>7
      <3> QED
        BY <3>6, <3>7
    <2> QED
      BY <2>6, <2>7
  <1>8. CASE DefineEnds
    <2>1. pc = "define" /\ pc' = "rows" /\ UNCHANGED <<todo, failures, src, results, pos>>
      BY <1>8 DEF DefineEnds
    <2>2. pos = RecordsRead(src)
      BY <1>1, <1>8, Stopping DEF DefineEnds, ProgressInv, Active
    <2>3. RecordsOf(f) = RecordsRead(f) /\ RecordsOf(f)' = RecordsRead(f)
      BY <1>1, <2>1, <2>2 DEF RecordsOf
    <2>4. UniversesKept
      BY <2>1 DEF UniversesKept
    <2> QED
      BY <1>2, <2>1, <2>3, <2>4 DEF Running
  <1>9. ASSUME UniversesKept, Running, pc # "define", pc' # "define", UNCHANGED <<todo, failures>>
        PROVE  /\ At(f) \in DOMAIN results'
               /\ Recorded(results'[At(f)].universe, f, RecordsOf(f)')
    <2>1. RecordsOf(f)' = RecordsOf(f)
      BY <1>1, <1>9 DEF RecordsOf
    <2> QED
      BY <1>2, <1>9, <2>1
  <1>10. CASE WriteDefinition \/ DefinitionsWritten \/ OpenWriter \/ ReadEnds \/ SaveReport
    <2>1. UniversesKept
      BY <1>10, QuotesKeepUniverses DEF WriteDefinition, DefinitionsWritten, OpenWriter, ReadEnds, SaveReport
    <2> QED
      BY <1>9, <1>10, <2>1 DEF WriteDefinition, DefinitionsWritten, OpenWriter, ReadEnds, SaveReport, Running
  <1>11. CASE ReadQuote \/ ReadStatistic \/ Exit \/ Report
    <2>1. UniversesKept
      BY <1>11, QuotesKeepUniverses
    <2> QED
      BY <1>9, <1>11, <2>1 DEF ReadQuote, ReadStatistic, Exit, Report, Running
  <1>12. CASE WriteFails \/ Kill
    BY <1>12 DEF WriteFails, Abort, Kill, Running
  <1>13. CASE UNCHANGED vars
    <2>1. UniversesKept /\ RecordsOf(f)' = RecordsOf(f)
      BY <1>1, <1>13 DEF vars, UniversesKept, RecordsOf
    <2> QED
      BY <1>2, <1>13, <2>1 DEF vars, Running
  <1> QED
    BY <1>4, <1>5, <1>6, <1>7, <1>8, <1>10, <1>11, <1>12, <1>13 DEF IngestNext

\* What definitions leave alone, they leave valid.
LEMMA ResultStays ==
  ASSUME NEW t, NEW r, ResultInv(t, r), NEW s, DOMAIN s = DOMAIN r, s.universe = r.universe, s.audit = r.audit
  PROVE  ResultInv(t, s) /\ (Audited(t, r) => Audited(t, s))
  BY DEF ResultInv, Audited

LEMMA ResultAtHolds ==
  ASSUME ResultsInv, NEW t
  PROVE  ResultInv(t, ResultAt(t))
  BY DEF ResultsInv, ResultInv, ResultAt, NoResult

LEMMA RanksOrder ==
  ASSUME archive \in Archives, NEW f \in Inputs(archive), NEW g \in Inputs(archive), ReadBefore(f, g),
         g.schema = Definitions
  PROVE  f.schema = Definitions
  BY InputFacts, SchemasDiffer DEF ReadBefore, SchemaRank

\* One quote, in the population its instrument belongs to.
LEMMA QuotesAreAudited ==
  ASSUME ProgressInv, ResultsInv, ReadQuote, Usable(src, Record)
  PROVE  /\ DOMAIN results' = DOMAIN results
         /\ \A t \in DOMAIN results : t # At(src) => results'[t] = results[t]
         /\ Audited(At(src), results'[At(src)]) /\ ResultInv(At(src), results'[At(src)])
  <1> DEFINE t == At(src)
             R == ResultAt(t)
             q == Normalize(Record, IF Record.key \in DOMAIN previous THEN previous[Record.key] ELSE NoValue)
             label == Population(src.product, R.universe, q.key)
             a == Observe(R.audit, q, label)
  <1>1. /\ pc = "read" /\ More /\ src.schema \in QuoteSchemas /\ Running /\ Active
        /\ archive \in Archives /\ limit \in RecordLimits /\ src \in Inputs(archive) /\ pos \in 0..RecordsRead(src)
    BY DEF ReadQuote, ProgressInv, Running, Active
  <1>2. t \in DOMAIN results /\ R = results[t] /\ Audited(t, R) /\ ResultInv(t, R)
    BY <1>1, ResultAtIs DEF ResultsInv
  <1>3. q.session => q.ts \in Int
    <2>1. Record.ts \in Int
      <3>1. pos + 1 \in 1..Len(src.records) /\ src \in archive.payloads
        BY <1>1, Stopping, InputFacts DEF More
      <3> QED
        BY <1>1, <3>1, ArchivesAssumption DEF Record, Usable
    <2> QED
      BY <2>1 DEF Normalize
  <1>4. label \in Labels
    BY DEF Population, Labels, Primary, MultiLeg, Unclassified
  <1>5. R.universe # NoValue /\ label = Primary => q.key \in PrimaryKeys(src.product, R.universe)
    BY DEF Population, PrimaryKeys, Outrights, Contracts, Primary, MultiLeg, Unclassified
  <1>6. PICK m : SetResult(t, [R EXCEPT !.audit = a, !.mids = m])
    BY DEF ReadQuote
  <1>7. /\ AuditInv(a)
        /\ InstrumentsIn(a, Primary) \subseteq InstrumentsIn(R.audit, Primary) \cup {q.key}
        /\ label # Primary => InstrumentsIn(a, Primary) = InstrumentsIn(R.audit, Primary)
    BY <1>2, <1>3, <1>4, ObserveKeepsAudit DEF Audited
  <1>8. t[1] = src.product
    BY DEF At
  <1> HIDE DEF a, label, R, q, t
  <1>9. DOMAIN R = {"universe", "audit", "statistics", "skipped", "mids", "reference"}
    BY <1>2 DEF ResultInv, NoResult
  <1> DEFINE s == [R EXCEPT !.audit = a, !.mids = m]
  <1>10. DOMAIN s = DOMAIN R /\ s.universe = R.universe /\ s.audit = a
    BY <1>9
  <1> HIDE DEF s
  <1>11. Audited(t, s)
    BY <1>2, <1>5, <1>7, <1>8, <1>10 DEF Audited
  <1>12. ResultInv(t, s)
    BY <1>2, <1>10, <1>11 DEF ResultInv
  <1>13. /\ DOMAIN results' = DOMAIN results \cup {t} /\ results'[t] = s
         /\ \A u \in DOMAIN results : u # t => results'[u] = results[u]
    BY <1>6, SetResultIs DEF s
  <1> QED
    BY <1>2, <1>11, <1>12, <1>13 DEF t

LEMMA ResultsStep ==
  ASSUME ProgressInv, ResultsInv, LedgerInv, [IngestNext]_vars
  PROVE  ResultsInv'
  <1>1. archive \in Archives /\ limit \in RecordLimits /\ todo \subseteq Inputs(archive)
        /\ (Active => src \in Inputs(archive))
    BY DEF ProgressInv
  <1>2. \A t, r : (ResultInv(t, r)' <=> ResultInv(t, r)) /\ (Audited(t, r)' <=> Audited(t, r))
    BY DEF ResultInv, Audited
  <1>3. WithAudit(results)' = WithAudit(results')
    BY DEF WithAudit
  <1>4. CASE Verify
    BY <1>4 DEF Verify, ResultsInv, Running, Active, ProgressInv, WithAudit
  <1>5. CASE Pick
    <2>1. PICK g \in todo : Next1(g) /\ pc = "next"
      BY <1>5 DEF Pick
    <2>2. /\ g \in Inputs(archive) /\ todo' = todo \ {g} /\ src' = g /\ Running /\ Active'
          /\ pc' = IF g.schema = Definitions THEN "define" ELSE "open"
      BY <1>1, <2>1 DEF Next1, Running, Active
    <2> DEFINE t == At(g)
               R == ResultAt(t)
    <2>3. DOMAIN R = {"universe", "audit", "statistics", "skipped", "mids", "reference"} /\ ResultInv(t, R)
      BY ResultAtIs, ResultAtHolds
    <2>4. CASE g.schema = Definitions
      <3> DEFINE r == [R EXCEPT !.universe = EmptyUniverse]
      <3>1. SetResult(t, r)
        BY <2>1, <2>4, SchemasDiffer DEF Next1, SetResult
      <3>2. WithAudit(results) = {}
        BY <2>1, <2>2, <2>4 DEF ResultsInv
      <3>3. R.audit = NoValue
        BY <3>2, ResultAtIs DEF WithAudit
      <3> HIDE DEF R
      <3>4. DOMAIN r = DOMAIN R /\ r.universe = EmptyUniverse /\ r.audit = NoValue
        BY <2>3, <3>3
      <3> HIDE DEF r
      <3>5. ResultInv(t, r)
        <4>1. DOMAIN EmptyUniverse.ledger = {}
          BY DEF EmptyUniverse
        <4> QED
          BY <2>3, <3>4, <4>1, FS_EmptySet DEF ResultInv
      <3>6. /\ DOMAIN results' = DOMAIN results \cup {t} /\ results'[t] = r
            /\ \A u \in DOMAIN results : u # t => results'[u] = results[u]
        BY <3>1, SetResultIs
      <3>7. \A u \in DOMAIN results' : ResultInv(u, results'[u])
        BY <3>5, <3>6 DEF ResultsInv
      <3>8. WithAudit(results') = {}
        BY <3>2, <3>4, <3>6 DEF WithAudit
      <3>9. src'.schema \notin QuoteSchemas /\ src'.schema = Definitions
        BY <2>2, <2>4, SchemasDiffer
      <3> QED
        BY <1>2, <1>3, <3>7, <3>8, <3>9 DEF ResultsInv
    <2>5. ASSUME g.schema # Definitions, NEW r, SetResult(t, r), ResultInv(t, r),
                 g.schema \in QuoteSchemas => Audited(t, r)
          PROVE  ResultsInv'
      <3>1. /\ DOMAIN results' = DOMAIN results \cup {t} /\ results'[t] = r
            /\ \A u \in DOMAIN results : u # t => results'[u] = results[u]
        BY <2>5, SetResultIs
      <3>2. \A u \in DOMAIN results' : ResultInv(u, results'[u])
        BY <2>5, <3>1 DEF ResultsInv
      <3>3. \A h \in todo : h.schema # Definitions
        BY <1>1, <2>1, <2>2, <2>5, RanksOrder DEF Next1
      <3>4. At(src)' = t
        BY <2>2 DEF At
      <3> HIDE DEF t
      <3> QED
        BY <1>2, <1>3, <2>2, <2>5, <3>1, <3>2, <3>3, <3>4 DEF ResultsInv
    <2>6. CASE g.schema \in QuoteSchemas
      <3> DEFINE r == [R EXCEPT !.audit = NewAudit]
      <3>1. g.schema # Definitions
        BY <2>6, SchemasDiffer
      <3>2. SetResult(t, r)
        BY <2>1, <2>6, <3>1 DEF Next1, SetResult
      <3> HIDE DEF R
      <3>3. DOMAIN r = DOMAIN R /\ r.universe = R.universe /\ r.audit = NewAudit
        BY <2>3
      <3> HIDE DEF r
      <3>4. Audited(t, r)
        BY <3>3, NewAuditIsCounted DEF Audited
      <3>5. ResultInv(t, r)
        BY <2>3, <3>3, <3>4 DEF ResultInv
      <3> QED
        BY <2>5, <3>1, <3>2, <3>4, <3>5
    <2>7. CASE g.schema # Definitions /\ g.schema \notin QuoteSchemas
      <3> DEFINE r == [R EXCEPT !.statistics = NoStatistics]
      <3>1. SetResult(t, r)
        BY <2>1, <2>7 DEF Next1, SetResult
      <3> HIDE DEF R
      <3>2. DOMAIN r = DOMAIN R /\ r.universe = R.universe /\ r.audit = R.audit
        BY <2>3
      <3> HIDE DEF r
      <3>3. ResultInv(t, r)
        BY <2>3, <3>2, ResultStays
      <3> QED
        BY <2>5, <2>7, <3>1, <3>3
    <2> QED
      BY <2>4, <2>6, <2>7
  <1>6. CASE DecodeFails
    <2>1. pc \in {"define", "read"} /\ pc' = "next" /\ todo' = todo /\ Running /\ Active /\ ~Active'
      BY <1>6 DEF DecodeFails, Running, Active
    <2>2. CASE pc = "define"
      <3> DEFINE t == At(src)
                 R == ResultAt(t)
                 r == [R EXCEPT !.universe = NoValue]
      <3>1. SetResult(t, r)
        BY <1>6, <2>2 DEF DecodeFails
      <3>2. WithAudit(results) = {}
        BY <2>1, <2>2 DEF ResultsInv, ProgressInv
      <3>3. R.audit = NoValue /\ DOMAIN R = {"universe", "audit", "statistics", "skipped", "mids", "reference"}
        BY <3>2, ResultAtIs DEF WithAudit
      <3> HIDE DEF R
      <3>4. DOMAIN r = DOMAIN R /\ r.universe = NoValue /\ r.audit = NoValue
        BY <3>3
      <3> HIDE DEF r
      <3>5. ResultInv(t, r)
        BY <3>3, <3>4 DEF ResultInv, NoResult
      <3>6. /\ DOMAIN results' = DOMAIN results \cup {t} /\ results'[t] = r
            /\ \A u \in DOMAIN results : u # t => results'[u] = results[u]
        BY <3>1, SetResultIs
      <3>7. \A u \in DOMAIN results' : ResultInv(u, results'[u])
        BY <3>5, <3>6 DEF ResultsInv
      <3>8. WithAudit(results') = {}
        BY <3>2, <3>4, <3>6 DEF WithAudit
      <3> QED
        BY <1>2, <1>3, <2>1, <3>7, <3>8 DEF ResultsInv
    <2>3. CASE pc = "read"
      <3>1. src.schema # Definitions /\ UNCHANGED results
        BY <1>6, <2>3 DEF DecodeFails, ProgressInv
      <3> QED
        BY <1>2, <1>3, <2>1, <3>1 DEF ResultsInv
    <2> QED
      BY <2>1, <2>2, <2>3
  <1>7. CASE Define
    <2> DEFINE t == At(src)
               R == ResultAt(t)
               u == R.universe
               v == IF Product[src.product].kind = "option"
                    THEN OptionStep(u, Record, pos, Product[src.product].root)
                    ELSE FutureStep(u, Record, pos)
               r == [R EXCEPT !.universe = v]
    <2>1. /\ pc = "define" /\ pc' = "define" /\ More /\ UNCHANGED <<todo, src>> /\ Running /\ Active
          /\ src \in Inputs(archive) \ (todo \cup failures) /\ src.schema = Definitions
          /\ pos \in 0..RecordsRead(src)
      BY <1>7 DEF Define, ProgressInv, Active, Running
    <2> SUFFICES ASSUME Usable(src, Record)
                 PROVE  ResultsInv'
      <3> SUFFICES ASSUME ~Usable(src, Record) PROVE ResultsInv'
        OBVIOUS
      <3>1. UNCHANGED results /\ At(src)' = At(src) /\ UNCHANGED <<todo, src, pc>>
        BY <1>7, <2>1 DEF Define, At
      <3> QED
        BY <1>2, <1>3, <2>1, <3>1 DEF ResultsInv, Running, Active
    <2>2. SetResult(t, r)
      BY <1>7 DEF Define
    <2>3. WithAudit(results) = {}
      BY <2>1 DEF ResultsInv
    <2>4. R.audit = NoValue /\ DOMAIN R = {"universe", "audit", "statistics", "skipped", "mids", "reference"}
      BY <2>3, ResultAtIs DEF WithAudit
    <2>5. t \in DOMAIN results /\ Recorded(u, src, pos)
      BY <2>1, ResultAtIs DEF LedgerInv, RecordsOf
    <2>6. IsFiniteSet(DOMAIN v.ledger)
      <3>1. RecordsRead(src) \in 0..Len(src.records) /\ Len(src.records) \in Nat /\ pos + 1 \in 1..RecordsRead(src)
        BY <1>1, <2>1, Stopping, InputFacts DEF More
      <3>2. pos \in Nat /\ pos + 1 <= Len(src.records)
        BY <2>1, <3>1
      <3>3. v.ledger = u.ledger \/ v.ledger = With(u.ledger, Record.key, Entry(src, pos + 1))
        BY <1>1, <2>1, <2>5, <3>2, StepIs, SMTT(30) DEF Record
      <3>4. DOMAIN v.ledger = DOMAIN u.ledger \/ DOMAIN v.ledger = DOMAIN u.ledger \cup {Record.key}
        BY <3>3 DEF With
      <3>5. IsFiniteSet(DOMAIN u.ledger)
        <4> DEFINE I == {j \in 1..pos : Speaks(src, j)}
                   key == [i \in I |-> src.records[i].key]
        <4>1. IsFiniteSet(I)
          BY <3>2, FS_Interval, FS_Subset
        <4>2. key \in Surjection(I, DOMAIN u.ledger)
          BY <2>5 DEF Recorded, Surjection
        <4> QED
          BY <4>1, <4>2, FS_Surjection
      <3>6. IsFiniteSet(DOMAIN u.ledger \cup {Record.key})
        BY <3>5, FS_AddElement
      <3> HIDE DEF u, v
      <3> QED
        BY <3>4, <3>5, <3>6
    <2> HIDE DEF v, R
    <2>7. DOMAIN r = DOMAIN R /\ r.universe = v /\ r.audit = NoValue
      BY <2>4
    <2> HIDE DEF r
    <2>8. ResultInv(t, r)
      BY <2>4, <2>6, <2>7 DEF ResultInv, NoResult
    <2>9. /\ DOMAIN results' = DOMAIN results \cup {t} /\ results'[t] = r
          /\ \A w \in DOMAIN results : w # t => results'[w] = results[w]
      BY <2>2, SetResultIs
    <2>10. \A w \in DOMAIN results' : ResultInv(w, results'[w])
      BY <2>8, <2>9 DEF ResultsInv
    <2>11. WithAudit(results') = {}
      BY <2>3, <2>7, <2>9 DEF WithAudit
    <2>12. src'.schema = Definitions /\ src'.schema \notin QuoteSchemas
      BY <2>1, SchemasDiffer
    <2> QED
      BY <1>2, <1>3, <2>10, <2>11, <2>12 DEF ResultsInv
  <1>8. ASSUME DOMAIN results' = DOMAIN results, UNCHANGED <<todo, src>>, Running, Active, src.schema # Definitions,
               \A u \in DOMAIN results : u # At(src) => results'[u] = results[u],
               At(src) \in DOMAIN results => ResultInv(At(src), results'[At(src)]),
               src.schema \in QuoteSchemas => Audited(At(src), results'[At(src)])
        PROVE  ResultsInv'
    <2>1. \A u \in DOMAIN results' : ResultInv(u, results'[u])
      BY <1>8 DEF ResultsInv
    <2>2. At(src)' = At(src)
      BY <1>8 DEF At
    <2>3. \A h \in todo : h.schema # Definitions
      BY <1>8 DEF ResultsInv
    <2> QED
      BY <1>2, <1>3, <1>8, <2>1, <2>2, <2>3 DEF ResultsInv
  <1>9. ASSUME \A u \in DOMAIN results' : ResultInv(u, results'[u]), WithAudit(results') = WithAudit(results),
               todo' = todo, Running' => Running, ~Active', Running /\ Active => src.schema # Definitions \/ WithAudit(results) = {}
        PROVE  ResultsInv'
    BY <1>2, <1>3, <1>9 DEF ResultsInv
  <1>10. CASE UNCHANGED results /\ UNCHANGED <<todo, src>> /\ (Active' => Active) /\ (Running' => Running)
    <2>1. At(src)' = At(src)
      BY <1>10 DEF At
    <2> QED
      BY <1>2, <1>3, <1>10, <2>1 DEF ResultsInv
  <1>11. CASE ReadQuote
    <2>1. /\ src.schema \in QuoteSchemas /\ src.schema # Definitions /\ UNCHANGED <<todo, src, pc>> /\ Running /\ Active
      BY <1>11, SchemasDiffer DEF ReadQuote, Running, Active
    <2>2. CASE Usable(src, Record)
      BY <1>8, <1>11, <2>1, <2>2, QuotesAreAudited
    <2>3. CASE ~Usable(src, Record)
      BY <1>10, <1>11, <2>1, <2>3 DEF ReadQuote, Running, Active
    <2> QED
      BY <2>2, <2>3
  <1>12. ASSUME NEW r, SetResult(At(src), r), DOMAIN r = DOMAIN ResultAt(At(src)),
                r.universe = ResultAt(At(src)).universe, r.audit = ResultAt(At(src)).audit
         PROVE  /\ \A u \in DOMAIN results' : ResultInv(u, results'[u])
                /\ WithAudit(results') = WithAudit(results)
                /\ At(src) \in DOMAIN results /\ Audited(At(src), results[At(src)])
                      => At(src) \in DOMAIN results' /\ Audited(At(src), results'[At(src)])
    <2> DEFINE t == At(src)
               R == ResultAt(t)
    <2>1. ResultInv(t, R) /\ (t \in DOMAIN results => R = results[t]) /\ (t \notin DOMAIN results => R.audit = NoValue)
      BY ResultAtIs, ResultAtHolds
    <2>2. /\ DOMAIN results' = DOMAIN results \cup {t} /\ results'[t] = r
          /\ \A u \in DOMAIN results : u # t => results'[u] = results[u]
      BY <1>12, SetResultIs
    <2>3. ResultInv(t, r) /\ (Audited(t, R) => Audited(t, r))
      BY <1>12, <2>1, ResultStays
    <2>4. r.audit = R.audit
      BY <1>12
    <2> HIDE DEF t, R
    <2>5. \A u \in DOMAIN results' : ResultInv(u, results'[u])
      BY <2>2, <2>3 DEF ResultsInv
    <2>6. WithAudit(results') = WithAudit(results)
      BY <2>1, <2>2, <2>4 DEF WithAudit
    <2> QED
      BY <2>1, <2>2, <2>3, <2>5, <2>6 DEF t
  <1>13. CASE ReadStatistic
    <2> DEFINE R == ResultAt(At(src))
    <2>1. /\ UNCHANGED <<todo, src, pc>> /\ Running /\ Active /\ src.schema # Definitions
          /\ src.schema \notin QuoteSchemas
      BY <1>13, SchemasDiffer DEF ReadStatistic, Running, Active
    <2> SUFFICES ASSUME Usable(src, Record)
                 PROVE  ResultsInv'
      <3> SUFFICES ASSUME ~Usable(src, Record) PROVE ResultsInv'
        OBVIOUS
      <3> QED
        BY <1>10, <1>13, <2>1 DEF ReadStatistic, Running, Active
    <2>2. PICK a : SetResult(At(src), [R EXCEPT !.statistics = a])
      BY <1>13 DEF ReadStatistic
    <2>3. DOMAIN R = {"universe", "audit", "statistics", "skipped", "mids", "reference"}
      BY ResultAtIs
    <2> HIDE DEF R
    <2>4. DOMAIN [R EXCEPT !.statistics = a] = DOMAIN R /\ [R EXCEPT !.statistics = a].universe = R.universe
          /\ [R EXCEPT !.statistics = a].audit = R.audit
      BY <2>3
    <2>5. /\ \A u \in DOMAIN results' : ResultInv(u, results'[u])
          /\ WithAudit(results') = WithAudit(results)
      BY <1>12, <2>2, <2>4 DEF R
    <2>6. \A h \in todo : h.schema # Definitions
      BY <2>1 DEF ResultsInv
    <2> QED
      BY <1>2, <1>3, <2>1, <2>5, <2>6 DEF ResultsInv
  <1>14. CASE Exit
    <2> DEFINE R == ResultAt(At(src))
    <2>1. /\ todo' = todo /\ Running /\ Active /\ ~Active'
      BY <1>14 DEF Exit, Running, Active
    <2>2. Running /\ Active => src.schema # Definitions \/ WithAudit(results) = {}
      BY DEF ResultsInv
    <2>3. CASE src.schema \in QuoteSchemas
      <3>1. PICK a : SetResult(At(src), [R EXCEPT !.skipped = a])
        BY <1>14, <2>3 DEF Exit
      <3>2. DOMAIN R = {"universe", "audit", "statistics", "skipped", "mids", "reference"}
        BY ResultAtIs
      <3> HIDE DEF R
      <3>3. DOMAIN [R EXCEPT !.skipped = a] = DOMAIN R /\ [R EXCEPT !.skipped = a].universe = R.universe
            /\ [R EXCEPT !.skipped = a].audit = R.audit
        BY <3>2
      <3>4. /\ \A u \in DOMAIN results' : ResultInv(u, results'[u])
            /\ WithAudit(results') = WithAudit(results)
        BY <1>12, <3>1, <3>3 DEF R
      <3> QED
        BY <1>9, <2>1, <2>2, <3>4
    <2>4. CASE src.schema \notin QuoteSchemas
      <3>1. UNCHANGED results
        BY <1>14, <2>4 DEF Exit
      <3> QED
        BY <1>9, <2>1, <2>2, <3>1 DEF ResultsInv
    <2> QED
      BY <2>3, <2>4
  <1>15. CASE Report
    <2>1. results' = ResolveReferences(results) /\ todo' = todo /\ Running /\ ~Active /\ ~Active'
      BY <1>15 DEF Report, Running, Active
    <2>2. \A t \in DOMAIN results :
            /\ t \in DOMAIN results' /\ DOMAIN results'[t] = DOMAIN results[t]
            /\ results'[t].universe = results[t].universe /\ results'[t].audit = results[t].audit
      <3>1. \A t \in DOMAIN results : {"universe", "audit"} \subseteq DOMAIN results[t] \ {"reference"}
        BY DEF ResultsInv, ResultInv, NoResult
      <3> QED
        BY <2>1, <3>1, ReferencesAreAdded
    <2>3. DOMAIN results' = DOMAIN results
      BY <2>1, ReferencesAreAdded
    <2>4. \A t \in DOMAIN results' : ResultInv(t, results'[t])
      BY <2>2, <2>3, ResultStays DEF ResultsInv
    <2>5. WithAudit(results') = WithAudit(results)
      BY <2>2, <2>3 DEF WithAudit
    <2> QED
      BY <1>9, <2>1, <2>4, <2>5
  <1>16. CASE DefineEnds \/ WriteDefinition \/ DefinitionsWritten \/ OpenWriter \/ ReadEnds
    BY <1>10, <1>16 DEF DefineEnds, WriteDefinition, DefinitionsWritten, OpenWriter, ReadEnds, Running, Active
  <1>17. CASE WriteFails \/ SaveReport \/ Kill \/ UNCHANGED vars
    BY <1>10, <1>17 DEF WriteFails, Abort, SaveReport, Kill, vars, Running, Active
  <1> QED
    BY <1>4, <1>5, <1>6, <1>7, <1>11, <1>13, <1>14, <1>15, <1>16, <1>17 DEF IngestNext

\* What the steps of a run leave alone.
LEMMA RunKept ==
  ASSUME ProgressInv, [IngestNext]_vars
  PROVE  /\ Inputs(archive)' = Inputs(archive)
         /\ \A f : RecordsRead(f)' = RecordsRead(f) /\ RowsOwed(f)' = RowsOwed(f)
  <1>1. archive' = archive /\ limit' = limit
    BY ProgressStep
  <1>2. Inputs(archive)' = Inputs(archive)
    BY <1>1 DEF Inputs, Candidate, Slot3
  <1>3. ASSUME NEW f PROVE RecordsRead(f)' = RecordsRead(f) /\ RowsOwed(f)' = RowsOwed(f)
    BY <1>1 DEF RecordsRead, RowsOwed, Listings, LastWord
  <1> QED
    BY <1>2, <1>3

\* A row more in the writer, whether it is flushed or not.
LEMMA AddedIs ==
  ASSUME NEW w \in Writer, w.flushed + w.buffer = w.rows
  PROVE  /\ Added(w) \in Writer /\ Added(w).flushed + Added(w).buffer = Added(w).rows
         /\ Added(w).rows = w.rows + 1
  <1> DEFINE b == w.buffer + 1
             full == [buffer |-> 0, flushed |-> w.flushed + b, rows |-> w.rows + 1]
             more == [w EXCEPT !.buffer = b, !.rows = @ + 1]
  <1>1. w.buffer \in Nat /\ w.flushed \in Nat /\ w.rows \in Nat /\ Batch \in Nat \ {0}
    BY BatchAssumption DEF Writer
  <1>2. /\ full \in Writer /\ full.flushed + full.buffer = full.rows /\ full.rows = w.rows + 1
    BY <1>1 DEF Writer
  <1>3. ~(b >= Batch) => more \in Writer /\ more.flushed + more.buffer = more.rows /\ more.rows = w.rows + 1
    <2>1. DOMAIN more = {"buffer", "flushed", "rows"} /\ more = [x \in DOMAIN more |-> more[x]]
      BY DEF Writer
    <2>2. more.buffer = b /\ more.rows = w.rows + 1 /\ more.flushed = w.flushed
      BY DEF Writer
    <2> HIDE DEF more
    <2>3. more = [buffer |-> b, flushed |-> w.flushed, rows |-> w.rows + 1]
      BY <2>1, <2>2
    <2>4. ~(b >= Batch) => b \in 0..Batch
      BY <1>1
    <2> QED
      BY <1>1, <2>2, <2>3, <2>4 DEF Writer
  <1>4. Added(w) = IF b >= Batch THEN full ELSE more
    BY DEF Added
  <1> HIDE DEF full, more
  <1> QED
    BY <1>2, <1>3, <1>4

LEMMA NewWriterIs ==
  NewWriter \in Writer /\ NewWriter.flushed + NewWriter.buffer = NewWriter.rows /\ NewWriter.rows = 0
  BY BatchAssumption DEF NewWriter, Writer

LEMMA WriterStep ==
  ASSUME ProgressInv, LedgerInv, WriterInv, [IngestNext]_vars
  PROVE  WriterInv'
  <1>1. archive \in Archives /\ limit \in RecordLimits /\ (Active => src \in Inputs(archive))
    BY DEF ProgressInv
  <1>2. ASSUME NEW f PROVE RowsOwed(f)' = RowsOwed(f) /\ (\A n : UsableTo(f, n)' = UsableTo(f, n))
    BY RunKept DEF UsableTo
  <1>3. CASE Verify \/ Pick \/ Define \/ Report \/ SaveReport
    <2>1. /\ UNCHANGED <<writer, tmp>> /\ pc \in {"verify", "next", "define", "report"}
          /\ pc' \in {"next", "aborted", "define", "open", "report", "done"}
      BY <1>3 DEF Verify, Pick, Next1, Define, Report, SaveReport
    <2> QED
      BY <2>1 DEF WriterInv, Writing
  <1>4. CASE DecodeFails \/ Exit \/ WriteFails
    BY <1>4 DEF DecodeFails, Exit, WriteFails, Abort, Discard, WriterInv, Writing
  <1>5. CASE Kill
    BY <1>5 DEF Kill, WriterInv, Writing
  <1>6. CASE DefineEnds
    BY <1>6, NewWriterIs DEF DefineEnds, WriterInv, Writing
  <1>7. CASE OpenWriter
    <2>1. pos = 0 /\ pc' = "read" /\ src' = src /\ pos' = pos /\ writer' = NewWriter
      BY <1>7 DEF OpenWriter, ProgressInv
    <2>2. UsableTo(src, pos)' = UsableTo(src, 0)
      BY <2>1 DEF UsableTo
    <2>3. Cardinality(UsableTo(src, 0)) = 0
      BY Counting
    <2> QED
      BY <2>1, <2>2, <2>3, NewWriterIs DEF WriterInv, Writing
  <1>8. CASE WriteDefinition
    <2>1. pc = "rows" /\ pc' = "rows" /\ writer' = Added(writer)
      BY <1>8 DEF WriteDefinition
    <2> QED
      BY <2>1, AddedIs DEF WriterInv, Writing
  <1>9. CASE DefinitionsWritten
    <2>1. pc = "rows" /\ pc' = "exit" /\ UNCHANGED <<src, writer, tmp>> /\ writer.rows = DefinitionRows
      BY <1>9 DEF DefinitionsWritten
    <2>2. src \in Inputs(archive) \ (todo \cup failures) /\ src.schema = Definitions
      BY <2>1 DEF ProgressInv, Active
    <2>3. Recorded(results[At(src)].universe, src, RecordsRead(src))
      BY <2>1, <2>2 DEF LedgerInv, Running, RecordsOf
    <2>4. DefinitionRows = Cardinality(Listings(src))
      BY <1>1, <2>2, <2>3, ContractsAreListings DEF DefinitionRows
    <2>5. writer.rows = RowsOwed(src)
      BY <2>1, <2>2, <2>4 DEF RowsOwed
    <2>6. RowsOwed(src)' = RowsOwed(src)
      BY <2>1, RunKept, ZenonT(40) DEF RowsOwed, RecordsRead, Listings, LastWord
    <2> QED
      BY <2>1, <2>5, <2>6 DEF WriterInv, Writing
  <1>10. CASE ReadEnds
    <2>1. pc = "read" /\ pc' = "exit" /\ UNCHANGED <<src, writer, tmp>> /\ Ended
      BY <1>10 DEF ReadEnds
    <2>2. pos = RecordsRead(src)
      BY <1>1, <2>1, Stopping DEF ProgressInv, Active
    <2>3. src.schema # Definitions
      BY <2>1 DEF ProgressInv
    <2>4. writer.rows = RowsOwed(src)
      <3>1. src \in Inputs(archive)
        BY <1>1, <2>1 DEF Active
      <3>2. \A i : Owes(src, src.records[i]) <=> Usable(src, src.records[i])
        BY <1>1, <2>3, <3>1, OwedIsUsable
      <3> QED
        BY <2>1, <2>2, <2>3, <3>2 DEF WriterInv, Writing, RowsOwed, UsableTo
    <2>5. RowsOwed(src)' = RowsOwed(src)
      BY <2>1, RunKept, ZenonT(40) DEF RowsOwed, RecordsRead, Listings, LastWord
    <2> QED
      BY <2>1, <2>4, <2>5 DEF WriterInv, Writing
  <1>11. ASSUME pc = "read", pc' = "read", UNCHANGED <<src, tmp>>, pos' = pos + 1,
                writer' = IF Usable(src, Record) THEN Added(writer) ELSE writer
         PROVE  WriterInv'
    <2>1. pos \in Nat
      BY <1>1, <1>11, Stopping DEF ProgressInv, Active
    <2>2. UsableTo(src, pos)' = UsableTo(src, pos + 1)
      BY <1>11 DEF UsableTo
    <2>3. Cardinality(UsableTo(src, pos + 1)) =
             Cardinality(UsableTo(src, pos)) + (IF Usable(src, Record) THEN 1 ELSE 0)
          /\ Cardinality(UsableTo(src, pos)) \in Nat
      BY <2>1, Counting DEF Record
    <2>4. /\ writer \in Writer /\ writer.flushed + writer.buffer = writer.rows
          /\ writer.rows = Cardinality(UsableTo(src, pos))
      BY <1>11 DEF WriterInv, Writing
    <2>5. /\ writer' \in Writer /\ writer'.flushed + writer'.buffer = writer'.rows
          /\ writer'.rows = Cardinality(UsableTo(src, pos + 1))
      <3>1. CASE Usable(src, Record)
        BY <1>11, <2>3, <2>4, <3>1, AddedIs
      <3>2. CASE ~Usable(src, Record)
        BY <1>11, <2>3, <2>4, <3>2
      <3> QED
        BY <3>1, <3>2
    <2> QED
      BY <1>11, <2>2, <2>5 DEF WriterInv, Writing
  <1>12. CASE ReadQuote
    BY <1>11, <1>12 DEF ReadQuote
  <1>13. CASE ReadStatistic
    BY <1>11, <1>13 DEF ReadStatistic
  <1>14. CASE UNCHANGED vars
    <2>1. UNCHANGED <<pc, src, pos, writer, tmp>>
      BY <1>14 DEF vars
    <2>2. RowsOwed(src)' = RowsOwed(src)
      BY <2>1, RunKept, ZenonT(40) DEF RowsOwed, RecordsRead, Listings, LastWord
    <2> QED
      BY <2>1, <2>2 DEF WriterInv, Writing, UsableTo
  <1> QED
    BY <1>3, <1>4, <1>5, <1>6, <1>7, <1>8, <1>9, <1>10, <1>12, <1>13, <1>14 DEF IngestNext

SkippedKept == \A t \in DOMAIN results :
    t \in DOMAIN results' /\ results'[t].skipped = results[t].skipped

\* Only the end of a payload of quotes changes a count of skipped records.
LEMMA SkippedIsKept ==
  ASSUME ResultsInv, [IngestNext]_vars, ~(Exit /\ src.schema \in QuoteSchemas)
  PROVE  SkippedKept
  <1>1. ASSUME NEW t, NEW r, SetResult(t, r), t \in DOMAIN results => r.skipped = ResultAt(t).skipped
        PROVE  SkippedKept
    BY <1>1, ResultAtIs, SetResultIs, ZenonT(40) DEF SkippedKept
  <1>2. CASE UNCHANGED results
    BY <1>2 DEF SkippedKept
  <1>3. CASE Pick
    <2>1. PICK g \in todo : Next1(g)
      BY <1>3 DEF Pick
    <2> DEFINE R == ResultAt(At(g))
    <2>2. DOMAIN R = {"universe", "audit", "statistics", "skipped", "mids", "reference"}
      BY ResultAtIs
    <2>3. \/ SetResult(At(g), [R EXCEPT !.universe = EmptyUniverse])
          \/ SetResult(At(g), [R EXCEPT !.audit = NewAudit])
          \/ SetResult(At(g), [R EXCEPT !.statistics = NoStatistics])
      BY <2>1 DEF Next1
    <2> HIDE DEF R
    <2>4. /\ [R EXCEPT !.universe = EmptyUniverse].skipped = R.skipped
          /\ [R EXCEPT !.audit = NewAudit].skipped = R.skipped
          /\ [R EXCEPT !.statistics = NoStatistics].skipped = R.skipped
      BY <2>2
    <2> QED
      BY <1>1, <2>3, <2>4 DEF R
  <1>4. ASSUME NEW u, SetResult(At(src), [ResultAt(At(src)) EXCEPT !.universe = u]) PROVE SkippedKept
    <2> DEFINE R == ResultAt(At(src))
    <2>1. DOMAIN R = {"universe", "audit", "statistics", "skipped", "mids", "reference"}
      BY ResultAtIs
    <2> HIDE DEF R
    <2>2. [R EXCEPT !.universe = u].skipped = R.skipped
      BY <2>1
    <2> QED
      BY <1>1, <1>4, <2>2 DEF R
  <1>5. CASE DecodeFails
    <2>1. CASE pc = "define"
      BY <1>4, <1>5, <2>1 DEF DecodeFails
    <2>2. CASE pc # "define"
      BY <1>2, <1>5, <2>2 DEF DecodeFails
    <2> QED
      BY <2>1, <2>2
  <1>6. CASE Define
    BY <1>2, <1>4, <1>6 DEF Define
  <1>7. CASE ReadQuote
    <2> DEFINE R == ResultAt(At(src))
    <2>1. CASE ~Usable(src, Record)
      BY <1>2, <1>7, <2>1 DEF ReadQuote
    <2>2. CASE Usable(src, Record)
      <3>1. PICK a, m : SetResult(At(src), [R EXCEPT !.audit = a, !.mids = m])
        BY <1>7, <2>2 DEF ReadQuote
      <3>2. DOMAIN R = {"universe", "audit", "statistics", "skipped", "mids", "reference"}
        BY ResultAtIs
      <3> HIDE DEF R
      <3>3. [R EXCEPT !.audit = a, !.mids = m].skipped = R.skipped
        BY <3>2
      <3> QED
        BY <1>1, <3>1, <3>3 DEF R
    <2> QED
      BY <2>1, <2>2
  <1>8. CASE ReadStatistic
    <2> DEFINE R == ResultAt(At(src))
    <2> SUFFICES ASSUME Usable(src, Record)
                 PROVE  SkippedKept
      BY <1>2, <1>8 DEF ReadStatistic
    <2>1. PICK a : SetResult(At(src), [R EXCEPT !.statistics = a])
      BY <1>8 DEF ReadStatistic
    <2>2. DOMAIN R = {"universe", "audit", "statistics", "skipped", "mids", "reference"}
      BY ResultAtIs
    <2> HIDE DEF R
    <2>3. [R EXCEPT !.statistics = a].skipped = R.skipped
      BY <2>2
    <2> QED
      BY <1>1, <2>1, <2>3 DEF R
  <1>9. CASE Report
    <2>1. results' = ResolveReferences(results)
      BY <1>9 DEF Report
    <2>2. \A t \in DOMAIN results : "skipped" \in DOMAIN results[t] \ {"reference"}
      BY DEF ResultsInv, ResultInv, NoResult
    <2> QED
      BY <2>1, <2>2, ReferencesAreAdded DEF SkippedKept
  <1>10. CASE Exit
    BY <1>2, <1>10 DEF Exit
  <1>11. CASE Verify \/ DefineEnds \/ WriteDefinition \/ DefinitionsWritten \/ OpenWriter \/ ReadEnds
    BY <1>2, <1>11 DEF Verify, DefineEnds, WriteDefinition, DefinitionsWritten, OpenWriter, ReadEnds
  <1>12. CASE WriteFails \/ SaveReport \/ Kill \/ UNCHANGED vars
    BY <1>2, <1>12 DEF WriteFails, Abort, SaveReport, Kill, vars
  <1> QED
    BY <1>3, <1>5, <1>6, <1>7, <1>8, <1>9, <1>10, <1>11, <1>12 DEF IngestNext

\* A payload becomes complete at the exit of its writer, and stays complete.
LEMMA Completing ==
  ASSUME ProgressInv, [IngestNext]_vars, pc # "verify", NEW f \in Inputs(archive)
  PROVE  /\ Complete(f) => Complete(f)'
         /\ Complete(f)' => Complete(f) \/ (Exit /\ f = src)
  <1>1. Inputs(archive)' = Inputs(archive) /\ f # NoValue
    BY RunKept, InputFacts DEF ProgressInv
  <1>2. CASE UNCHANGED <<todo, failures, src>>
    BY <1>1, <1>2 DEF Complete
  <1>3. CASE Pick
    <2>1. PICK g \in todo : Next1(g) /\ pc = "next"
      BY <1>3 DEF Pick
    <2>2. todo' = todo \ {g} /\ src' = g /\ failures' = failures /\ src = NoValue
      BY <2>1 DEF Next1, ProgressInv
    <2> QED
      BY <1>1, <2>1, <2>2 DEF Complete
  <1>4. CASE DecodeFails
    <2>1. todo' = todo /\ src' = NoValue /\ failures' = failures \cup {src}
      BY <1>4 DEF DecodeFails, Failed
    <2> QED
      BY <1>1, <2>1 DEF Complete
  <1>5. CASE Exit
    BY <1>1, <1>5 DEF Complete, Exit
  <1>6. CASE Verify
    BY <1>6 DEF Verify
  <1>7. CASE Define \/ DefineEnds \/ WriteDefinition \/ DefinitionsWritten \/ OpenWriter \/ ReadQuote
    BY <1>2, <1>7 DEF Define, DefineEnds, WriteDefinition, DefinitionsWritten, OpenWriter, ReadQuote
  <1>8. CASE ReadStatistic \/ ReadEnds \/ WriteFails \/ Report \/ SaveReport \/ Kill \/ UNCHANGED vars
    BY <1>2, <1>8 DEF ReadStatistic, ReadEnds, WriteFails, Abort, Report, SaveReport, Kill, vars
  <1> QED
    BY <1>3, <1>4, <1>5, <1>6, <1>7, <1>8 DEF IngestNext

LEMMA StaysStopped ==
  ASSUME [IngestNext]_vars, Running'
  PROVE  Running \/ (Verify /\ todo' = Inputs(archive))
  BY DEF IngestNext, vars, Running, Verify, Pick, Next1, DecodeFails, Define, DefineEnds, WriteDefinition,
     DefinitionsWritten, OpenWriter, ReadQuote, ReadStatistic, ReadEnds, Exit, WriteFails, Abort,
     Report, SaveReport, Kill

LEMMA SkippedStep ==
  ASSUME ProgressInv, ResultsInv, SkippedInv, [IngestNext]_vars
  PROVE  SkippedInv'
  <1> DEFINE Lost(f, n) == Cardinality({i \in 1..n : ~Usable(f, f.records[i])})
  <1> SUFFICES ASSUME Running', NEW f \in Inputs(archive), f.schema \in QuoteSchemas, Complete(f)'
               PROVE  At(f) \in DOMAIN results' /\ results'[At(f)].skipped = Lost(f, RecordsRead(f))
    <2>1. Inputs(archive)' = Inputs(archive) /\ \A f : RecordsRead(f)' = RecordsRead(f)
      BY RunKept
    <2> QED
      BY <2>1 DEF SkippedInv, At, Usable
  <1>1. CASE Verify
    <2>1. f \notin todo' /\ Inputs(archive)' = Inputs(archive)
      BY <1>1, RunKept DEF Complete
    <2> QED
      BY <1>1, <2>1 DEF Verify, Running
  <1>2. CASE ~Verify
    <2>1. Running /\ pc # "verify"
      BY <1>2, StaysStopped DEF Running
    <2>2. CASE Complete(f)
      <3>1. At(f) \in DOMAIN results /\ results[At(f)].skipped = Lost(f, RecordsRead(f))
        BY <2>1, <2>2 DEF SkippedInv
      <3>2. CASE ~(Exit /\ src.schema \in QuoteSchemas)
        BY <3>1, <3>2, SkippedIsKept DEF SkippedKept
      <3>3. CASE Exit /\ src.schema \in QuoteSchemas
        <4>1. src \in Inputs(archive) /\ archive \in Archives
          BY <3>3 DEF Exit, ProgressInv, Active
        <4>2. src # f
          BY <2>2 DEF Complete
        <4>3. At(src) # At(f)
          BY <3>3, <4>1, <4>2, InputsDiffer
        <4>4. PICK r : SetResult(At(src), r)
          BY <3>3 DEF Exit
        <4> HIDE DEF Lost
        <4>5. At(f) \in DOMAIN results' /\ results'[At(f)] = results[At(f)]
          BY <3>1, <4>3, <4>4 DEF SetResult, With
        <4> QED
          BY <3>1, <4>5
      <3> QED
        BY <3>2, <3>3
    <2>3. CASE ~Complete(f)
      <3>1. Exit /\ f = src
        BY <2>1, <2>3, Completing
      <3>2. pos = RecordsRead(f)
        BY <3>1 DEF Exit, ProgressInv
      <3> DEFINE R == ResultAt(At(f))
      <3>3. SetResult(At(f), [R EXCEPT !.skipped = Lost(f, pos)])
        BY <3>1 DEF Exit
      <3>4. DOMAIN R = {"universe", "audit", "statistics", "skipped", "mids", "reference"}
        BY ResultAtIs
      <3> HIDE DEF R, Lost
      <3>5. [R EXCEPT !.skipped = Lost(f, pos)].skipped = Lost(f, RecordsRead(f))
        BY <3>2, <3>4
      <3> QED
        BY <3>3, <3>5, SetResultIs
    <2> QED
      BY <2>2, <2>3
  <1> QED
    BY <1>1, <1>2

LEMMA DiskStep ==
  ASSUME ProgressInv, WriterInv, DiskInv, [IngestNext]_vars
  PROVE  DiskInv'
  <1>1. /\ Inputs(archive)' = Inputs(archive) /\ archive \in Archives /\ limit' = limit
        /\ \A f : RowsOwed(f)' = RowsOwed(f)
    BY RunKept, ProgressStep DEF ProgressInv
  <1> DEFINE Whole(t, f) == Destination(f) = t /\ disk[t] = [mine |-> TRUE, rows |-> RowsOwed(f)]
  <1>2. CASE Verify
    <2>1. disk' = disk /\ pc = "verify" /\ pc' # "verify" /\ \A t \in DOMAIN disk : ~disk[t].mine
      BY <1>2 DEF Verify, DiskInv
    <2>2. Running' => \A f \in Inputs(archive) : ~Complete(f)'
      BY <1>1, <1>2 DEF Verify, Running, Complete
    <2> QED
      BY <1>1, <2>1, <2>2 DEF DiskInv
  <1>3. ASSUME ~Verify, disk' = disk, ~Exit PROVE DiskInv'
    <2>1. CASE pc = "verify"
      <3>1. Kill \/ UNCHANGED vars
        BY <1>3, <2>1 DEF IngestNext, Pick, DecodeFails, Define, DefineEnds, WriteDefinition, DefinitionsWritten,
           OpenWriter, ReadQuote, ReadStatistic, ReadEnds, WriteFails, Report, SaveReport
      <3>2. (Running' => FALSE) /\ \A t \in DOMAIN disk : ~disk[t].mine
        BY <2>1, <3>1 DEF Kill, Running, vars, DiskInv
      <3> QED
        BY <1>1, <1>3, <3>2 DEF DiskInv
    <2>2. CASE pc # "verify"
      <3>1. \A f \in Inputs(archive) : Complete(f)' <=> Complete(f)
        BY <1>3, <2>2, Completing
      <3>2. (Running' => Running) /\ pc' # "verify"
        BY <1>3, <2>2, StaysStopped DEF IngestNext, vars, Pick, Next1, DecodeFails, Define, DefineEnds,
           WriteDefinition, DefinitionsWritten, OpenWriter, ReadQuote, ReadStatistic, ReadEnds, WriteFails, Abort,
           Report, SaveReport, Kill
      <3>3. \A f : Destination(f)' = Destination(f)
        BY DEF Destination
      <3> QED
        BY <1>1, <1>3, <3>1, <3>2, <3>3 DEF DiskInv
    <2> QED
      BY <2>1, <2>2
  <1>4. CASE Exit
    <2>1. /\ pc = "exit" /\ pc' = "next" /\ src \in Inputs(archive) \ (todo \cup failures) /\ Running
          /\ (limit = NoValue => src.damage = NoValue)
      BY <1>4 DEF Exit, ProgressInv, Active, Running
    <2> DEFINE t == Destination(src)
    <2>2. FinalRows(writer) = RowsOwed(src)
      <3>1. writer \in Writer /\ writer.flushed + writer.buffer = RowsOwed(src)
        BY <2>1 DEF WriterInv, Writing
      <3> QED
        BY <3>1 DEF FinalRows
    <2>3. disk' = With(disk, t, [mine |-> TRUE, rows |-> RowsOwed(src)])
      BY <1>4, <2>2 DEF Exit
    <2>4. t \in DeclaredSlots
      BY <1>1, <2>1, InputFacts
    <2>5. \A f \in Inputs(archive) : f # src => Destination(f) # t
      BY <1>1, <2>1, InputsDiffer
    <2>6. \A f \in Inputs(archive) : /\ f = src => Complete(f)'
                                     /\ Complete(f)' <=> Complete(f) \/ f = src
      <3>1. src # NoValue /\ src' = NoValue /\ todo' = todo /\ failures' = failures
        BY <1>1, <1>4, <2>1, InputFacts DEF Exit
      <3>2. \A f \in Inputs(archive) : f # NoValue
        BY <1>1, InputFacts
      <3> QED
        BY <1>1, <2>1, <3>1, <3>2 DEF Complete
    <2>7. /\ DOMAIN disk' = DOMAIN disk \cup {t} /\ disk'[t] = [mine |-> TRUE, rows |-> RowsOwed(src)]
          /\ \A u \in DOMAIN disk : u # t => disk'[u] = disk[u]
      BY <2>3 DEF With
    <2> HIDE DEF t
    <2>8. ASSUME NEW u \in DOMAIN disk', disk'[u].mine
          PROVE  \E f \in Inputs(archive) : Complete(f)' /\ Destination(f) = u /\ disk'[u].rows = RowsOwed(f)
      <3>1. CASE u = t
        BY <2>1, <2>6, <2>7, <3>1 DEF t
      <3>2. CASE u # t
        <4>1. u \in DOMAIN disk /\ disk'[u] = disk[u]
          BY <2>7, <3>2
        <4>2. PICK f \in Inputs(archive) : Complete(f) /\ Destination(f) = u /\ disk[u].rows = RowsOwed(f)
          BY <2>8, <4>1 DEF DiskInv
        <4> QED
          BY <2>6, <4>1, <4>2
      <3> QED
        BY <3>1, <3>2
    <2>9. ASSUME NEW f \in Inputs(archive), Complete(f)'
          PROVE  /\ Destination(f) \in DOMAIN disk'
                 /\ disk'[Destination(f)] = [mine |-> TRUE, rows |-> RowsOwed(f)]
                 /\ limit = NoValue => f.damage = NoValue
      <3>1. CASE f = src
        BY <2>1, <2>7, <3>1 DEF t
      <3>2. CASE f # src
        <4>1. Complete(f)
          BY <2>6, <2>9, <3>2
        <4>2. /\ Destination(f) \in DOMAIN disk
              /\ disk[Destination(f)] = [mine |-> TRUE, rows |-> RowsOwed(f)]
              /\ limit = NoValue => f.damage = NoValue
          BY <2>1, <4>1 DEF DiskInv
        <4> QED
          BY <2>5, <2>7, <3>2, <4>2
      <3> QED
        BY <3>1, <3>2
    <2>10. DOMAIN disk' \subseteq DeclaredSlots
      BY <2>4, <2>7 DEF DiskInv
    <2>11. \A f : Destination(f)' = Destination(f)
      BY DEF Destination
    <2> QED
      BY <1>1, <2>1, <2>8, <2>9, <2>10, <2>11 DEF DiskInv
  <1>5. ~Exit => disk' = disk
    BY DEF IngestNext, vars, Verify, Pick, Next1, DecodeFails, Define, DefineEnds, WriteDefinition,
       DefinitionsWritten, OpenWriter, ReadQuote, ReadStatistic, ReadEnds, WriteFails, Abort,
       Report, SaveReport, Kill
  <1> QED
    BY <1>2, <1>3, <1>4, <1>5

\* With a directory for every product and a payload for every slot of them,
\* discovery found an input for every declared slot.
LEMMA NothingMissing ==
  ASSUME DiscoveryFindings(archive) = {}, NEW t \in DeclaredSlots
  PROVE  \E f \in Inputs(archive) : Destination(f) = t
  <1> DEFINE HasDirectory(p) == \E f \in archive.payloads : f.product = p
             Missing == {q \in DOMAIN Product : ~HasDirectory(q)}
             Unfilled == {u \in DeclaredSlots : HasDirectory(u[1]) /\ ~\E f \in Inputs(archive) : Slot3(f) = u}
  <1>1. t[1] \in DOMAIN Product
    BY DEF DeclaredSlots
  <1>2. \A q \in Missing : <<"product_directory_missing", q>> \in DiscoveryFindings(archive)
    BY DEF DiscoveryFindings
  <1>3. \A u \in Unfilled : <<"expected_payload_missing", u[1]>> \in DiscoveryFindings(archive)
    BY DEF DiscoveryFindings
  <1>4. Missing = {} /\ Unfilled = {}
    BY <1>2, <1>3
  <1>5. \E f \in Inputs(archive) : Slot3(f) = t
    BY <1>1, <1>4
  <1> QED
    BY <1>5 DEF Slot3, Destination

\* A payload that lost no record has a row for every record.
LEMMA AllUsable ==
  ASSUME NEW f, NEW n \in Nat, Cardinality({i \in 1..n : ~Usable(f, f.records[i])}) = 0
  PROVE  Cardinality({i \in 1..n : Usable(f, f.records[i])}) = n
  <1> DEFINE Lost == {i \in 1..n : ~Usable(f, f.records[i])}
  <1>1. IsFiniteSet(1..n) /\ Cardinality(1..n) = n
    BY FS_Interval
  <1>2. IsFiniteSet(Lost)
    <2>1. Lost \in SUBSET (1..n)
      OBVIOUS
    <2> QED
      BY <1>1, <2>1, FS_Subset
  <1>3. Lost = {}
    BY <1>2, FS_EmptySet
  <1>4. {i \in 1..n : Usable(f, f.records[i])} = 1..n
    BY <1>3
  <1> QED
    BY <1>1, <1>4

LEMMA ReportStep ==
  ASSUME ProgressInv, ResultsInv, SkippedInv, DiskInv, ReportInv, [IngestNext]_vars
  PROVE  ReportInv'
  <1>1. archive' = archive /\ limit' = limit /\ archive \in Archives /\ limit \in RecordLimits
    BY ProgressStep DEF ProgressInv
  <1>2. ASSUME NEW f PROVE RowsOwed(f)' = RowsOwed(f)
    BY RunKept
  <1>3. CASE report' = NoValue
    BY <1>3 DEF ReportInv, FeasibleIsLossless
  <1>4. CASE UNCHANGED <<report, disk>> /\ report # NoValue /\ pc' \in {"report", "done"}
    BY <1>1, <1>2, <1>4 DEF ReportInv, FeasibleIsLossless, Destination
  <1>5. CASE Report
    <2> DEFINE R == ResolveReferences(results)
               F == IngestionFeasibility(archive, R, failures, Stale)
    <2>1. /\ pc = "next" /\ todo = {} /\ src = NoValue /\ Running /\ pc' = "report" /\ disk' = disk
          /\ report' = Capabilities(archive, R, failures, Stale)
      BY <1>5 DEF Report, ProgressInv, Running
    <2>2. SUFFICES ASSUME limit = NoValue, report'.ingestion
                   PROVE  /\ DOMAIN disk = DeclaredSlots
                          /\ \A t \in DeclaredSlots : \E f \in archive.payloads :
                                /\ Destination(f) = t /\ f.damage = NoValue
                                /\ disk[t] = [mine |-> TRUE,
                                              rows |-> IF f.schema \in QuoteSchemas THEN Len(f.records)
                                                       ELSE RowsOwed(f)]
      BY <1>1, <1>2, <2>1 DEF ReportInv, FeasibleIsLossless, Destination
    <2>3. AllHold(F)
      BY <2>1, <2>2 DEF Capabilities, With
    <2>4. F.present_once /\ F.decoded /\ F.normalized
      BY <2>3 DEF AllHold, IngestionFeasibility
    <2>5. DiscoveryFindings(archive) = {} /\ failures = {} /\ \A t \in DOMAIN R : R[t].skipped = 0
      BY <2>4 DEF IngestionFeasibility
    <2>6. \A t \in DOMAIN results : results[t].skipped = 0
      <3>1. \A t \in DOMAIN results : "skipped" \in DOMAIN results[t] \ {"reference"}
        BY DEF ResultsInv, ResultInv, NoResult
      <3> QED
        BY <2>5, <3>1, ReferencesAreAdded
    <2>7. \A f \in Inputs(archive) : Complete(f)
      <3>1. \A f \in Inputs(archive) : f # NoValue
        BY <1>1, InputFacts
      <3> QED
        BY <2>1, <2>5, <3>1 DEF Complete
    <2>8. ASSUME NEW t \in DeclaredSlots
          PROVE  /\ t \in DOMAIN disk
                 /\ \E f \in archive.payloads :
                       /\ Destination(f) = t /\ f.damage = NoValue
                       /\ disk[t] = [mine |-> TRUE,
                                     rows |-> IF f.schema \in QuoteSchemas THEN Len(f.records)
                                              ELSE RowsOwed(f)]
      <3>1. PICK f \in Inputs(archive) : Destination(f) = t
        BY <2>5, NothingMissing
      <3>2. f \in archive.payloads /\ Len(f.records) \in Nat /\ RecordsRead(f) = Len(f.records)
        BY <1>1, <2>2, InputFacts DEF RecordsRead
      <3>3. t \in DOMAIN disk /\ disk[t] = [mine |-> TRUE, rows |-> RowsOwed(f)] /\ f.damage = NoValue
        BY <2>1, <2>2, <2>7, <3>1 DEF DiskInv
      <3>4. f.schema \in QuoteSchemas => RowsOwed(f) = Len(f.records)
        <4> SUFFICES ASSUME f.schema \in QuoteSchemas PROVE RowsOwed(f) = Len(f.records)
          OBVIOUS
        <4>1. Cardinality({i \in 1..RecordsRead(f) : ~Usable(f, f.records[i])}) = 0
          BY <2>1, <2>6, <2>7 DEF SkippedInv
        <4>2. Cardinality({i \in 1..RecordsRead(f) : Usable(f, f.records[i])}) = RecordsRead(f)
          BY <3>2, <4>1, AllUsable
        <4>3. f.schema # Definitions
          BY SchemasDiffer
        <4>4. \A i : Owes(f, f.records[i]) <=> Usable(f, f.records[i])
          BY <1>1, <4>3, OwedIsUsable
        <4> QED
          BY <3>2, <4>2, <4>3, <4>4 DEF RowsOwed
      <3> QED
        BY <3>1, <3>2, <3>3, <3>4
    <2> QED
      BY <2>8 DEF DiskInv
  <1>6. CASE SaveReport
    BY <1>3, <1>4, <1>6 DEF SaveReport
  <1>7. CASE UNCHANGED vars
    BY <1>3, <1>4, <1>7 DEF vars, ReportInv
  <1>8. CASE Kill
    BY <1>3, <1>8 DEF Kill
  <1>9. ASSUME report' = report, pc \notin {"report", "done"} PROVE ReportInv'
    BY <1>3, <1>9 DEF ReportInv
  <1>10. CASE Verify \/ Pick \/ DecodeFails \/ Define \/ DefineEnds \/ WriteDefinition \/ DefinitionsWritten
    BY <1>9, <1>10 DEF Verify, Pick, Next1, DecodeFails, Define, DefineEnds, WriteDefinition, DefinitionsWritten
  <1>11. CASE OpenWriter \/ ReadQuote \/ ReadStatistic \/ ReadEnds \/ Exit \/ WriteFails
    BY <1>9, <1>11 DEF OpenWriter, ReadQuote, ReadStatistic, ReadEnds, Exit, WriteFails, Abort
  <1> QED
    BY <1>5, <1>6, <1>7, <1>8, <1>10, <1>11 DEF IngestNext

-----------------------------------------------------------------------------
(* The invariant, and what the runs check.                                  *)

THEOREM IngestStep == IngestInv /\ [IngestNext]_vars => IngestInv'
  <1> SUFFICES ASSUME IngestInv, [IngestNext]_vars PROVE IngestInv'
    OBVIOUS
  <1>1. ProgressInv /\ WriterInv /\ LedgerInv /\ ResultsInv /\ SkippedInv /\ DiskInv /\ ReportInv
    BY DEF IngestInv
  <1>2. ProgressInv' /\ LedgerInv' /\ ResultsInv'
    BY <1>1, ProgressStep, LedgerStep, ResultsStep
  <1>3. WriterInv' /\ SkippedInv' /\ DiskInv' /\ ReportInv'
    BY <1>1, WriterStep, SkippedStep, DiskStep, ReportStep
  <1> QED
    BY <1>2, <1>3 DEF IngestInv

\* At every point of every run over every archive the parts of the invariant
\* hold: what has been read and written, what the ledger, the audits, the
\* processed root and the report stand for (market/ingest.py, Auditor.run).
THEOREM IngestInvariance == IngestSpec => []IngestInv
  <1> QED
    BY IngestInitial, IngestStep, PTL DEF IngestSpec

\* Whatever the order of the definitions of a payload, its deletions and its
\* unresolvable records, the universe resolved from it lists exactly the
\* instruments whose last effective record lists them, each with the contract
\* that record gives (market/instruments.py, the offers of build_option_universe
\* and build_future_universe).
THEOREM LedgerIsTheLastWord == IngestSpec => []LedgerIsLatest
  <1>1. IngestInv => LedgerIsLatest
    <2> SUFFICES ASSUME IngestInv, NEW f \in archive.payloads, f.schema = Definitions, Complete(f), Running
                 PROVE  LET contracts == Contracts(results[At(f)].universe)
                        IN  /\ DOMAIN contracts = Listings(f)
                            /\ \A i \in 1..RecordsRead(f) : LET r == f.records[i] IN
                                  LastWord(f, i) /\ r.action # Delete => contracts[r.key] = Contract(f, r)
      BY DEF LedgerIsLatest, Running
    <2>1. /\ archive \in Archives /\ limit \in RecordLimits
          /\ f \in Inputs(archive) \ (todo \cup failures) /\ f # src
      BY DEF IngestInv, ProgressInv, Complete
    <2>2. Recorded(results[At(f)].universe, f, RecordsRead(f))
      BY <2>1 DEF IngestInv, LedgerInv, RecordsOf
    <2> QED
      BY <2>1, <2>2, ContractsAreListings
  <1> QED
    BY <1>1, IngestInvariance, PTL

\* Every partition this run put under the processed root is whole, whichever
\* call failed or whenever the process died, and the writer's temporary file
\* outlives it only in a killed process (market/writer.py, __exit__).
THEOREM PartitionsAreWhole == IngestSpec => []NoPartialPartition
  <1>1. IngestInv => NoPartialPartition
    <2> SUFFICES ASSUME IngestInv PROVE NoPartialPartition
      OBVIOUS
    <2>1. \A t \in DOMAIN disk : disk[t].mine =>
             \E f \in Inputs(archive) \ failures : Destination(f) = t /\ disk[t].rows = RowsOwed(f)
      BY DEF IngestInv, DiskInv, Complete
    <2>2. NoValue \notin Writer
      BY ArchivesAssumption
    <2>3. tmp => writer # NoValue \/ pc = "killed"
      BY <2>2 DEF IngestInv, WriterInv
    <2> QED
      BY <2>1, <2>3 DEF NoPartialPartition
  <1> QED
    BY <1>1, IngestInvariance, PTL

\* Quotes are counted in the primary population only for instruments that the
\* definitions of their date list, the coverage of that population is at most
\* one, and no record is counted twice or lost (market/ingest.py,
\* _population_classifier, and market/feasibility.py, QuoteAudit).
THEOREM QuotesAreClassified == IngestSpec => []QuotesClassified
  <1>1. IngestInv => QuotesClassified
    <2> SUFFICES ASSUME IngestInv, NEW t \in WithUniverse(results) \cap WithAudit(results)
                 PROVE  LET audit == results[t].audit
                            contracts == Contracts(results[t].universe)
                            population == IF Product[t[1]].kind = "future" THEN Outrights(contracts)
                                          ELSE DOMAIN contracts
                            primary == audit.populations[Primary]
                            covered == CoverageBlock(primary.tradable, primary.coreMinutes,
                                                     Cardinality(population))
                        IN  /\ InstrumentsIn(audit, Primary) \subseteq population
                            /\ covered.present <= covered.expected
                            /\ audit.records = audit.populations[Primary].records
                                   + audit.populations[MultiLeg].records
                                   + audit.populations[Unclassified].records
      BY DEF QuotesClassified
    <2> DEFINE r == results[t]
               population == PrimaryKeys(t[1], r.universe)
               primary == r.audit.populations[Primary]
    <2>1. t \in DOMAIN results /\ r.universe # NoValue /\ r.audit # NoValue
      BY DEF WithUniverse, WithAudit
    <2>2. AuditInv(r.audit) /\ InstrumentsIn(r.audit, Primary) \subseteq population
          /\ IsFiniteSet(DOMAIN r.universe.ledger)
      BY <2>1 DEF IngestInv, ResultsInv, ResultInv, Audited
    <2>3. population \in SUBSET DOMAIN r.universe.ledger
      BY DEF PrimaryKeys, Outrights, Contracts
    <2>4. IsFiniteSet(population)
      BY <2>2, <2>3, FS_Subset
    <2>5. CoverageInv(primary) /\ DOMAIN primary.raw \subseteq population
      BY <2>2 DEF AuditInv, InstrumentsIn, Labels
    <2>6. LET block == CoverageBlock(primary.tradable, primary.coreMinutes, Cardinality(population))
          IN  block.present <= block.expected
      BY <2>4, <2>5, CoverageIsBounded
    <2>7. population = IF Product[t[1]].kind = "future" THEN Outrights(Contracts(r.universe))
                       ELSE DOMAIN Contracts(r.universe)
      BY DEF PrimaryKeys
    <2>8. r.audit.records = r.audit.populations[Primary].records + r.audit.populations[MultiLeg].records
                            + r.audit.populations[Unclassified].records
      BY <2>2 DEF AuditInv
    <2> HIDE DEF population
    <2> QED
      BY <2>2, <2>6, <2>7, <2>8
  <1> QED
    BY <1>1, IngestInvariance, PTL

\* A report that calls the ingestion feasible stands for a processed root with
\* every declared partition and nothing else: a row for every record of a payload
\* of quotes, for every definition in force and for every dated statistic
\* (market/ingest.py, the checks Auditor.run reports over what it published).
THEOREM FeasibleReportsAreLossless == IngestSpec => []FeasibleIsLossless
  <1>1. IngestInv => FeasibleIsLossless
    BY DEF IngestInv, ReportInv
  <1> QED
    BY <1>1, IngestInvariance, PTL
=============================================================================
