------------------------------- MODULE Ingest -------------------------------
(***************************************************************************)
(* One run of the market ingestion (market/ingest.py Auditor.run and main)  *)
(* over an archive: payload after payload, record after record, through     *)
(* the atomic Parquet writer of market/writer.py, to the feasibility        *)
(* report.  The disk may hold partitions of an earlier run.  Every call of  *)
(* the writer may fail and the process may be killed anywhere.              *)
(***************************************************************************)
EXTENDS Feasibility

CONSTANTS Archives,     \* the archives a run may meet
          Batch,        \* records per row group
          RecordLimits  \* the values --max-records-per-file may have, NoValue included

ASSUME BatchAssumption == Batch \in Nat \ {0}

VARIABLES archive,    \* the archive of this run
          limit,      \* --max-records-per-file
          pc,         \* where the run is
          todo,       \* inputs not yet ingested
          src,        \* the input being ingested
          pos,        \* records of it consumed
          results,    \* <<product, date>> -> what was ingested
          previous,   \* the last book of each instrument of the payload
          writer,     \* the open writer: [buffer, flushed, rows], or NoValue
          disk,       \* the processed root: slot -> [mine, rows]
          tmp,        \* whether the writer's temporary file is on disk
          published,  \* slots published by this run
          failures,   \* inputs that failed to decode
          report      \* the capabilities written, or NoValue

data == <<archive, limit>>
vars == <<archive, limit, pc, todo, src, pos, results, previous, writer, disk, tmp,
          published, failures, report>>

Writer == [buffer : 0..Batch, flushed : Nat, rows : Nat]
Stages == {"verify", "next", "define", "rows", "open", "read", "exit", "report",
           "done", "aborted", "killed"}

\* A payload's serial is the rank of its path; a decoded stamp or timestamp is an
\* integer unless it is undefined; no contract is the missing one.
ASSUME ArchivesAssumption ==
    /\ NoValue \notin Int \cup Writer
    /\ RecordLimits \subseteq Nat \cup {NoValue}
    /\ \A p \in DOMAIN Product :
          Product[p].schemas \subseteq {Definitions, Statistics} \cup QuoteSchemas
    /\ \A a \in Archives :
        /\ NoValue \notin a.payloads
        /\ \A f, g \in a.payloads : f.serial = g.serial => f = g
        /\ \A f \in a.payloads :
            /\ f.serial \in Int /\ f.product \in DOMAIN Product
            /\ Len(f.records) \in Nat
            /\ f.damage \in 0..Len(f.records) \cup {NoValue}
            /\ \A i \in 1..Len(f.records) : LET r == f.records[i] IN
                /\ f.schema = Definitions =>
                    /\ Effective(r) \in Int
                    /\ IF Product[f.product].kind = "option"
                       THEN OptionResolves(r) => OptionContract(r, Product[f.product].root) # NoValue
                       ELSE FutureContract(r) # NoValue
                /\ f.schema \in QuoteSchemas /\ Normalizable(r) => r.ts \in Int

\* The configuration names one quote schema per product.  parse_market_config would
\* let it list the other one too; the second payload's count of records without a
\* book would then replace the first's in the result of their date.
ASSUME QuoteSchemaAssumption ==
    \A p \in DOMAIN Product : \A s, u \in Product[p].schemas \cap QuoteSchemas : s = u

IngestTypeOK ==
    /\ archive \in Archives /\ limit \in RecordLimits
    /\ pc \in Stages
    /\ todo \subseteq archive.payloads
    /\ src \in archive.payloads \cup {NoValue}
    /\ pos \in Nat
    /\ DOMAIN results \subseteq (DOMAIN Product) \X Dates
    /\ writer \in Writer \cup {NoValue}
    /\ DOMAIN disk \subseteq DeclaredSlots /\ published \subseteq DOMAIN disk
    /\ tmp \in BOOLEAN
    /\ failures \subseteq Inputs(archive)

\* What an earlier run may have left under the processed root.
Leftovers == {{}, DeclaredSlots}

IngestInit ==
    /\ archive \in Archives /\ limit \in RecordLimits
    /\ \E old \in Leftovers : disk = [t \in old |-> [mine |-> FALSE, rows |-> 0]]
    /\ pc = "verify" /\ todo = {} /\ src = NoValue /\ pos = 0
    /\ results = <<>> /\ previous = <<>> /\ writer = NoValue
    /\ tmp = FALSE /\ published = {} /\ failures = {} /\ report = NoValue

-----------------------------------------------------------------------------
(* The writer.  A flush clears the buffer; whatever raises inside the with  *)
(* block, or in the final flush, close or rename, discards the temporary    *)
(* file, and a WriterError ends the run.                                    *)

NewWriter == [buffer |-> 0, flushed |-> 0, rows |-> 0]

Added(w) == LET b == w.buffer + 1
            IN  IF b >= Batch
                THEN [buffer |-> 0, flushed |-> w.flushed + b, rows |-> w.rows + 1]
                ELSE [w EXCEPT !.buffer = b, !.rows = @ + 1]

Flushes(w) == w.buffer + 1 >= Batch


Discard == tmp' = FALSE /\ writer' = NoValue

Abort == pc' = "aborted" /\ Discard
         /\ UNCHANGED <<data, todo, src, pos, results, previous, disk, published, failures,
                        report>>

\* The final flush, then close, then os.replace.
FinalRowsUnflushed(w) == w.flushed

FinalRows(w) == w.flushed + w.buffer

Destination(f) == <<f.product, f.schema, f.date>>

\* A record that the pass over its payload takes.  A quote without a usable book is
\* counted; in a payload of another schema, what is not a message of it (`message`)
\* and a statistic without a receive time are passed over without a trace.
Usable(f, r) ==
    IF f.schema \in QuoteSchemas THEN Normalizable(r)
    ELSE r.message = f.schema /\ (f.schema = Statistics => r.ts # NoValue)

\* The failed payload is logged, and forgotten by the report.
FailedForgotten(f) == failures

Failed(f) == failures \cup {f}

-----------------------------------------------------------------------------
At(f) == <<f.product, f.date>>
ResultAt(t) == IF t \in DOMAIN results THEN results[t] ELSE NoResult
SetResult(t, r) == results' = With(results, t, r)

Verify ==
    /\ pc = "verify"
    /\ IF Verified(archive) /\ Inputs(archive) # {}
       THEN pc' = "next" /\ todo' = Inputs(archive)
       ELSE pc' = "aborted" /\ UNCHANGED todo
    /\ UNCHANGED <<data, src, pos, results, previous, writer, disk, tmp, published, failures,
                   report>>

\* The loop head of run(): definitions first, then quotes, then statistics.  A
\* quote or statistics payload starts from a new or the existing audit.
Next1(f) ==
    /\ f \in todo /\ \A g \in todo : ReadBefore(f, g)
    /\ src' = f /\ pos' = 0 /\ todo' = todo \ {f} /\ previous' = <<>>
    /\ pc' = IF f.schema = Definitions THEN "define" ELSE "open"
    /\ SetResult(At(f),
          CASE f.schema = Definitions -> [ResultAt(At(f)) EXCEPT !.universe = EmptyUniverse]
            [] f.schema \in QuoteSchemas -> [ResultAt(At(f)) EXCEPT !.audit = NewAudit]
            [] OTHER -> [ResultAt(At(f)) EXCEPT !.statistics = NoStatistics])
    /\ UNCHANGED <<data, writer, disk, tmp, published, failures, report>>

Pick == pc = "next" /\ \E f \in todo : Next1(f)

\* The decoder raises after `damage` records, or at the end of the payload.
Damaged == src.damage # NoValue /\ src.damage = pos
Capped == limit # NoValue /\ pos >= limit
Ended == Capped \/ pos = Len(src.records)
Record == src.records[pos + 1]
More == ~Ended /\ ~Damaged

\* DbnError: the payload is recorded as failed, its writer discarded, and the
\* run goes on.  Definitions that were being resolved are dropped; an audit of
\* quotes or statistics keeps what it has seen.
DecodeFails ==
    /\ pc \in {"define", "read"}
    /\ Damaged /\ ~Capped
    /\ failures' = Failed(src)
    /\ IF pc = "define" THEN SetResult(At(src), [ResultAt(At(src)) EXCEPT !.universe = NoValue])
       ELSE UNCHANGED results
    /\ Discard
    /\ pc' = "next" /\ src' = NoValue
    /\ UNCHANGED <<data, todo, pos, previous, disk, published, report>>

\* build_option_universe and build_future_universe, one record at a time.
Define ==
    /\ pc = "define" /\ More
    /\ LET u == ResultAt(At(src)).universe
           step == IF Product[src.product].kind = "option"
                   THEN OptionStep(u, Record, pos, Product[src.product].root)
                   ELSE FutureStep(u, Record, pos)
       IN  IF Usable(src, Record)
           THEN SetResult(At(src), [ResultAt(At(src)) EXCEPT !.universe = step])
           ELSE UNCHANGED results
    /\ pos' = pos + 1
    /\ UNCHANGED <<data, pc, todo, src, previous, writer, disk, tmp, published, failures, report>>

\* The universe is complete: open the partition.
DefineEnds ==
    /\ pc = "define" /\ Ended /\ (Capped \/ ~Damaged)
    /\ writer' = NewWriter /\ tmp' = TRUE /\ pc' = "rows"
    /\ UNCHANGED <<data, todo, src, pos, results, previous, disk, published, failures, report>>

DefinitionRows == Cardinality(DOMAIN Contracts(results[At(src)].universe))

WriteDefinition ==
    /\ pc = "rows" /\ writer.rows < DefinitionRows
    /\ writer' = Added(writer)
    /\ UNCHANGED <<data, pc, todo, src, pos, results, previous, disk, tmp, published, failures,
                   report>>

DefinitionsWritten ==
    /\ pc = "rows" /\ writer.rows = DefinitionRows
    /\ pc' = "exit"
    /\ UNCHANGED <<data, todo, src, pos, results, previous, writer, disk, tmp, published,
                   failures, report>>

OpenWriter ==
    /\ pc = "open"
    /\ writer' = NewWriter /\ tmp' = TRUE /\ pc' = "read"
    /\ UNCHANGED <<data, todo, src, pos, results, previous, disk, published, failures, report>>

\* One quote: normalize against the instrument's previous book, count it in its
\* population, follow the reference price, write the row.
ReadQuote ==
    /\ pc = "read" /\ More /\ src.schema \in QuoteSchemas
    /\ LET t == At(src)
           q == Normalize(Record, IF Record.key \in DOMAIN previous THEN previous[Record.key]
                                  ELSE NoValue)
           r == ResultAt(t)
           tracked == /\ Product[src.product].selection # NoValue
                      /\ q.core /\ q.session /\ Slot(q.ts) # NoValue
       IN  IF ~Usable(src, Record)
           THEN UNCHANGED <<results, previous, writer>>
           ELSE /\ SetResult(t, [r EXCEPT
                     !.audit = Observe(@, q, Population(src.product, r.universe, q.key)),
                     !.mids = IF tracked
                              THEN With(@, q.key, With(IF q.key \in DOMAIN @ THEN @[q.key] ELSE <<>>,
                                                       Slot(q.ts), q.mid))
                              ELSE @])
                /\ previous' = With(previous, Record.key, Book(Record))
                /\ writer' = Added(writer)
    /\ pos' = pos + 1
    /\ UNCHANGED <<data, pc, todo, src, disk, tmp, published, failures, report>>

\* One statistic, classified by the futures definitions of the same date.
ReadStatistic ==
    /\ pc = "read" /\ More /\ src.schema = Statistics
    /\ LET u == ResultAt(At(src)).universe
           outright == IF u = NoValue \/ Product[src.product].kind # "future" THEN "unknown"
                       ELSE IF Record.key \notin DOMAIN Contracts(u) THEN "unknown"
                       ELSE IF Contracts(u)[Record.key].outright THEN "outright" ELSE "multi_leg"
       IN  IF Usable(src, Record)
           THEN /\ SetResult(At(src), [ResultAt(At(src)) EXCEPT
                                  !.statistics = StatisticStep(@, Record, outright)])
                /\ writer' = Added(writer)
           ELSE UNCHANGED <<results, writer>>
    /\ pos' = pos + 1
    /\ UNCHANGED <<data, pc, todo, src, previous, disk, tmp, published, failures, report>>

ReadEnds ==
    /\ pc = "read" /\ Ended /\ (Capped \/ ~Damaged)
    /\ pc' = "exit"
    /\ UNCHANGED <<data, todo, src, pos, results, previous, writer, disk, tmp, published,
                   failures, report>>

\* __exit__ without an exception, then the count of records without a book.
Exit ==
    /\ pc = "exit"
    /\ IF src.schema \in QuoteSchemas
       THEN SetResult(At(src), [ResultAt(At(src)) EXCEPT !.skipped =
                Cardinality({i \in 1..pos : ~Usable(src, src.records[i])})])
       ELSE UNCHANGED results
    /\ disk' = With(disk, Destination(src), [mine |-> TRUE, rows |-> FinalRows(writer)])
    /\ published' = published \cup {Destination(src)}
    /\ Discard
    /\ pc' = "next" /\ src' = NoValue
    /\ UNCHANGED <<data, todo, pos, previous, failures, report>>

\* The writer cannot be opened, a row group cannot be written, or the final
\* flush, close or rename fails.
WriteFails ==
    /\ \/ pc \in {"open", "exit"}
       \/ pc = "define" /\ Ended /\ (Capped \/ ~Damaged)
       \/ pc = "rows" /\ writer.rows < DefinitionRows /\ Flushes(writer)
       \/ pc = "read" /\ More /\ Flushes(writer) /\ Usable(src, Record)
    /\ Abort

\* Files under the processed root that this run did not publish.
Stale == DOMAIN disk \ published

Report ==
    /\ pc = "next" /\ todo = {}
    /\ results' = ResolveReferences(results)
    /\ pc' = "report"
    /\ report' = Capabilities(archive, ResolveReferences(results), failures, Stale)
    /\ UNCHANGED <<data, todo, src, pos, previous, writer, disk, tmp, published, failures>>

\* write_json_atomically: the report appears, or the run fails.
SaveReport ==
    /\ pc = "report"
    /\ \/ pc' = "done" /\ UNCHANGED report
       \/ pc' = "aborted" /\ report' = NoValue
    /\ UNCHANGED <<data, todo, src, pos, results, previous, writer, disk, tmp, published,
                   failures>>

Kill ==
    /\ pc \notin {"done", "aborted", "killed"}
    /\ pc' = "killed" /\ writer' = NoValue /\ report' = NoValue
    /\ UNCHANGED <<data, todo, src, pos, results, previous, disk, tmp, published, failures>>

IngestNext ==
    \/ Verify \/ Pick \/ DecodeFails \/ Define \/ DefineEnds \/ WriteDefinition
    \/ DefinitionsWritten \/ OpenWriter \/ ReadQuote \/ ReadStatistic \/ ReadEnds
    \/ Exit \/ WriteFails \/ Report \/ SaveReport \/ Kill

IngestSpec == IngestInit /\ [][IngestNext]_vars

-----------------------------------------------------------------------------
(* What the run promises.                                                   *)

RecordsRead(f) == IF limit # NoValue /\ limit < Len(f.records) THEN limit ELSE Len(f.records)

Resolves(f, r) ==
    IF Product[f.product].kind = "option" THEN OptionResolves(r) ELSE FutureResolves(r)

\* What a definition record says its instrument is.
Contract(f, r) == IF Product[f.product].kind = "option"
                  THEN OptionContract(r, Product[f.product].root) ELSE FutureContract(r)

\* The definition messages that say something of an instrument: they resolve, or
\* they delete it.
Speaks(f, i) == LET r == f.records[i] IN
    r.message = Definitions /\ (r.action = Delete \/ Resolves(f, r))

\* The last effective one of an instrument, whatever order they came in.
LastWord(f, i) ==
    Speaks(f, i) /\ \A j \in 1..RecordsRead(f) :
        /\ j # i /\ Speaks(f, j) /\ f.records[j].key = f.records[i].key
        => \/ Effective(f.records[j]) < Effective(f.records[i])
           \/ Effective(f.records[j]) = Effective(f.records[i]) /\ j < i

Listings(f) == {f.records[i].key : i \in {j \in 1..RecordsRead(f) :
                    LastWord(f, j) /\ f.records[j].action # Delete}}

Complete(f) == f \in Inputs(archive) \ (todo \cup failures \cup {src})

\* A resolved universe is what the last effective definition of every
\* instrument says, in whatever order the payload gives them: it has a contract
\* for the instruments whose last word lists them, and the contract that word
\* gives (instruments.py's ledger, its tombstones, superseded and unresolvable
\* records included).
LedgerIsLatest ==
    \A f \in archive.payloads : f.schema = Definitions /\ Complete(f)
            /\ pc \notin {"verify", "aborted", "killed"} =>
        LET contracts == Contracts(results[At(f)].universe)
        IN  /\ DOMAIN contracts = Listings(f)
            /\ \A i \in 1..RecordsRead(f) : LET r == f.records[i] IN
                  LastWord(f, i) /\ r.action # Delete => contracts[r.key] = Contract(f, r)

\* A partition owes a row for every definition in force, every dated statistic and
\* every quote with a usable book.
Owes(f, r) == IF f.schema = Statistics THEN r.message = Statistics /\ r.ts # NoValue
              ELSE Normalizable(r)
RowsOwed(f) == IF f.schema = Definitions THEN Cardinality(Listings(f))
               ELSE Cardinality({i \in 1..RecordsRead(f) : Owes(f, f.records[i])})

\* Every partition this run put under the processed root holds all the rows of
\* its payload, none comes from a payload that failed to decode, and the
\* writer's temporary file outlives the writer only in a killed process.
NoPartialPartition ==
    /\ \A t \in DOMAIN disk : disk[t].mine =>
          \E f \in Inputs(archive) \ failures : Destination(f) = t /\ disk[t].rows = RowsOwed(f)
    /\ tmp => writer # NoValue \/ pc = "killed"

\* A quote is counted in the primary population only when its instrument has a
\* resolved definition, and an outright one for a future, if the date's
\* definitions decoded; the coverage reported over that population is at most
\* one, and every record is in exactly one population.
QuotesClassified ==
    \A t \in WithUniverse(results) \cap WithAudit(results) : pc # "define" =>
        LET audit == results[t].audit
            contracts == Contracts(results[t].universe)
            population == IF Product[t[1]].kind = "future" THEN Outrights(contracts)
                          ELSE DOMAIN contracts
            primary == audit.populations[Primary]
            covered == CoverageBlock(primary.tradable, primary.coreMinutes,
                                     Cardinality(population))
        IN  /\ InstrumentsIn(audit, Primary) \subseteq population
            /\ covered.present <= covered.expected
            /\ audit.records = audit.populations[Primary].records
                   + audit.populations[MultiLeg].records + audit.populations[Unclassified].records

\* A report that calls the ingestion feasible, of a run that read whole
\* payloads, stands for a processed root that holds every declared partition
\* and nothing else: a row for every record of a payload of quotes, for every
\* definition in force, and for every dated statistic of a payload of statistics.
FeasibleIsLossless ==
    report # NoValue /\ limit = NoValue => (report.ingestion =>
        /\ DOMAIN disk = DeclaredSlots
        /\ \A t \in DeclaredSlots : \E f \in archive.payloads :
              /\ Destination(f) = t /\ f.damage = NoValue
              /\ disk[t] = [mine |-> TRUE,
                            rows |-> IF f.schema \in QuoteSchemas THEN Len(f.records)
                                     ELSE RowsOwed(f)])
=============================================================================
