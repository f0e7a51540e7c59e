------------------------------- MODULE Dataset -------------------------------
(***************************************************************************)
(* Generation and consumption of a synthetic dataset.  generate_dataset     *)
(* (data/generate.py) writes one Parquet file per partition in place,       *)
(* hashes each back from the disk and writes manifest.json last; training   *)
(* and evaluation (ml/dataset.py) read the manifest three times, hash each  *)
(* partition they load and open it again.  Several generators, killed or    *)
(* failing between any two calls, share the directory with one consumer,    *)
(* which trains and later evaluates what it trained.                        *)
(*                                                                          *)
(* A file's content stands for its digest: two files agree on one exactly   *)
(* when they agree on the other.                                            *)
(***************************************************************************)
EXTENDS Integers, Sequences, FiniteSets

CONSTANTS
    Generators,    \* invocations of the generator, each with one configuration
    Regenerating,  \* those started with --overwrite
    Documents,     \* configuration files: see DocumentsAssumption
    Fields,        \* DOMAIN_FIELDS
    Positive,      \* STRICTLY_POSITIVE_FIELDS
    Absent,        \* no stored, no table
    Torn           \* truncated, half written or interleaved content

VARIABLES
    document,     \* each generator: the configuration it was given
    stored,       \* the directory: the content of every partition and "manifest"
    gpc, at,      \* each generator: its next call, position in SPLIT_NAMES
    entries,      \* each generator: what it will declare in manifest.files
    cpc, phase,   \* the consumer: its next call, "train" or "evaluate"
    todo,         \* the consumer: partitions this phase still has to load
    parsed,       \* the consumer: the manifest in memory
    trained,      \* the artifact: the manifest whose digest training recorded
    loaded,       \* the tables that training and evaluation computed on
    writers,      \* history: generators that wrote since this phase began
    crowded,      \* history: two generators wrote while one phase ran
    overlapped,   \* history: two generators were writing at the same time
    swapped       \* history: a partition changed between its hashing and its opening

generating == <<document, gpc, at, entries, overlapped>>
consuming == <<cpc, phase, todo, parsed, trained, loaded>>
watching == <<writers, crowded, swapped>>
datasetVars == <<generating, stored, consuming, watching>>

-----------------------------------------------------------------------------
(* Configuration (data/config.py)                                           *)

SplitNames == <<"train", "validation", "interpolation_test">>
Splits == {SplitNames[i] : i \in 1..Len(SplitNames)}
FileNames == Splits \cup {"manifest"}

\* A document names its schema, generator and oracle and holds the expected
\* keys and types ("wellFormed") or not; "unpriced" are the partitions in which
\* the oracle, or build_table's own checks, reject some sampled row.
ASSUME DocumentsAssumption ==
    /\ Regenerating \subseteq Generators
    /\ Positive \subseteq Fields
    /\ \A d \in Documents :
        /\ d.wellFormed \in BOOLEAN
        /\ d.seed \in Int
        /\ d.rows \in [Splits -> Int]
        /\ d.domain \in [Fields -> Int \X Int]
        /\ d.unpriced \subseteq Splits

\* _parse_bounds.  Here as below, a definition that no action uses is a
\* plausible bug of the one it precedes.
BoundsParseDegenerate(d, f) ==
    /\ d.domain[f][1] <= d.domain[f][2]
    /\ f \in Positive => d.domain[f][1] > 0
BoundsParse(d, f) ==
    /\ d.domain[f][1] < d.domain[f][2]
    /\ f \in Positive => d.domain[f][1] > 0

\* parse_dataset_config accepts the document.
Parses(d) ==
    /\ d.wellFormed
    /\ d.seed >= 0
    /\ \A s \in Splits : d.rows[s] > 0
    /\ \A f \in Fields : BoundsParse(d, f)

-----------------------------------------------------------------------------
(* The generated content                                                    *)

\* build_table: the stream of a partition is keyed on the base seed and the
\* partition's name, so its rows depend on nothing the other partitions hold.
Table(d, s) == [split |-> s, seed |-> d.seed, domain |-> d.domain, rows |-> d.rows[s]]

\* No table and no manifest is a missing or a torn file.
ASSUME ContentAssumption ==
    /\ Absent # Torn
    /\ \A d \in Documents, s \in Splits : Table(d, s) \notin {Absent, Torn}

\* _build_manifest
Manifest(d, declared) ==
    [schema |-> "european-option-dataset/1", config |-> d, domain |-> d.domain,
     rows |-> d.rows, files |-> declared]

\* load_manifest (data/diagnose.py), the registered loader of this schema.
ManifestLoads(m) ==
    /\ m.schema = "european-option-dataset/1"
    /\ DOMAIN m.rows = Splits /\ DOMAIN m.files = Splits /\ DOMAIN m.domain = Fields
    /\ \A s \in Splits : m.rows[s] >= 0 /\ m.files[s].rows = m.rows[s]
    /\ \A f \in Fields : m.domain[f][1] < m.domain[f][2]

Readable(content) == content \notin {Absent, Torn}

-----------------------------------------------------------------------------
(* generate_dataset                                                         *)

Busy == {"open_split", "close_split", "hash_split", "open_manifest", "close_manifest"}
Target(g) == IF at[g] <= Len(SplitNames) THEN SplitNames[at[g]] ELSE "manifest"

\* What replacing the content of a file means to those who watch: the consumer
\* that is about to open the partition it has just hashed reads something else.
Write(g, name, content) ==
    /\ stored' = [stored EXCEPT ![name] = content]
    /\ writers' = writers \cup {g}
    /\ crowded' = (crowded \/ \E h \in writers : h # g)
    /\ swapped' = (swapped \/ (cpc = "open" /\ name = Head(todo) /\ content # stored[name]))

GenGoto(g, l) == gpc' = [gpc EXCEPT ![g] = l]

\* main: a configuration that does not parse ends the invocation.
Configure(g) ==
    /\ gpc[g] = "start"
    /\ GenGoto(g, IF Parses(document[g]) THEN "check" ELSE "done")
    /\ UNCHANGED <<document, at, entries, overlapped, stored, consuming, watching>>

\* Without --overwrite nothing may exist; the directory is looked at once.
Forbidden(g) == g \notin Regenerating /\ \E n \in FileNames : stored[n] # Absent
CheckTargets(g) ==
    /\ gpc[g] = "check"
    /\ GenGoto(g, IF Forbidden(g) THEN "done" ELSE "open_split")
    /\ overlapped' = (overlapped \/ (~Forbidden(g) /\ \E h \in Generators : gpc[h] \in Busy))
    /\ UNCHANGED <<document, at, entries, stored, consuming, watching>>

\* build_table raises GenerationError before the file is touched.
BuildFails(g) ==
    /\ gpc[g] = "open_split"
    /\ Target(g) \in document[g].unpriced
    /\ GenGoto(g, "done")
    /\ UNCHANGED <<document, at, entries, overlapped, stored, consuming, watching>>

\* pq.write_table opens the destination itself, which truncates it ...
OpenSplit(g) ==
    /\ gpc[g] = "open_split"
    /\ Target(g) \notin document[g].unpriced
    /\ Write(g, Target(g), Torn)
    /\ GenGoto(g, "close_split")
    /\ UNCHANGED <<document, at, entries, overlapped, consuming>>

\* ... and returns when the table is in it.  Two writers of one file may leave
\* an interleaving of both.
CloseSplit(g) ==
    /\ gpc[g] = "close_split"
    /\ \E content \in {Table(document[g], Target(g))} \cup (IF overlapped THEN {Torn} ELSE {}) :
           Write(g, Target(g), content)
    /\ GenGoto(g, "hash_split")
    /\ UNCHANGED <<document, at, entries, overlapped, consuming>>

\* sha256_file(path) reads back whatever the disk holds by then.
HashSplit(g) ==
    /\ gpc[g] = "hash_split"
    /\ entries' = [entries EXCEPT ![g][Target(g)] =
           [rows |-> document[g].rows[Target(g)], sha256 |-> stored[Target(g)]]]
    /\ at' = [at EXCEPT ![g] = @ + 1]
    /\ GenGoto(g, IF at[g] = Len(SplitNames) THEN "open_manifest" ELSE "open_split")
    /\ UNCHANGED <<document, overlapped, stored, consuming, watching>>

\* write_text truncates and then writes.
OpenManifest(g) ==
    /\ gpc[g] = "open_manifest"
    /\ Write(g, "manifest", Torn)
    /\ GenGoto(g, "close_manifest")
    /\ UNCHANGED <<document, at, entries, overlapped, consuming>>

CloseManifest(g) ==
    /\ gpc[g] = "close_manifest"
    /\ Write(g, "manifest", Manifest(document[g], entries[g]))
    /\ GenGoto(g, "done")
    /\ UNCHANGED <<document, at, entries, overlapped, consuming>>

\* The process is killed, or a call raises OSError, which main reports.
Stop(g) ==
    /\ gpc[g] \in Busy
    /\ GenGoto(g, "done")
    /\ UNCHANGED <<document, at, entries, overlapped, stored, consuming, watching>>

Generate(g) ==
    \/ Configure(g) \/ CheckTargets(g) \/ BuildFails(g)
    \/ OpenSplit(g) \/ CloseSplit(g) \/ HashSplit(g)
    \/ OpenManifest(g) \/ CloseManifest(g) \/ Stop(g)

-----------------------------------------------------------------------------
(* train_to_artifact and evaluate_artifact read through load_dataset_manifest *)
(* and load_split                                                             *)

Consume(l) == cpc' = l /\ UNCHANGED <<generating, stored>>

\* Training loads train and validation, an evaluation one partition of its choice.
Begin(p, order) ==
    /\ phase' = p
    /\ todo' = order
    /\ writers' = {}
    /\ Consume("peek")
    /\ UNCHANGED <<parsed, trained, loaded, crowded, swapped>>

\* The artifact does not exist yet: a training that was refused left nothing.
BeginTraining ==
    /\ cpc \in {"idle", "refused"}
    /\ phase = "train"
    /\ Begin("train", <<"train", "validation">>)

BeginEvaluation ==
    /\ cpc = "trained" \/ (cpc = "refused" /\ phase = "evaluate")
    /\ \E s \in {"validation", "interpolation_test"} : Begin("evaluate", <<s>>)

\* _peek_schema_version, registered_schema
Peek ==
    /\ cpc = "peek"
    /\ Consume(IF Readable(stored["manifest"]) THEN "parse" ELSE "refused")
    /\ UNCHANGED <<phase, todo, parsed, trained, loaded, watching>>

\* schema.manifest_loader reads the file again ...
Parse ==
    /\ cpc = "parse"
    /\ LET m == stored["manifest"] IN
       IF Readable(m) /\ ManifestLoads(m)
       THEN Consume("identify") /\ parsed' = m
       ELSE Consume("refused") /\ UNCHANGED parsed
    /\ UNCHANGED <<phase, todo, trained, loaded, watching>>

\* ... and read_bytes a third time: manifest_sha256 is the digest of that
\* reading, torn or not.  An evaluation compares it with the artifact's.
SameDatasetUnchecked(m) == phase = "evaluate" => m # Absent
SameDataset(m) == phase = "evaluate" => m = trained
Identify ==
    /\ cpc = "identify"
    /\ IF SameDataset(stored["manifest"])
       THEN Consume("hash") /\ trained' = stored["manifest"]
       ELSE Consume("refused") /\ UNCHANGED trained
    /\ UNCHANGED <<phase, todo, parsed, loaded, watching>>

\* load_split: sha256_file(path) against the manifest in memory ...
HashPartition ==
    /\ cpc = "hash"
    /\ LET s == Head(todo) IN
       Consume(IF stored[s] # Absent /\ stored[s] = parsed.files[s].sha256 THEN "open" ELSE "refused")
    /\ UNCHANGED <<phase, todo, parsed, trained, loaded, watching>>

\* ... then read_schema and read_table open the file again; of the content only
\* the schema and the number of rows are compared with what was declared.
OpenPartition ==
    /\ cpc = "open"
    /\ LET s == Head(todo) IN
       IF Readable(stored[s]) /\ stored[s].rows = parsed.files[s].rows
       THEN /\ loaded' = [loaded EXCEPT ![s] = stored[s]]
            /\ todo' = Tail(todo)
            /\ Consume(IF Len(todo) > 1 THEN "hash"
                       ELSE IF phase = "train" THEN "trained" ELSE "evaluated")
       ELSE Consume("refused") /\ UNCHANGED <<loaded, todo>>
    /\ UNCHANGED <<phase, parsed, trained, watching>>

Load ==
    \/ BeginTraining \/ BeginEvaluation
    \/ Peek \/ Parse \/ Identify \/ HashPartition \/ OpenPartition

-----------------------------------------------------------------------------
DatasetInit ==
    /\ document \in [Generators -> Documents]
    /\ stored = [n \in FileNames |-> Absent]
    /\ gpc = [g \in Generators |-> "start"]
    /\ at = [g \in Generators |-> 1]
    /\ entries = [g \in Generators |-> [s \in Splits |-> Absent]]
    /\ cpc = "idle" /\ phase = "train" /\ todo = <<>>
    /\ parsed = Absent /\ trained = Absent
    /\ loaded = [s \in Splits |-> Absent]
    /\ writers = {}
    /\ crowded = FALSE /\ overlapped = FALSE /\ swapped = FALSE

DatasetNext == Load \/ \E g \in Generators : Generate(g)

DatasetSpec == DatasetInit /\ [][DatasetNext]_datasetVars

-----------------------------------------------------------------------------
(* Properties *)

\* An evaluation is of the dataset the artifact was trained on: whatever was
\* generated, killed or overwritten in between and meanwhile, every table that
\* training or evaluation computed on is the one the recorded manifest's
\* configuration generates.  The provisos are what the code leaves open: two
\* generators at once (each hashes what the other may have written), two
\* generations during one phase (the manifest is parsed before it is hashed), a
\* partition replaced between its hashing and its opening, and a manifest hashed
\* while it was half written, whose digest the artifact then records.
EvaluatedAsTrained ==
    cpc = "evaluated" /\ Readable(trained) /\ ~overlapped /\ ~crowded /\ ~swapped =>
        \A s \in Splits : loaded[s] # Absent => loaded[s] = Table(trained.config, s)

\* Every partition on disk is the one that the configuration of the manifest on
\* disk generates.
Complete ==
    /\ Readable(stored["manifest"])
    /\ \A s \in Splits : stored[s] = Table(stored["manifest"].config, s)

\* What a generation that ran to its end left loads: the loader refuses a
\* complete directory that nobody is writing to only for not being the one the
\* artifact was trained on.  The configuration's validation must therefore be
\* at least as strict as the manifest's.  Two generators at once are excluded: the
\* manifest of one may hold the digest of what the other had half written, and a
\* later write can still complete the partition.
CompletedLoads ==
    cpc = "refused" /\ writers = {} /\ ~overlapped /\ Complete =>
        phase = "evaluate" /\ stored["manifest"] # trained
=============================================================================
