----------------------------- MODULE Reconstruct -----------------------------
(***************************************************************************)
(* The market-state study (market/reconstruct.py, run_study and             *)
(* run_and_write): it verifies the digests of the ingestion it builds on,   *)
(* reads that ingestion's partitions session by session, computes, and      *)
(* publishes tables, figures and, last, its report.                         *)
(*                                                                          *)
(* The processed root is shared with the ingestion of market/ingest.py: a   *)
(* second ingestion, one that reads at most Limit records of each payload,  *)
(* replaces partitions one by one and its report at the end, and may die    *)
(* anywhere in between.  Version Pinned of a partition or of the report is  *)
(* the one the study's configuration names.                                 *)
(***************************************************************************)
EXTENDS MarketState

CONSTANTS Archives,     \* the partitions an ingestion can leave: name -> slot -> rows
          Probes,       \* what the declared sources can be found to be
          Limit,        \* records per payload of the other ingestion
          Reingested,   \* the archives that have one
          MaxRuns       \* bound: how often the study is run

Pinned == 1
Other == 2
Feeds == {"definition", "quotes"}
Slots == {<<s, "european", f>> : s \in Sessions, f \in Feeds}
    \cup {<<s, "american", f>> : s \in Sessions, f \in Feeds}
    \cup {<<s, "underlying", "quotes">> : s \in Sessions}
    \cup {<<s, "futures", f>> : s \in Sessions, f \in {"definition", "statistics"}}

\* The order in which an ingestion decodes: definitions, quotes, statistics.
FeedOrder == <<"definition", "quotes", "statistics">>
RoleOrder == <<"european", "american", "underlying", "futures">>
Turn(slot) == (CHOOSE n \in 1..3 : FeedOrder[n] = slot[3]) * 1000 + slot[1] * 10
                 + (CHOOSE n \in 1..4 : RoleOrder[n] = slot[2])

VARIABLES archive,    \* what a whole ingestion of the archive publishes
          probes,     \* what the declared sources are found to be
          agrees,     \* whether configuration, manifest and report fields match
          root,       \* slot -> the version of the partition on disk
          report,     \* the version of the ingestion's report, or NoValue
          pc, run,
          parsed,     \* the version of the report this run parsed
          settled,    \* the futures settlements of every session
          universes,  \* session -> the universes loaded for it
          queue,      \* the snapshots still to take
          outcomes,   \* the snapshots taken
          origin,     \* the versions of the partitions this run has read
          document,   \* what this run has computed
          pending,    \* the artefacts still to publish, in order
          out         \* artefact -> the run that wrote it

inputs == <<archive, probes, agrees>>
study == <<run, parsed, settled, universes, queue, outcomes, origin, document>>
vars == <<inputs, root, report, pc, study, pending, out>>

Figures == {"rates", "containment", "spread", "residual", "slopes"}
Artefacts == {"european_table", "american_table", "report"} \cup Figures
Checks == {"config", "manifest", "report_config", "report_manifest", "processed_root",
           "schema", "fred"}

Snapshots == {<<s, i>> : s \in Sessions, i \in Instants}
Earlier(a, b) == a[1] < b[1] \/ (a[1] = b[1] /\ a[2] <= b[2])

Content(slot) == IF root[slot] = Pinned THEN Archives[archive][slot]
                 ELSE SubSeq(Archives[archive][slot], 1, Min({Limit, Len(Archives[archive][slot])}))

ReconstructTypeOK ==
    /\ archive \in DOMAIN Archives /\ probes \in Probes
    /\ agrees \in [Checks -> BOOLEAN]
    /\ root \in [Slots -> {Pinned, Other}] /\ report \in {Pinned, Other, NoValue}
    /\ run \in 1..MaxRuns
    /\ DOMAIN settled \subseteq Sessions /\ DOMAIN universes \subseteq Sessions
    /\ queue \subseteq Snapshots
    /\ DOMAIN outcomes \subseteq Snapshots \ queue
    /\ origin \subseteq {Pinned, Other}
    /\ Range(pending) \subseteq Artefacts
    /\ out \in [Artefacts -> 0..MaxRuns]

Fresh(r) == /\ pc = "verify" /\ run = r /\ parsed = NoValue /\ settled = <<>>
            /\ universes = <<>> /\ queue = Snapshots /\ outcomes = <<>> /\ origin = {}
            /\ document = NoValue

\* Every input agrees, or exactly one does not.
Agreements == {[c \in Checks |-> TRUE]} \cup {[c \in Checks |-> c # d] : d \in Checks}

ReconstructInit ==
    /\ archive \in DOMAIN Archives /\ probes \in Probes /\ agrees \in Agreements
    /\ root = [t \in Slots |-> Pinned] /\ report \in {Pinned, NoValue}
    /\ Fresh(1) /\ pending = <<>> /\ out = [a \in Artefacts |-> 0]

-----------------------------------------------------------------------------
(* The other ingestion: partitions are renamed into place one at a time,    *)
(* the report after all of them.                                            *)

Replace(slot) ==
    /\ archive \in Reingested /\ root[slot] = Pinned
    /\ \A t \in Slots : root[t] = Pinned => Turn(slot) <= Turn(t)
    /\ root' = [root EXCEPT ![slot] = Other]
    /\ UNCHANGED <<inputs, report, pc, study, pending, out>>

ReplaceReport ==
    /\ archive \in Reingested /\ report = Pinned /\ \A t \in Slots : root[t] = Other
    /\ report' = Other
    /\ UNCHANGED <<inputs, root, pc, study, pending, out>>

-----------------------------------------------------------------------------
Ends(how) == pc' = how /\ UNCHANGED <<inputs, root, report, study, pending, out>>

\* The three digests, each compared with the pinned one.
Verify ==
    /\ pc = "verify"
    /\ IF report = Pinned /\ agrees["config"] /\ agrees["manifest"] THEN Ends("parse")
       ELSE Ends("provenance_error")

\* The report is read again, and its own record of the run compared.  Of the
\* partitions only their directory is checked.
Parse ==
    /\ pc = "parse"
    /\ IF \A c \in {"report_config", "report_manifest", "processed_root", "schema"} : agrees[c]
       THEN /\ pc' = "controls" /\ parsed' = report
            /\ UNCHANGED <<inputs, root, report, run, settled, universes, queue, outcomes,
                           origin, document, pending, out>>
       ELSE Ends("provenance_error")

Read(slots) == origin' = origin \cup {root[t] : t \in slots}

\* load_sr3_controls, for all sessions before anything else.
LoadControls ==
    /\ pc = "controls"
    /\ settled' = [s \in Sessions |-> Settlements(Content(<<s, "futures", "definition">>),
                                                  Content(<<s, "futures", "statistics">>))]
    /\ Read({t \in Slots : t[2] = "futures"})
    /\ pc' = "session"
    /\ UNCHANGED <<inputs, root, report, run, parsed, universes, queue, outcomes, document,
                   pending, out>>

\* The head of the snapshot loop: a session's universes are loaded before its
\* first snapshot.
Next1 == CHOOSE a \in queue : \A b \in queue : Earlier(a, b)

Remaining(q) == q \ {Next1}

LoadUniverses ==
    /\ pc = "session" /\ queue # {} /\ Next1[1] \notin DOMAIN universes
    /\ LET s == Next1[1]
           Load(p) == LoadDefinitions(Content(<<s, p, "definition">>))
           loaded == [p \in {"european", "american"} |-> Load(p)]
       IN  /\ universes' = [t \in DOMAIN universes \cup {s} |->
                               IF t = s THEN loaded ELSE universes[t]]
           /\ Read({<<s, p, "definition">> : p \in {"european", "american"}})
    /\ UNCHANGED <<inputs, root, report, pc, run, parsed, settled, queue, outcomes, document,
                   pending, out>>

\* A spot that is missing, doubled or unusable, or a duplicated contract, ends
\* the run.
TakeSnapshot ==
    /\ pc = "session" /\ queue # {} /\ Next1[1] \in DOMAIN universes
    /\ LET s == Next1[1]
           rows == [p \in {"european", "american", "underlying"} |-> Content(<<s, p, "quotes">>)]
           outcome == RunSnapshot(s, Next1[2], universes[s], rows)
       IN  IF outcome = NoValue THEN Ends("failed")
           ELSE /\ outcomes' = [a \in DOMAIN outcomes \cup {Next1} |->
                                   IF a = Next1 THEN outcome ELSE outcomes[a]]
                /\ queue' = Remaining(queue)
                /\ Read({<<s, p, "quotes">> : p \in {"european", "american", "underlying"}})
                /\ UNCHANGED <<inputs, root, report, pc, run, parsed, settled, universes,
                               document, pending, out>>

\* The figures for which some snapshot has a point.
BuildFigures(taken) ==
    LET baseline == <<Widest, Baseline>>
        cells == EuropeanCells(taken)
        american == LongerDated(AmericanCells(taken))
    IN  {"rates" : c \in {x \in cells : Interpretable(Fits(taken, x)[baseline])}}
        \cup {"containment" : c \in {x \in cells : Valid(Fits(taken, x)[baseline])}}
        \cup {"spread" : c \in {x \in cells : ValidCount(Fits(taken, x)) > 1}}
        \cup {"residual" : c \in {x \in american :
                Residuals(taken, x)[<<Widest, Baseline, "mid">>].diagnostics = {}}}
        \cup {"slopes" : c \in {x \in american :
                x[2] = Min(Instants) /\ AmericanOf(taken, x).slope # NoValue}}

\* The figures in the order of their file names.
NameRank == [residual |-> 1, spread |-> 2, slopes |-> 3, containment |-> 4, rates |-> 5]

UpTo(figures, f) == {g \in figures : NameRank[g] <= NameRank[f]}
Sorted(figures) ==
    [n \in 1..Cardinality(figures) |->
        CHOOSE f \in figures : Cardinality(UpTo(figures, f)) = n]

\* A report that is published before the artefacts it describes.
PublicationReportFirst(figures) ==
    <<"report", "european_table", "american_table">> \o Sorted(figures)

Publication(figures) ==
    <<"european_table", "american_table">> \o Sorted(figures) \o <<"report">>

\* The aggregates, the facts, the matrix and the verdicts; the controls of the
\* ingestion's report are the last thing that can be missing.
Aggregate ==
    /\ pc = "session" /\ queue = {}
    /\ IF ~agrees["fred"] THEN Ends("failed")
       ELSE LET facts == MeasureFacts(outcomes,
                                      [s \in Sessions |-> universes[s]["american"]], probes)
            IN  /\ document' = [facts |-> facts, matrix |-> Matrix(facts),
                                verdicts |-> Verdicts(facts), rates |-> RateRows(outcomes),
                                carry |-> CarryWithin(outcomes),
                                transitions |-> Transitions(outcomes),
                                figures |-> BuildFigures(outcomes)]
                /\ pending' = Publication(BuildFigures(outcomes))
                /\ pc' = "publish"
                /\ UNCHANGED <<inputs, root, report, run, parsed, settled, universes, queue,
                               outcomes, origin, out>>

\* One atomic replacement, or an error that ends the run.
Publish ==
    /\ pc = "publish" /\ pending # <<>>
    /\ \/ /\ out' = [out EXCEPT ![Head(pending)] = run] /\ pending' = Tail(pending)
          /\ pc' = IF Len(pending) = 1 THEN "done" ELSE "publish"
          /\ UNCHANGED <<inputs, root, report, study>>
       \/ Ends("failed")

Kill == pc \in {"parse", "controls", "session", "publish"} /\ Ends("killed")

\* Somebody runs the study again over what is there.
Again ==
    /\ pc \in {"done", "failed", "killed", "provenance_error"} /\ run < MaxRuns
    /\ pc' = "verify" /\ run' = run + 1 /\ parsed' = NoValue /\ settled' = <<>>
    /\ universes' = <<>> /\ queue' = Snapshots /\ outcomes' = <<>> /\ origin' = {}
    /\ document' = NoValue /\ pending' = <<>>
    /\ UNCHANGED <<inputs, root, report, out>>

ReconstructNext ==
    \/ \E t \in Slots : Replace(t)
    \/ ReplaceReport \/ Verify \/ Parse \/ LoadControls \/ LoadUniverses \/ TakeSnapshot
    \/ Aggregate \/ Publish \/ Kill \/ Again

ReconstructSpec == ReconstructInit /\ [][ReconstructNext]_vars

-----------------------------------------------------------------------------
\* The document is complete and nothing is published yet.
Computed == pc = "publish" /\ "european_table" \in Range(pending) /\ "report" \in Range(pending)

\* Every fit solves its normal equations: the residuals, and their moments about
\* the strikes, sum to zero under the method's weights (parity.py fit_line).
FitsAreLeastSquares ==
    Computed => \A c \in EuropeanCells(outcomes) : \A wm \in Widths \X Methods :
        LET fit == Fits(outcomes, c)[wm]
            window == Window(Bucket(outcomes[<<c[1], c[2]>>].pairs, c[3]),
                             EuropeanOf(outcomes, c).anchor, wm[1])
            Miss(p) == Times(Whole(p.w), Minus(p.y, Fitted(fit.line, p.k)))
            points == Points(window, wm[2])
        IN  fit.line # NoValue =>
                /\ SumOf(Miss, points) = Whole(0)
                /\ SumOf(LAMBDA p : Times(Whole(p.k), Miss(p)), points) = Whole(0)

WithoutSameDay(taken) ==
    [a \in DOMAIN taken |-> [taken[a] EXCEPT
        !.european = Restrict(@, {e \in DOMAIN @ : ~(e <= a[1])}),
        !.american = Restrict(@, {e \in DOMAIN @ : ~(e <= a[1])})]]

\* A same-session expiry is fitted and published, and influences no spread, no
\* residual, no transition and no rate: the document of a study that never saw it
\* says the same (reconstruct.py european_sensitivity, american_sensitivity,
\* ex_date_comparison, compare_rates).
SameDayExpiriesExcluded ==
    Computed =>
        LET without == WithoutSameDay(outcomes)
        IN  /\ document.facts.spread = DiscountWithin(without).median
            /\ document.facts.intraday = DiscountAcross(without).median
            /\ document.facts.contaminated = StrikeDependence(without)
            /\ document.carry = CarryWithin(without)
            /\ document.transitions = Transitions(without)
            /\ document.rates = RateRows(without)

\* The report on disk is never newer than a table or a figure of the run that
\* wrote it, whatever was killed or failed since (run_and_write publishes the
\* report last).
ReportPublishedLast ==
    /\ \A a \in {"european_table", "american_table"} : out[a] >= out["report"]
    /\ document # NoValue /\ out["report"] = run =>
          \A a \in document.figures : out[a] = run
=============================================================================
