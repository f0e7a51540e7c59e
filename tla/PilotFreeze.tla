----------------------------- MODULE PilotFreeze -----------------------------
(***************************************************************************)
(* The pilot from its runs to its frozen result: the runner of Pilot decides*)
(* what its study makes it decide and leaves reports on disk; an operator   *)
(* freezes whichever of them exist into the snapshot, at any time and any   *)
(* number of times (scripts/freeze_american_neural_pilot_results.py, with   *)
(* --update).  What the files of a study hold is a function of the study, so*)
(* it is worked out once, in content; the disk of Pilot says which exist.   *)
(***************************************************************************)
EXTENDS Pilot, PilotAudit

CONSTANT Studies       \* for each study that may be run, what was answered in it

\* A partition has rows, an arm answers a price at each, and a clock advances.
Answered(rows, answers) ==
    /\ IsFiniteSet(DOMAIN rows) /\ DOMAIN rows # {}
    /\ \A i \in DOMAIN rows :
          /\ rows[i].american \in Int /\ rows[i].scale \in Nat \ {0}
          /\ \A arm \in Arms : answers[arm][i].centre \in Int
Clocked(readings) ==
    \A cell \in Cells, operation \in Arms \cup {"crr"} :
        /\ readings[cell][operation] \in Seq(Nat \ {0})
        /\ Len(readings[cell][operation]) = Protocol.warmups + Protocol.repetitions

ASSUME StudiesAssumption ==
    \A study \in DOMAIN Studies :
        /\ Answered(Studies[study].validationRows, Studies[study].validation)
        /\ Answered(Studies[study].finalRows, Studies[study].final)
        /\ Clocked(Studies[study].readings)

VARIABLES project,       \* the study this project directory runs
          content,       \* what its reports say and can be frozen into
          snapshot       \* the frozen result, or NoValue

freezeVars == <<vars, project, content, snapshot>>

-----------------------------------------------------------------------------
(* The content of the files.                                                *)

Reports(study, validation) ==
    [entry |-> EntryFailureReport(study), validation |-> validation,
     final |-> FinalReport(study, validation)]
ReportsOf(study) == Reports(study, ValidationReport(study))
FailureFile(failure) == [kind |-> "failure", protocol |-> "locked", failure |-> failure]

\* What --validation-report and --final-report are given, and the content of a
\* failure report.
Firsts == {"entry", "validation"}
Selections ==
    (Firsts \X {"none", "final"} \X {NoFailure})
    \cup (Firsts \X {"failure"} \X [stage : Stages, observed : Digests])

First(reports, selection) == reports[selection[1]]
Second(reports, selection) == CASE selection[2] = "none" -> NoValue
                                [] selection[2] = "final" -> reports.final
                                [] selection[2] = "failure" -> FailureFile(selection[3])

\* The study gets past the entry gates, past validation, past the final test.
Trained(reports) == reports.entry.gate = NoValue
Validated(reports) == Trained(reports) /\ reports.validation.passed
Successful(reports) == Validated(reports) /\ reports.final.passed

\* What a study can leave on disk.
Selectable(reports) ==
    {selection \in Selections :
        /\ (selection[1] = "entry") = ~Trained(reports)
        /\ selection[2] # "none" => Validated(reports)}

\* The snapshot a selection of the files of a study is frozen into, or NoValue.
Frozen(reports, selection) == Freezing(First(reports, selection), Second(reports, selection))

-----------------------------------------------------------------------------
(* Someone edits one field of a report, or of the snapshot.                 *)

Other(name, names) == CHOOSE other \in names \ {name} : TRUE
Flipped(models) == [models EXCEPT !["scratch"].gate.passed = ~@]
Restated(models) == [models EXCEPT !["transfer"].slices[Overall].normalised.squares = @ - 1]
Hastened(latency) == [latency EXCEPT ![Other(NoValue, Cells)].median["scratch"] = @ + 1]
Repriced(iv) == [iv EXCEPT !.rows[1].prices["scratch"] = @ + 1]
Converged(pde) == [pde EXCEPT !.rows[1].coarse = @ + 1]

EditedReport(report) ==
    [gate |-> [report EXCEPT !.models = Flipped(@)],
     statistic |-> [report EXCEPT !.models = Restated(@)],
     prediction |-> [report EXCEPT !.models["scratch"].audit[1].prediction = @ - 1],
     reference |-> [report EXCEPT !.models[Baseline].audit[1].row.european = @ + 1],
     violation |-> [report EXCEPT !.models["scratch"].audit[2].violations["convex"] = NoValue],
     passed |-> [report EXCEPT !.passed = ~@],
     complete |-> [report EXCEPT !.complete.passed = ~@],
     outcome |-> [report EXCEPT !.outcome.outcome = "promising"],
     latency |-> [report EXCEPT !.latency = Hastened(@)],
     ivError |-> [report EXCEPT !.iv.rows[2].errors["transfer"] = 9],
     ivPrice |-> [report EXCEPT !.iv = Repriced(@)],
     pde |-> [report EXCEPT !.pde = Converged(@)],
     lift |-> [report EXCEPT !.lift.probes[1].lifted = @ + 1]]

EditedSnapshot(snap) ==
    [gate |-> [snap EXCEPT !.models.validation = Flipped(@)],
     statistic |-> [snap EXCEPT !.models.validation = Restated(@)],
     primitive |-> [snap EXCEPT !.audit.validation.models["scratch"]
                                 .slices[Overall].physical.total = @ + 1],
     count |-> [snap EXCEPT !.audit.validation.count = @ + 1],
     state |-> [snap EXCEPT !.lifecycle.state =
                    Other(@, {"validation_terminal", "final_complete"})],
     consumed |-> [snap EXCEPT !.lifecycle.consumed = ~@],
     source |-> [snap EXCEPT !.source.final = IF @ = NoValue THEN "final" ELSE NoValue],
     outcome |-> [snap EXCEPT !.outcome.outcome = "unpublished"],
     latency |-> [snap EXCEPT !.latency = Hastened(@)],
     ivError |-> [snap EXCEPT !.iv.rows[2].errors["transfer"] = 9],
     ivPrice |-> [snap EXCEPT !.iv = Repriced(@)],
     pde |-> [snap EXCEPT !.pde = Converged(@)],
     lift |-> [snap EXCEPT !.lift.probes[1].lifted = @ + 1]]

EntryGates == {"admission_policy_invariants", "independent_pde_check"}
EditedEntryReport(report) ==
    [gate |-> [report EXCEPT !.gate = "independent_pde_check"],
     lift |-> [report EXCEPT !.gate = "exact_lift"],
     evidence |-> [report EXCEPT !.evidence.passed = TRUE]]
EditedEntrySnapshot(snap) ==
    [gate |-> [snap EXCEPT !.entry.gate = Other(@, EntryGates)],
     evidence |-> [snap EXCEPT !.entry.evidence.passed = TRUE],
     consumed |-> [snap EXCEPT !.lifecycle.consumed = TRUE],
     outcome |-> [snap EXCEPT !.outcome.outcome = "eligible_for_final_evaluation"]]

\* The edits that a first report, and the snapshot, survive.
UnnoticedInReport(report) ==
    LET edited == IF report.kind = "entry" THEN EditedEntryReport(report) ELSE EditedReport(report)
    IN  {e \in DOMAIN edited : edited[e] # report /\ RawState(edited[e], NoValue) # NoValue}
UnnoticedInSnapshot(snap) ==
    LET edited == IF snap.entry = NoValue THEN EditedSnapshot(snap) ELSE EditedEntrySnapshot(snap)
    IN  {e \in DOMAIN edited : SnapshotSound(edited[e])}

\* What "promising" has to mean, from the answers themselves.  No price of either
\* arm is off by more than the limits, and transfer is closer than scratch on the
\* validation rows.
Missed(row, price) == Normalised(row, Size(price - row.american))
Within(rows, answers, section) ==
    \A i \in DOMAIN rows : Missed(rows[i], answers[i].centre) <= Protocol.limits[section].largest
SquaredError(rows, answers) ==
    Total([i \in DOMAIN rows |->
              Missed(rows[i], answers[i].centre) * Missed(rows[i], answers[i].centre)])
KeepsAccuracy(data) ==
    /\ \A arm \in Arms :
          /\ Within(data.validationRows, data.validation[arm], "validation_final_entry")
          /\ Within(data.finalRows, data.final[arm], "final_accuracy")
    /\ SquaredError(data.validationRows, data.validation["transfer"])
          < SquaredError(data.validationRows, data.validation["scratch"])

\* In every cell of the reference depth, either arm is as many times faster than
\* the lattice as it has to be in most of the repetitions that count.
FastRepetitions(crr, neural) ==
    {k \in (Protocol.warmups + 1)..(Protocol.warmups + Protocol.repetitions) :
        1000 * crr[k] >= Protocol.minimumSpeedup * neural[k]}
KeepsSpeed(data) ==
    \A shape \in Protocol.shapes, arm \in Arms :
        LET readings == data.readings[<<shape, Protocol.referenceDepth>>]
        IN  2 * Cardinality(FastRepetitions(readings["crr"], readings[arm]))
                > Protocol.repetitions

\* Every inverted price lies between those of the nearby volatilities.
KeepsVolatility(data) ==
    LET slack == Protocol.maximumIvError + 2 * Protocol.volTolerance
        Priced(case, quote) ==
            /\ case.curve[Max({case.volatility - slack, Protocol.bracket[1]})] <= quote
            /\ quote <= case.curve[Min({case.volatility + slack, Protocol.bracket[2]})]
    IN  \A c \in DOMAIN Protocol.ivCases, arm \in Arms :
            Priced(Protocol.ivCases[c], data.quotes[c][arm])

\* What the properties ask of a frozen result, and of a study.
Result(selection, snap) ==
    [selection |-> selection, lifecycle |-> snap.lifecycle, outcome |-> snap.outcome.outcome,
     accurate |-> "passed" \in DOMAIN snap.outcome /\ AllHold(snap.outcome.passed),
     unnoticed |-> UnnoticedInSnapshot(snap)]
Results(reports) ==
    LET frozen == {<<selection, Frozen(reports, selection)>> : selection \in Selectable(reports)}
    IN  {Result(f[1], f[2]) : f \in {g \in frozen : g[2] # NoValue}}
ContentOf(study, reports) ==
    [trained |-> Trained(reports), validated |-> Validated(reports),
     successful |-> Successful(reports),
     raised |-> ~Trained(reports) /\ reports.entry.evidence = Raised,
     results |-> Results(reports), promise |-> KeepsAccuracy(study) /\ KeepsSpeed(study),
     near |-> KeepsVolatility(study),
     unnoticed |-> UnnoticedInReport(IF Trained(reports) THEN reports.validation
                                     ELSE reports.entry)]
Content(study) == ContentOf(study, ReportsOf(study))

-----------------------------------------------------------------------------
(* The runner decides what its study makes it decide.                         *)

AgreesWithStudy ==
    /\ validationReport' # validationReport => validationReport' = Verdict(content.validated)
    /\ finalReport' # finalReport => finalReport' = Verdict(content.successful)
    /\ entryReport' # entryReport => ~content.trained
    /\ (\E p \in Operators : pc[p] = "val_entry" /\ pc'[p] = "val_train") => content.trained

RunnerStep == Next /\ AgreesWithStudy /\ UNCHANGED <<project, content, snapshot>>

\* The selections an operator has with the reports now on disk.
SelectionsOnDisk ==
    {selection \in Selections :
        /\ selection[1] = "entry" => entryReport
        /\ selection[1] = "validation" => validationReport # "none"
        /\ selection[2] = "final" => finalReport # "none"
        /\ selection[2] = "failure" => selection[3] = failureReport}

\* main without --check: a report that is refused leaves the snapshot alone.
Freeze ==
    \E result \in content.results :
        /\ result.selection \in SelectionsOnDisk
        /\ snapshot' = result
        /\ UNCHANGED <<vars, project, content>>

FreezeInit ==
    Init /\ project \in DOMAIN Studies /\ content = Content(Studies[project]) /\ snapshot = NoValue
FreezeNext == RunnerStep \/ Freeze
FreezeSpec == FreezeInit /\ [][FreezeNext]_freezeVars

-----------------------------------------------------------------------------
(* Properties *)

\* The selections that the files of a study allow, whenever they are written.
Allowed(data, selection) ==
    /\ (selection[1] = "entry") = ~data.trained
    /\ selection[2] # "none" => data.validated
    /\ selection[2] = "failure" => IdentityRelated(selection[3])
FilesFreeze(data) ==
    \A selection \in Selections :
        Allowed(data, selection) => \E result \in data.results : result.selection = selection

\* Whatever a study answers, the freezing script accepts each pair of its reports
\* that it should, and the snapshot of the pair passes its own --check: no
\* inequality between the sums and order statistics it keeps refuses honest ones.
HonestReportsFreeze == FilesFreeze(content)

\* Whatever reports the runner leaves on disk - one process or two, killed at any
\* call, with publications lost or late - they are reports of one study and their
\* failure reports are in order: the freezing script accepts every selection.
PublishedIsFreezable ==
    \A selection \in SelectionsOnDisk :
        \E result \in content.results : result.selection = selection

\* The frozen result says what happened, whenever it was frozen and whatever has
\* happened since: the lifecycle it states is that of the project directory, its
\* verdict that of the final report.  It may leave out an attempt whose report the
\* operator did not pass.
SnapshotIsEarned ==
    snapshot # NoValue =>
        LET state == snapshot.lifecycle.state
        IN  /\ state = "entry_failure" => entryReport /\ ~marker /\ validationReport = "none"
            /\ state = "validation_terminal" => validationReport = "failed" /\ ~marker
            /\ snapshot.lifecycle.passed => validationReport = "passed" /\ ~entryReport
            /\ snapshot.lifecycle.consumed => marker
            /\ state = "final_complete" =>
                  accesses = 1 /\ finalReport = Verdict(snapshot.accurate)

\* A frozen result that calls the pilot promising keeps the promise: what the arms
\* answered row by row, and the clock repetition by repetition, is as close and as
\* fast as the word claims, though the snapshot holds only statistics of it.
PromiseIsKept ==
    snapshot # NoValue => (snapshot.outcome = "promising" => content.promise)

\* And so are the prices behind its implied volatilities, of which the snapshot
\* holds only where a bisection ended.
VolatilitiesAreNear ==
    snapshot # NoValue => (snapshot.outcome = "promising" => content.near)

\* One edit of a first report or of the snapshot is noticed, by the freezing mode
\* or by --check, wherever a second field depends on the edited one.  Nothing
\* depends on the prices behind the implied volatilities, nor on which gate an
\* entry report names when all it has is the error that gate raised.
EditsAreNoticed ==
    /\ snapshot # NoValue => snapshot.unnoticed \subseteq {"ivPrice"}
    /\ (validationReport # "none" \/ entryReport) =>
          content.unnoticed \subseteq (IF content.trained THEN {"ivPrice"}
                                       ELSE IF content.raised THEN {"gate"} ELSE {})
=============================================================================
