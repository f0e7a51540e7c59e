----------------------------- MODULE PilotAudit -----------------------------
(***************************************************************************)
(* scripts/freeze_american_neural_pilot_results.py: how the freezing script *)
(* judges the pilot's raw reports, what it keeps of them in the snapshot,   *)
(* and how it judges a snapshot.  The raw reports carry every row, so the   *)
(* numbers are derived again; the snapshot carries sums and order           *)
(* statistics only, which are checked against each other and against what   *)
(* is published beside them.                                                *)
(*                                                                          *)
(* A definition named after the next one and used by no other is a plausible*)
(* bug of it: the properties must notice when it takes its place.           *)
(***************************************************************************)
EXTENDS PilotEvidence

\* Whether value is the report of a kind with everything the kind carries.
IsA(value, kind) == value.kind = kind /\ value.protocol = "locked"

-----------------------------------------------------------------------------
(* The raw evidence, judged from its own rows.                              *)

\* The published metrics are those of the audit rows, slice by slice.
SlicesRecompute(entry) ==
    entry.slices = SlicedMetrics([i \in DOMAIN entry.audit |-> entry.audit[i].row],
                                 [i \in DOMAIN entry.audit |-> entry.audit[i].prediction])

UniqueRows(audit) ==
    /\ DOMAIN audit # {}
    /\ \A i, j \in DOMAIN audit : audit[i].row.id = audit[j].row.id => i = j

\* Each check's counts, again from the violations the rows carry.
DiagnosticPrimitive(audit) ==
    [check \in DiagnosticChecks |->
        LET over == [i \in {k \in DOMAIN audit : audit[k].violations[check] # NoValue} |->
                        audit[i].violations[check]]
        IN  [eligible |-> Cardinality(DOMAIN over),
             material |-> Cardinality({i \in DOMAIN over : over[i] > audit[i].tolerance}),
             largest |-> Max(Image(over) \cup {0})]]

GateRecomputes(entry, section) ==
    entry.gate = Gate(GateChecks(entry.slices[Overall].normalised, entry.diagnostics, section))

EntrySound(entry, section) ==
    /\ UniqueRows(entry.audit)
    /\ SlicesRecompute(entry)
    /\ entry.diagnostics = Diagnosed(DiagnosticPrimitive(entry.audit))
    /\ GateRecomputes(entry, section)

BaselineSound(entry) ==
    /\ UniqueRows(entry.audit)
    /\ SlicesRecompute(entry)
    /\ entry.diagnostics
    /\ \A i \in DOMAIN entry.audit :
          /\ <<entry.audit[i].tolerance, entry.audit[i].violations>> = <<NoValue, NoValue>>
          /\ IdentityHolds(entry.audit[i].row, entry.audit[i].prediction)

CommonRows(audit) == [i \in DOMAIN audit |-> audit[i].row]
SameRows(models) ==
    \A name \in Models : CommonRows(models[name].audit) = CommonRows(models["scratch"].audit)

ModelsSound(models, section) ==
    /\ DOMAIN models = Models
    /\ \A arm \in Arms : EntrySound(models[arm], section)
    /\ BaselineSound(models[Baseline])
    /\ SameRows(models)

LiftSound(lift) ==
    /\ "probes" \in DOMAIN lift
    /\ lift = [probes |-> lift.probes, largest |-> LiftDifference(lift.probes),
               passed |-> LiftHolds(lift.probes)]

PdeSoundOnTrust(pde) == pde.passed = (\A c \in DOMAIN pde.rows : pde.rows[c].passed)
PdeSound(pde) ==
    /\ DOMAIN pde.rows = DOMAIN Protocol.cases
    /\ \A c \in DOMAIN pde.rows :
          /\ \A g \in {1, 2} :
                SolveSound(Protocol.cases[c], Protocol.grids[g], pde.rows[c].solves[g])
          /\ pde.rows[c] = PdeRow(Protocol.cases[c], pde.rows[c].label, pde.rows[c].solves)
    /\ pde.passed = (\A c \in DOMAIN pde.rows : pde.rows[c].passed)

\* A missing cell is not an error: the timings are then merely incomplete.
LatencySound(latency) ==
    /\ DOMAIN latency \subseteq Cells
    /\ \A cell \in DOMAIN latency :
          LET row == latency[cell]
          IN  /\ row.orders = MeasuredOrders
              /\ Len(row.crr) = Protocol.repetitions
              /\ \A arm \in Arms :
                    LET ratios == Speedups(row.crr, row.neural[arm])
                    IN  /\ Len(row.neural[arm]) = Protocol.repetitions
                        /\ Image(row.crr) \cup Image(row.neural[arm]) \subseteq Nat \ {0}
                        /\ row.median[arm] = Median(ratios)
                        /\ row.interval[arm] = <<Min(Image(ratios)), Max(Image(ratios))>>
LatencyComplete(latency) == DOMAIN latency = Cells

InversionSound(found) ==
    /\ found.status \in {"converged", "unbracketed", "iteration_exhausted", "non_finite_price"}
    /\ found.iterations \in 0..Protocol.maximumIterations
    /\ found.status = "iteration_exhausted" => found.iterations = Protocol.maximumIterations
    /\ found.status = "unbracketed" => found.iterations = 0
    /\ IF found.status = "converged"
       THEN found.volatility \in Protocol.bracket[1]..Protocol.bracket[2]
       ELSE found.volatility = NoValue

IvSound(iv) ==
    /\ DOMAIN iv.rows = DOMAIN Protocol.ivCases
    /\ \A c \in DOMAIN iv.rows, name \in Inverted :
          LET found == iv.rows[c].inversions
          IN  /\ InversionSound(found[name])
              /\ iv.rows[c].errors[name] = VolError(found["label"].volatility,
                                                    found[name].volatility)
    /\ iv.failures = IvFailures(iv.rows)

EntryEvidenceSound(gate, evidence) ==
    CASE gate = "exact_lift" -> LiftSound(evidence) /\ ~evidence.passed
      [] gate = "independent_pde_check" /\ "rows" \in DOMAIN evidence ->
            PdeSound(evidence) /\ ~evidence.passed
      [] OTHER -> /\ gate \in {"admission_policy_invariants", "independent_pde_check"}
                  /\ evidence = Raised

EntrySoundReport(report) ==
    IsA(report, "entry") /\ EntryEvidenceSound(report.gate, report.evidence)

ValidationSound(report) ==
    /\ IsA(report, "validation")
    /\ LiftSound(report.lift) /\ report.lift.passed
    /\ PdeSound(report.pde)
    /\ ModelsSound(report.models, "validation_final_entry")
    /\ LatencySound(report.latency)
    /\ IvSound(report.iv)
    /\ report.complete = Completeness(report.pde.passed, LatencyComplete(report.latency),
                                      report.iv.failures <= Protocol.failuresMax)
    /\ report.passed = (report.complete.passed /\ AllHold(ArmsPassed(report.models)))
    /\ report.outcome = ClassifyOutcome(ArmsPassed(report.models), report.models,
                                        report.latency, report.iv, "validation",
                                        report.complete.passed)

\* The evidence of the validation is taken as complete: it had to pass.
FinalSound(report, validation) ==
    /\ IsA(report, "final")
    /\ ModelsSound(report.models, "final_accuracy")
    /\ report.passed = AllHold(ArmsPassed(report.models))
    /\ report.outcome = ClassifyOutcome(ArmsPassed(report.models), validation.models,
                                        validation.latency, validation.iv, "final", TRUE)

\* How far the runner got decides what it can know of the partition's digest.
IdentityRelated(failure) ==
    /\ failure.stage \in {"reservation", "ledger_reservation", "manifest_identity"}
          => failure.observed = "none"
    /\ failure.stage \in {"partition_read", "model_evaluation", "report_write"}
          => failure.observed = "locked"

FailureSound(report) == IsA(report, "failure") /\ IdentityRelated(report.failure)

\* validate_raw_reports: the state the two reports are evidence of, or NoValue.
RawState(validation, final) ==
    LET none == final = NoValue
    IN  IF validation.kind = "entry"
        THEN IF EntrySoundReport(validation) /\ none THEN "entry_failure" ELSE NoValue
        ELSE IF ~ValidationSound(validation) THEN NoValue
        ELSE CASE ~validation.passed -> IF none THEN "validation_terminal" ELSE NoValue
               [] validation.passed /\ none -> "validation_passed_not_advanced"
               [] validation.passed /\ ~none /\ final.kind = "failure" ->
                    IF FailureSound(final) THEN "final_failed_consumed" ELSE NoValue
               [] OTHER -> IF FinalSound(final, validation) THEN "final_complete" ELSE NoValue

-----------------------------------------------------------------------------
(* The compact audit: what the snapshot keeps instead of the rows.          *)

QuantilePrimitive(values, percent) ==
    LET ranks == Ranks(Cardinality(DOMAIN values), percent)
    IN  [ranks |-> ranks, lower |-> AtRank(values, ranks.lower),
         upper |-> AtRank(values, ranks.upper)]
MetricPrimitive(values) ==
    [count |-> Cardinality(DOMAIN values), total |-> Total(values),
     squares |-> Total([i \in DOMAIN values |-> values[i] * values[i]]),
     largest |-> Max(Image(values)),
     p95 |-> QuantilePrimitive(values, 95), p99 |-> QuantilePrimitive(values, 99)]

PercentOf(label) == IF label = "p95" THEN 95 ELSE 99

\* What the sums of count values say about the largest of them.
MomentsAgree(m) ==
    /\ m.total <= m.count * m.largest
    /\ m.squares <= m.count * m.largest * m.largest
    /\ m.largest <= m.total
    /\ m.largest * m.largest <= m.squares
    /\ m.total * m.total <= m.count * m.squares

\* And about the value of a rank: the values from that rank on are at least as
\* large, those up to it at most.
RankAgreesFromOne(m, rank, value) == (m.count - rank + 1) * value <= m.total
RankAgrees(m, rank, value) ==
    /\ rank = m.count - 1 => value = m.largest
    /\ (m.count - rank) * value <= m.total
    /\ (m.count - rank) * value * value <= m.squares
    /\ m.total <= (rank + 1) * value + (m.count - rank - 1) * m.largest
    /\ m.squares <= (rank + 1) * value * value
                    + (m.count - rank - 1) * m.largest * m.largest

RankedValues(m) ==
    UNION {{<<m[label].ranks.lower, m[label].lower>>, <<m[label].ranks.upper, m[label].upper>>} :
              label \in {"p95", "p99"}}

PrimitiveSound(m) ==
    /\ m.count > 0 /\ MomentsAgree(m)
    /\ \A label \in {"p95", "p99"} :
          /\ m[label].ranks = Ranks(m.count, PercentOf(label))
          /\ 0 <= m[label].lower /\ m[label].lower <= m[label].upper
          /\ m[label].upper <= m.largest
    /\ \A ranked \in RankedValues(m) : RankAgrees(m, ranked[1], ranked[2])
    /\ \A a, b \in RankedValues(m) :
          /\ a[1] = b[1] => a[2] = b[2]
          /\ a[1] < b[1] => a[2] <= b[2]

\* _statistics_from_primitive.
StatisticsOf(m) ==
    [rows |-> m.count, total |-> m.total, squares |-> m.squares, largest |-> m.largest,
     p95 |-> Interpolated(m.p95.ranks, m.p95.lower, m.p95.upper),
     p99 |-> Interpolated(m.p99.ranks, m.p99.lower, m.p99.upper)]

CompactModel(entry, rows, name) ==
    LET prediction == [i \in DOMAIN entry.audit |-> entry.audit[i].prediction]
    IN  [slices |-> [slice \in SliceNames |->
            LET errors == Errors(rows, prediction, slice)
            IN  IF DOMAIN errors = {} THEN [physical |-> NoValue, normalised |-> NoValue]
                ELSE [physical |-> MetricPrimitive(errors),
                      normalised |-> MetricPrimitive(NormalisedErrors(rows, errors))]],
         diagnostics |-> IF name = Baseline THEN NoValue ELSE DiagnosticPrimitive(entry.audit),
         mismatches |-> IF name # Baseline THEN NoValue
            ELSE Cardinality({i \in DOMAIN rows : ~IdentityHolds(rows[i], prediction[i])})]

\* _compact_partition_audit, and the models without their rows.
CompactAudit(models) ==
    LET rows == CommonRows(models["scratch"].audit)
    IN  [count |-> Len(rows),
         models |-> [name \in Models |-> CompactModel(models[name], rows, name)]]
WithoutAudit(models) ==
    [name \in Models |->
        IF name = Baseline
        THEN [slices |-> models[name].slices, diagnostics |-> models[name].diagnostics]
        ELSE [slices |-> models[name].slices, diagnostics |-> models[name].diagnostics,
              gate |-> models[name].gate]]

SliceCounts(entry) == [slice \in SliceNames |-> entry.slices[slice].rows]
Family(name) == {slice \in SliceNames : slice[1] = name}

CompactSlicesSound(entry, summary, count) ==
    /\ \A slice \in SliceNames :
          LET published == entry.slices[slice]
              primitive == summary.slices[slice]
          IN  IF published.rows = 0
              THEN /\ primitive = [physical |-> NoValue, normalised |-> NoValue]
                   /\ <<published.physical, published.normalised>> = <<NoValue, NoValue>>
              ELSE \A scale \in {"physical", "normalised"} :
                     /\ primitive[scale] # NoValue /\ PrimitiveSound(primitive[scale])
                     /\ published[scale] = StatisticsOf(primitive[scale])
                     /\ published[scale].rows = published.rows
    /\ entry.slices[Overall].rows = count
    /\ \A name \in Binned \cup Paired :
          Total([slice \in Family(name) |-> SliceCounts(entry)[slice]]) = count

CheckSound(check, count) ==
    /\ check.eligible \in 0..count /\ check.material \in 0..check.eligible
    /\ check.eligible = 0 => check.largest = 0
    /\ check.material > 0 => check.largest > 0

CompactArmSound(entry, summary, count, section) ==
    LET checks == summary.diagnostics
        Rows(kind) == SliceCounts(entry)[<<"option_type", kind>>]
    IN  /\ summary.mismatches = NoValue
        /\ \A name \in DiagnosticChecks : CheckSound(checks[name], count)
        /\ entry.diagnostics = Diagnosed(checks)
        /\ checks["intrinsic"].eligible = count /\ checks["comparator"].eligible = count
        /\ checks["call_upper"].eligible = Rows(1) /\ checks["put_upper"].eligible = Rows(0)
        /\ checks["monotone"].eligible = checks["convex"].eligible
        /\ GateRecomputes(entry, section)

\* _validate_compact_partition_models.
CompactSound(models, audit, section) ==
    /\ audit.count > 0
    /\ \A name \in Models :
          /\ CompactSlicesSound(models[name], audit.models[name], audit.count)
          /\ SliceCounts(models[name]) = SliceCounts(models["scratch"])
          /\ IF name = Baseline
             THEN models[name].diagnostics /\ audit.models[name].mismatches = 0
             ELSE CompactArmSound(models[name], audit.models[name], audit.count, section)

-----------------------------------------------------------------------------
(* The snapshot.                                                            *)

NotAdvanced == [phase |-> "validation", outcome |-> "validation_passed_not_advanced"]
EntryOutcome(gate) == [phase |-> "entry", outcome |-> "entry_gate_failed", gate |-> gate]
FailedOutcome(failure) ==
    [phase |-> "final", outcome |-> "final_attempt_failed_consumed", failure |-> failure]

Lifecycle(state, passed, consumed) ==
    [state |-> state, passed |-> passed, attempts |-> IF consumed THEN 1 ELSE 0,
     consumed |-> consumed]

\* extract_snapshot: source names the files the snapshot was made of.
ExtractSnapshot(state, validation, final) ==
    LET entry == state = "entry_failure"
        complete == state = "final_complete"
        Kept(field) == IF entry THEN NoValue ELSE validation[field]
    IN  [protocol |-> "locked",
         source |-> [validation |-> validation.kind,
                     final |-> IF final = NoValue THEN NoValue ELSE final.kind],
         lifecycle |-> Lifecycle(state, IF entry THEN FALSE ELSE validation.passed,
                                 final # NoValue),
         entry |-> IF entry THEN [gate |-> validation.gate, evidence |-> validation.evidence]
                   ELSE NoValue,
         lift |-> Kept("lift"), pde |-> Kept("pde"), latency |-> Kept("latency"),
         iv |-> Kept("iv"),
         models |-> [validation |-> IF entry THEN NoValue ELSE WithoutAudit(validation.models),
                     final |-> IF complete THEN WithoutAudit(final.models) ELSE NoValue],
         audit |-> [validation |-> IF entry THEN NoValue ELSE CompactAudit(validation.models),
                    final |-> IF complete THEN CompactAudit(final.models) ELSE NoValue],
         outcome |-> CASE entry -> EntryOutcome(validation.gate)
                       [] state = "validation_terminal" -> validation.outcome
                       [] state = "validation_passed_not_advanced" -> NotAdvanced
                       [] state = "final_failed_consumed" -> FailedOutcome(final.failure)
                       [] complete -> final.outcome]

EntrySnapshotSound(snap) ==
    /\ snap.entry # NoValue /\ EntryEvidenceSound(snap.entry.gate, snap.entry.evidence)
    /\ snap.outcome = EntryOutcome(snap.entry.gate)
    /\ snap.source.final = NoValue
    /\ \A field \in {"lift", "pde", "latency", "iv"} : snap[field] = NoValue
    /\ snap.models.validation = NoValue /\ snap.audit.validation = NoValue
    /\ snap.lifecycle = Lifecycle("entry_failure", FALSE, FALSE)

SnapshotComplete(snap) ==
    /\ snap.pde.passed /\ LatencyComplete(snap.latency) /\ snap.iv.failures = 0

OutcomeSound(snap) ==
    LET state == snap.lifecycle.state
        Classified(models, phase) ==
            ClassifyOutcome(ArmsPassed(models), snap.models.validation, snap.latency, snap.iv,
                            phase, SnapshotComplete(snap))
        validated == Classified(snap.models.validation, "validation")
    IN  CASE state = "final_complete" ->
                /\ snap.models.final # NoValue /\ snap.audit.final # NoValue
                /\ CompactSound(snap.models.final, snap.audit.final, "final_accuracy")
                /\ snap.outcome = Classified(snap.models.final, "final")
          [] state # "final_complete" ->
                /\ snap.models.final = NoValue /\ snap.audit.final = NoValue
                /\ CASE state = "final_failed_consumed" ->
                          /\ "failure" \in DOMAIN snap.outcome
                          /\ snap.outcome = FailedOutcome(snap.outcome.failure)
                          /\ IdentityRelated(snap.outcome.failure)
                     [] state = "validation_passed_not_advanced" ->
                          /\ validated.outcome = "eligible_for_final_evaluation"
                          /\ snap.outcome = NotAdvanced
                     [] OTHER -> snap.outcome = validated

\* validate_snapshot past the entry failures; a failed PDE check is refused.
RunSnapshotSound(snap) ==
    LET state == snap.lifecycle.state
        consumed == state \in {"final_failed_consumed", "final_complete"}
    IN  /\ state \in {"validation_terminal", "validation_passed_not_advanced",
                      "final_failed_consumed", "final_complete"}
        /\ snap.lifecycle = Lifecycle(state, state # "validation_terminal", consumed)
        /\ (snap.source.final # NoValue) = consumed
        /\ snap.entry = NoValue
        /\ LiftSound(snap.lift) /\ snap.lift.passed
        /\ PdeSound(snap.pde) /\ snap.pde.passed
        /\ LatencySound(snap.latency) /\ IvSound(snap.iv)
        /\ CompactSound(snap.models.validation, snap.audit.validation, "validation_final_entry")
        /\ snap.lifecycle.passed =
              (SnapshotComplete(snap) /\ AllHold(ArmsPassed(snap.models.validation)))
        /\ OutcomeSound(snap)

SnapshotSound(snap) ==
    /\ snap.protocol = "locked"
    /\ IF snap.lifecycle.state = "entry_failure" THEN EntrySnapshotSound(snap)
       ELSE RunSnapshotSound(snap)

\* The freezing mode of main: the snapshot of two reports, or NoValue.
Admitted(snap) == IF SnapshotSound(snap) THEN snap ELSE NoValue
FreezingAs(state, validation, final) ==
    IF state = NoValue THEN NoValue ELSE Admitted(ExtractSnapshot(state, validation, final))
Freezing(validation, final) == FreezingAs(RawState(validation, final), validation, final)
=============================================================================
