---------------------------- MODULE PilotEvidence ----------------------------
(***************************************************************************)
(* What the American neural pilot measures and publishes                    *)
(* (ml/american_pilot.py): error statistics by slice, shape diagnostics,    *)
(* accuracy gates, the PDE cross-check, the exact lift, timings, implied    *)
(* volatilities and the outcome.  A study holds what the engines, the clock *)
(* and the two trained arms answer; a report is what the runner makes of it.*)
(*                                                                          *)
(* Prices, volatilities and times are integers.  A normalised price is in   *)
(* units of 1/Protocol.unit of the row's discounted spot, row.scale; a mean *)
(* is carried as its sum and a quantile a hundred times over, so numbers    *)
(* are exact and the rounding tolerances of the code have no counterpart.   *)
(***************************************************************************)
EXTENDS Integers, FiniteSets, Sequences, FiniteSetsExt, SequencesExt

CONSTANTS NoValue,
          Protocol    \* what the locked configuration files pin, a record

Arms == {"scratch", "transfer"}
Baseline == "european_crr_baseline"
Models == Arms \cup {Baseline}

ASSUME ProtocolAssumption ==
    /\ Protocol.unit \in Nat \ {0}
    /\ Protocol.warmups \in Nat /\ Protocol.repetitions \in Nat
    /\ Protocol.repetitions % 2 = 1
    /\ Protocol.minimumSpeedup \in Nat
    /\ Protocol.referenceDepth \in Protocol.depths
    /\ DOMAIN Protocol.limits = {"validation_final_entry", "final_accuracy"}
    /\ \A section \in DOMAIN Protocol.limits : Protocol.limits[section].largest \in Nat

Size(n) == IF n < 0 THEN -n ELSE n
Total(f) == FoldSet(LAMBDA i, sum : sum + f[i], 0, DOMAIN f)
Image(f) == {f[i] : i \in DOMAIN f}
Normalised(row, price) == price * (Protocol.unit \div row.scale)

-----------------------------------------------------------------------------
(* Error statistics by slice.                                               *)

\* The value of a 0-based rank among the sorted values.
AtRank(values, rank) ==
    Min({v \in Image(values) : Cardinality({i \in DOMAIN values : values[i] <= v}) > rank})

\* The ranks around (n - 1) * percent / 100, and the hundredths between them.
Ranks(n, percent) ==
    LET position == (n - 1) * percent
    IN  [lower |-> position \div 100, upper |-> (position + 99) \div 100,
         part |-> position % 100]
Interpolated(ranks, lower, upper) == 100 * lower + ranks.part * (upper - lower)

Quantile(values, percent) ==
    LET ranks == Ranks(Cardinality(DOMAIN values), percent)
    IN  Interpolated(ranks, AtRank(values, ranks.lower), AtRank(values, ranks.upper))

ErrorStatistics(errors) ==
    [rows |-> Cardinality(DOMAIN errors), total |-> Total(errors),
     squares |-> Total([i \in DOMAIN errors |-> errors[i] * errors[i]]),
     p95 |-> Quantile(errors, 95), p99 |-> Quantile(errors, 99),
     largest |-> Max(Image(errors))]

Binned == {"expiry", "moneyness", "volatility"}
Paired == {"option_type", "premium_status", "exercise_status"}
Overall == <<"overall", 0>>
SliceNames ==
    {Overall} \cup (Paired \X {0, 1})
    \cup UNION {{family} \X (0..Len(Protocol.edges[family])) : family \in Binned}

\* _slice_masks: bin k of a family holds the values in [edge k, edge k + 1).
InSlice(row, slice) ==
    LET family == slice[1]
        positive == slice[2] = 1
    IN  CASE family = "overall" -> TRUE
          [] family = "option_type" -> row.call = positive
          [] family = "premium_status" -> IF positive THEN row.premium > 0 ELSE row.premium = 0
          [] family = "exercise_status" -> (row.earliest >= 0) = positive
          [] family \in Binned ->
                LET edges == Protocol.edges[family]
                IN  slice[2] = Cardinality({k \in DOMAIN edges : edges[k] <= row[family]})

\* The physical errors of the rows of a slice, and the same normalised.
Errors(rows, prediction, slice) ==
    [i \in {k \in DOMAIN rows : InSlice(rows[k], slice)} |->
        Size(prediction[i] - rows[i].american)]
NormalisedErrors(rows, errors) ==
    [i \in DOMAIN errors |-> Normalised(rows[i], errors[i])]

SlicedMetrics(rows, prediction) ==
    [slice \in SliceNames |->
        LET errors == Errors(rows, prediction, slice)
        IN  IF DOMAIN errors = {}
            THEN [rows |-> 0, physical |-> NoValue, normalised |-> NoValue]
            ELSE [rows |-> Cardinality(DOMAIN errors),
                  physical |-> ErrorStatistics(errors),
                  normalised |-> ErrorStatistics(NormalisedErrors(rows, errors))]]

-----------------------------------------------------------------------------
(* Shape diagnostics of one arm: its prices at a row and around it.         *)

BoundChecks == {"intrinsic", "comparator", "call_upper", "put_upper"}
ShapeChecks == {"monotone", "convex", "vol_monotone"}
DiagnosticChecks == BoundChecks \cup ShapeChecks

Tolerated(row) == Protocol.tolerance * row.scale

\* A bumped row must stay inside the domain the arms were trained on.
Eligible(row, check) ==
    LET Inside(value, bump, domain) == value - bump >= domain[1] /\ value + bump <= domain[2]
    IN  CASE check = "call_upper" -> row.call
          [] check = "put_upper" -> ~row.call
          [] check \in {"monotone", "convex"} ->
                /\ Inside(row.spot, Protocol.spotBump, Protocol.spotDomain)
                /\ Inside(row.moneyness, Protocol.spotBump, Protocol.moneynessDomain)
          [] check = "vol_monotone" ->
                Inside(row.volatility, Protocol.volBump, Protocol.volDomain)
          [] check \in {"intrinsic", "comparator"} -> TRUE

\* price: the arm's answers at the row ("centre") and at its four bumps.
Violation(row, price, check) ==
    LET gain == IF row.call THEN row.spot - row.strike ELSE row.strike - row.spot
        sign == IF row.call THEN 1 ELSE -1
    IN  CASE check = "intrinsic" -> Max({gain, 0}) - price.centre
          [] check = "comparator" -> row.european - price.centre
          [] check = "call_upper" -> price.centre - row.spot
          [] check = "put_upper" -> price.centre - row.upper
          [] check = "monotone" ->
                Max({sign * (price.down - price.centre), sign * (price.centre - price.up)})
          [] check = "convex" -> 2 * price.centre - price.down - price.up
          [] check = "vol_monotone" ->
                Max({price.volDown - price.centre, price.centre - price.volUp})

Diagnosed(checks) ==
    LET Sum(names) == Total([check \in names |-> checks[check].material])
    IN  [checks |-> checks, bound |-> Sum(BoundChecks), shape |-> Sum(ShapeChecks)]

ShapeDiagnostics(rows, answers) ==
    Diagnosed([check \in DiagnosticChecks |->
        LET over == [i \in {k \in DOMAIN rows : Eligible(rows[k], check)} |->
                        Violation(rows[i], answers[i], check)]
        IN  [eligible |-> Cardinality(DOMAIN over),
             material |-> Cardinality({i \in DOMAIN over : over[i] > Tolerated(rows[i])}),
             largest |-> Max(Image(over) \cup {0})]])

-----------------------------------------------------------------------------
(* Accuracy gates and the block published for every model of a partition.   *)

GateChecks(overall, diagnostics, section) ==
    LET limits == Protocol.limits[section]
    IN  [rmse |-> overall.squares <= overall.rows * limits.rmse * limits.rmse,
         p99 |-> overall.p99 <= 100 * limits.p99,
         largest |-> overall.largest <= limits.largest,
         bound |-> diagnostics.bound <= limits.bound,
         shape |-> diagnostics.shape <= limits.shape]

AllHold(checks) == \A check \in DOMAIN checks : checks[check]
Gate(checks) == [checks |-> checks, passed |-> AllHold(checks)]

\* The audit rows of an arm, and of the stored European price.
ArmAudit(rows, answers) ==
    [i \in DOMAIN rows |->
        [row |-> rows[i], prediction |-> answers[i].centre, tolerance |-> Tolerated(rows[i]),
         violations |-> [check \in DiagnosticChecks |->
            IF Eligible(rows[i], check) THEN Violation(rows[i], answers[i], check) ELSE NoValue]]]
BaselineAudit(rows) ==
    [i \in DOMAIN rows |-> [row |-> rows[i], prediction |-> rows[i].european,
                            tolerance |-> NoValue, violations |-> NoValue]]

ArmEntry(slices, diagnostics, audit, section) ==
    [slices |-> slices, diagnostics |-> diagnostics, audit |-> audit,
     gate |-> Gate(GateChecks(slices[Overall].normalised, diagnostics, section))]
Entry(rows, answers, section) ==
    ArmEntry(SlicedMetrics(rows, [i \in DOMAIN rows |-> answers[i].centre]),
             ShapeDiagnostics(rows, answers), ArmAudit(rows, answers), section)

IdentityHolds(row, prediction) == row.american - prediction = row.premium
BaselineEntry(rows) ==
    [slices |-> SlicedMetrics(rows, [i \in DOMAIN rows |-> rows[i].european]),
     diagnostics |-> \A i \in DOMAIN rows : IdentityHolds(rows[i], rows[i].european),
     audit |-> BaselineAudit(rows)]

ModelReports(rows, answers, section) ==
    [name \in Models |-> IF name = Baseline THEN BaselineEntry(rows)
                         ELSE Entry(rows, answers[name], section)]

ArmsPassedOfOne(models) == [arm \in Arms |-> models["scratch"].gate.passed]
ArmsPassed(models) == [arm \in Arms |-> models[arm].gate.passed]

-----------------------------------------------------------------------------
(* The PDE cross-check of the pinned validation rows, and the exact lift.   *)

\* _selected_validation_rows: the row of lowest rank of every (stratum, type).
SelectedRows(rows) ==
    {i \in DOMAIN rows : \A j \in DOMAIN rows :
        <<rows[j].stratum, rows[j].call>> = <<rows[i].stratum, rows[i].call>>
            => rows[i].rank <= rows[j].rank}

\* The grid an engine must have solved on when asked for grid: the strike on a
\* node, the step shrunk or stretched to it, the domain covered.
AlignedGrid(case, grid) ==
    LET maximum == grid.factor * Max({case.spot, case.strike})
        index == Max({1, (2 * case.strike * grid.intervals + maximum) \div (2 * maximum)})
    IN  [index |-> index,
         intervals |-> Max({index + 1,
                            (maximum * index + case.strike - 1) \div case.strike})]

SolveSound(case, grid, result) ==
    /\ result.converged
    /\ [index |-> result.index, intervals |-> result.intervals] = AlignedGrid(case, grid)
    /\ result.index < result.intervals
    /\ result.intervals * case.strike > result.index * Max({case.spot, case.strike})
    /\ result.linear = 0
    /\ result.psor = result.halves + result.crank
    /\ result.iterations >= result.psor
    /\ result.most <= Protocol.psorMaximum
    /\ result.residual <= Protocol.psorTolerance
    /\ result.price >= 0

PdeRow(case, label, solves) ==
    LET coarse == solves[1].price
        fine == solves[2].price
        refinement == Normalised(case, Size(fine - coarse))
        agreement == Normalised(case, Size(fine - label))
    IN  [label |-> label, solves |-> solves, coarse |-> coarse, fine |-> fine,
         refinement |-> refinement, agreement |-> agreement,
         passed |-> refinement <= Protocol.refinementMax /\ agreement <= Protocol.agreementMax]

Labels(rows) ==
    [c \in DOMAIN Protocol.cases |->
        rows[CHOOSE i \in DOMAIN rows : rows[i].id = Protocol.cases[c].id].american]

\* The pinned cases must be the selected rows, and every solve must be sound.
PdeRaises(rows, solves) ==
    \/ {rows[i].id : i \in SelectedRows(rows)} # {Protocol.cases[c].id : c \in DOMAIN Protocol.cases}
    \/ \E c \in DOMAIN Protocol.cases, i \in SelectedRows(rows) :
        /\ rows[i].id = Protocol.cases[c].id
        /\ \E field \in {"call", "spot", "strike", "volatility", "stratum"} :
              rows[i][field] # Protocol.cases[c][field]
    \/ \E c \in DOMAIN Protocol.cases, g \in {1, 2} :
        ~SolveSound(Protocol.cases[c], Protocol.grids[g], solves[c][g])

PdeCheck(rows, solves) ==
    LET evidence == [c \in DOMAIN Protocol.cases |->
                        PdeRow(Protocol.cases[c], Labels(rows)[c], solves[c])]
    IN  [rows |-> evidence, passed |-> \A c \in DOMAIN evidence : evidence[c].passed]

\* probes: the prices of the source network and of the lifted one.
LiftDifference(probes) == Max({Size(probes[k].source - probes[k].lifted) : k \in DOMAIN probes})
LiftHolds(probes) ==
    \A k \in DOMAIN probes : Size(probes[k].source - probes[k].lifted) <= Protocol.liftMax
ExactLift(probes) ==
    [probes |-> probes, largest |-> LiftDifference(probes), passed |-> LiftHolds(probes)]

-----------------------------------------------------------------------------
(* Timings: every cell repeats the three operations in a rotating order.    *)

Operations == <<"crr", "scratch", "transfer">>
Cells == Protocol.shapes \X Protocol.depths
OrderOf(repetition) == [k \in 1..3 |-> Operations[((k - 1 + repetition) % 3) + 1]]
MeasuredOrders ==
    [k \in 1..Protocol.repetitions |-> OrderOf(Protocol.warmups + k - 1)]

\* Speedups in thousandths.
Speedups(crr, neural) == [k \in DOMAIN crr |-> (1000 * crr[k]) \div neural[k]]
Median(ratios) == AtRank(ratios, Len(ratios) \div 2)

\* readings: for a cell and an operation, the clock over warm-ups and repetitions.
RunLatency(readings) ==
    [cell \in Cells |->
        LET Kept(operation) == SubSeq(readings[cell][operation], Protocol.warmups + 1,
                                      Protocol.warmups + Protocol.repetitions)
            Ratios(arm) == Speedups(Kept("crr"), Kept(arm))
        IN  [orders |-> MeasuredOrders, crr |-> Kept("crr"),
             neural |-> [arm \in Arms |-> Kept(arm)],
             median |-> [arm \in Arms |-> Median(Ratios(arm))],
             interval |-> [arm \in Arms |->
                <<Min(Image(Ratios(arm))), Max(Image(Ratios(arm)))>>]]]

-----------------------------------------------------------------------------
(* Implied volatilities: the label price and each arm's are inverted through*)
(* the same lattice function, curve[v] being the price at volatility v.     *)

Inversion(status, volatility, iterations) ==
    [status |-> status, volatility |-> volatility, iterations |-> iterations]

\* _bisect_iv.
Bisected(curve, target) ==
    LET Miss(v) == curve[v] - target
        Near(v) == Size(Miss(v)) <= Protocol.priceTolerance
        Halve(search, k) ==
            LET middle == (search.low + search.high) \div 2
            IN  CASE search.answer # NoValue -> search
                  [] search.answer = NoValue
                     /\ (Near(middle) \/ search.high - search.low <= 2 * Protocol.volTolerance) ->
                        [search EXCEPT !.answer = Inversion("converged", middle, k)]
                  [] OTHER -> IF Miss(search.low) * Miss(middle) <= 0
                              THEN [search EXCEPT !.high = middle]
                              ELSE [search EXCEPT !.low = middle]
        low == Protocol.bracket[1]
        high == Protocol.bracket[2]
        final == FoldLeft(Halve, [low |-> low, high |-> high, answer |-> NoValue],
                          [k \in 1..Protocol.maximumIterations |-> k])
    IN  CASE Miss(low) * Miss(high) > 0 -> Inversion("unbracketed", NoValue, 0)
          [] Miss(low) * Miss(high) <= 0 /\ Near(low) -> Inversion("converged", low, 0)
          [] Miss(low) * Miss(high) <= 0 /\ ~Near(low) /\ Near(high) ->
                Inversion("converged", high, 0)
          [] OTHER -> IF final.answer # NoValue THEN final.answer
                      ELSE Inversion("iteration_exhausted", NoValue,
                                     Protocol.maximumIterations)

Inverted == Arms \cup {"label"}
VolErrorSigned(label, volatility) ==
    IF NoValue \in {label, volatility} THEN NoValue ELSE volatility - label
VolError(label, volatility) ==
    IF NoValue \in {label, volatility} THEN NoValue ELSE Size(volatility - label)

\* quotes: for a case and an arm, the price it answers.
IvRow(case, quotes) ==
    LET prices == [name \in Inverted |->
                    IF name = "label" THEN case.curve[case.volatility] ELSE quotes[name]]
        found == [name \in Inverted |-> Bisected(case.curve, prices[name])]
    IN  [prices |-> prices, inversions |-> found,
         errors |-> [name \in Inverted |->
                        VolError(found["label"].volatility, found[name].volatility)]]

IvFailures(rows) ==
    Cardinality({asked \in (DOMAIN rows) \X Inverted :
                    rows[asked[1]].inversions[asked[2]].status # "converged"})
ImpliedVolatility(quotes) ==
    LET rows == [c \in DOMAIN Protocol.ivCases |-> IvRow(Protocol.ivCases[c], quotes[c])]
    IN  [rows |-> rows, failures |-> IvFailures(rows)]

-----------------------------------------------------------------------------
(* The outcome, and the reports of a study.                                 *)

ReferenceSpeedups(latency) ==
    UNION {{latency[cell].median[arm] : arm \in Arms} :
              cell \in {c \in DOMAIN latency : c[2] = Protocol.referenceDepth}}

ClassifyOutcome(passed, validation, latency, iv, phase, complete) ==
    LET speedups == ReferenceSpeedups(latency)
        fast == speedups # {} /\ \A s \in speedups : s >= Protocol.minimumSpeedup
        close == DOMAIN iv.rows # {} /\ \A c \in DOMAIN iv.rows, arm \in Arms :
                    /\ iv.rows[c].errors[arm] # NoValue
                    /\ iv.rows[c].errors[arm] <= Protocol.maximumIvError
        Squares(arm) == validation[arm].slices[Overall].normalised.squares
        better == Squares("transfer") < Squares("scratch")
        both == \A arm \in Arms : passed[arm]
    IN  [phase |-> phase, passed |-> passed, speedups |-> speedups, fast |-> fast,
         close |-> close, better |-> better,
         outcome |->
            CASE \A arm \in Arms : ~passed[arm] -> "failure_to_learn"
              [] (\E arm \in Arms : passed[arm]) /\ ~both -> "mixed_accuracy_outcome"
              [] both /\ ~complete -> "required_evidence_failed"
              [] both /\ complete /\ phase = "validation" -> "eligible_for_final_evaluation"
              [] both /\ complete /\ phase = "final" /\ ~better -> "negative_transfer"
              [] OTHER -> IF fast /\ close THEN "promising"
                          ELSE "accuracy_passed_other_feasibility_gate_failed"]

Completeness(pde, latency, iv) ==
    [pde |-> pde, latency |-> latency, iv |-> iv, passed |-> pde /\ latency /\ iv]

\* The first entry gate a study fails, and the evidence recorded about it.
FailedGate(study) ==
    CASE ~study.admitted -> "admission_policy_invariants"
      [] study.admitted /\ (\/ PdeRaises(study.validationRows, study.solves)
                            \/ ~PdeCheck(study.validationRows, study.solves).passed) ->
            "independent_pde_check"
      [] OTHER -> IF LiftHolds(study.probes) THEN NoValue ELSE "exact_lift"

Raised == [passed |-> FALSE, error |-> "raised"]
EntryFailureReport(study) ==
    [kind |-> "entry", protocol |-> "locked", gate |-> FailedGate(study),
     evidence |->
        CASE FailedGate(study) = "exact_lift" -> ExactLift(study.probes)
          [] FailedGate(study) = "independent_pde_check"
             /\ ~PdeRaises(study.validationRows, study.solves) ->
                PdeCheck(study.validationRows, study.solves)
          [] OTHER -> Raised]

ValidationEvidence(study, pde, models, latency, iv, complete) ==
    [kind |-> "validation", protocol |-> "locked", lift |-> ExactLift(study.probes),
     pde |-> pde, models |-> models, latency |-> latency, iv |-> iv, complete |-> complete,
     passed |-> complete.passed /\ AllHold(ArmsPassed(models)),
     outcome |-> ClassifyOutcome(ArmsPassed(models), models, latency, iv, "validation",
                                 complete.passed)]
Evaluated(study, pde, models, latency, iv) ==
    ValidationEvidence(study, pde, models, latency, iv,
                       Completeness(pde.passed, DOMAIN latency = Cells,
                                    iv.failures <= Protocol.failuresMax))
ValidationReport(study) ==
    Evaluated(study, PdeCheck(study.validationRows, study.solves),
              ModelReports(study.validationRows, study.validation, "validation_final_entry"),
              RunLatency(study.readings), ImpliedVolatility(study.quotes))

FinalEvidence(validation, models) ==
    [kind |-> "final", protocol |-> "locked", models |-> models,
     passed |-> AllHold(ArmsPassed(models)),
     outcome |-> ClassifyOutcome(ArmsPassed(models), validation.models, validation.latency,
                                 validation.iv, "final", validation.complete.passed)]
FinalReport(study, validation) ==
    FinalEvidence(validation, ModelReports(study.finalRows, study.final, "final_accuracy"))
=============================================================================
