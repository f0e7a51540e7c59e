----------------------------- MODULE LabelReport -----------------------------
(***************************************************************************)
(* The stage report of the second label policy, its recomputation from the  *)
(* raw solve records (american/pde_label_policy_v2.py), and the snapshot    *)
(* scripts/freeze_pde_label_policy_v2_results.py distils from it.  Sources  *)
(* stand for the digests of the executable source inventory.                *)
(***************************************************************************)
EXTENDS LabelRules, Sequences, Functions

CONSTANTS Cases,               \* the case design, a set of records
          RemediationCases,    \* names, in order
          ConfirmationCases

Stages == {"remediation", "confirmation"}
StageCases(stage) == IF stage = "remediation" THEN RemediationCases ELSE ConfirmationCases
CaseNamed(name) == CHOOSE case \in Cases : case.name = name

\* Names are unique, in the design and in each stage.
ASSUME LabelReportAssumption ==
    /\ \A case \in Cases : {case.american, case.call} \subseteq BOOLEAN
                           /\ {case.spot, case.strike} \subseteq Int
    /\ \A one, two \in Cases : one.name = two.name => one = two
    /\ \A stage \in Stages :
        LET names == StageCases(stage)
        IN  /\ names \in Seq({case.name : case \in Cases}) /\ names # <<>>
            /\ \A i, j \in DOMAIN names : names[i] = names[j] => i = j
    /\ Range(RemediationCases) \subseteq Range(ConfirmationCases)

-----------------------------------------------------------------------------
(* Aggregates of a stage.                                                   *)

Names(rows) == {row.name : row \in rows}
Gating(rows) == {row \in Range(rows) : row.gating}

FailedChecks(rows) ==
    LET Failing(check) == Names({row \in Gating(rows) : ~row.checks[check]})
        names == UNION {DOMAIN row.checks : row \in Range(rows)}
    IN  [check \in {c \in names : Failing(c) # {}} |-> Failing(check)]

StageOutcome(rows) ==
    LET all == Range(rows)
        failures == Names({row \in Gating(rows) : ~row.passes})
    IN  [gating |-> Names(Gating(rows)),
         failures |-> failures, all_pass |-> failures = {},
         failed_checks |-> FailedChecks(rows),
         descriptive |-> Names({row \in all \ Gating(rows) : ~row.passes}),
         delta |-> Names({row \in all : AllHold(row.delta)}),
         vega |-> Names({row \in all : AllHold(row.vega)}),
         anchor_incomplete |-> Names({row \in all : ~row.support.anchor})]

Planned(names) == UNION {{name} \X RequiredKeys(CaseNamed(name)) : name \in names}

ByCriticality(rows) ==
    [criticality \in Criticalities |->
        Cardinality({solve \in Planned(Names(Range(rows))) :
                        SolveCriticality(CaseNamed(solve[1]), solve[2]) = criticality})]

SolveAccounting(rows, stage) ==
    [planned |-> Cardinality(Planned(Range(StageCases(stage)))),
     attempted |-> Cardinality(UNION {{row.name} \X row.plan : row \in Range(rows)}),
     completed |-> Cardinality(UNION {{row.name} \X DOMAIN row.solves : row \in Range(rows)}),
     exceptions |-> Cardinality(UNION {{row.name} \X DOMAIN row.failures : row \in Range(rows)}),
     by_criticality |-> ByCriticality(rows)]

Reconciles(accounting) ==
    /\ accounting.planned = accounting.attempted
    /\ accounting.attempted = accounting.completed + accounting.exceptions

LifecycleBlock(stage, allPass) ==
    LET confirmed == stage = "confirmation"
    IN  [stage |-> stage,
         remediation |-> IF confirmed \/ allPass THEN "passed" ELSE "failed",
         confirmation |-> IF confirmed THEN "run" ELSE IF allPass THEN "pending" ELSE "not_run",
         terminal |-> confirmed \/ ~allPass,
         freezable |-> confirmed \/ ~allPass,
         selected |-> IF confirmed /\ allPass THEN "candidate"
                      ELSE IF confirmed \/ ~allPass THEN "no_policy_selected" ELSE NoValue]

-----------------------------------------------------------------------------
(* The strict schema of a published document: exact key sets, enumerations, *)
(* and null only where a measurement may be missing.                        *)

Flags(record, fields) == \A field \in fields : record[field] \in BOOLEAN
MaybeNumbers(record, fields) == \A field \in fields : record[field] = NoValue \/ record[field] \in Int
Counts(record, fields) == \A field \in fields : record[field] \in Nat

SolverStatuses == {"discrete_system_converged", "psor_iteration_limit_exceeded"}
ExerciseStates == {"continuation", "exercise", "numerically_indifferent", "no_obstacle"}
SpotBumpKeys == Rungs \X {"down", "up"}

SolveSchema(solve) ==
    /\ solve.status \in SolverStatuses
    /\ solve.regime \in ExerciseStates
    /\ {solve.price, solve.residual} \subseteq Int /\ solve.step \in Nat
    /\ MaybeNumbers(solve, {"delta", "gamma"})
    /\ Flags(solve, {"node", "bumpsNode", "greek"})
    /\ DOMAIN solve.bumped \subseteq SpotBumpKeys
    /\ \A bump \in DOMAIN solve.bumped : solve.bumped[bump] \in Int

FailureSchema(failures) ==
    \A key \in DOMAIN failures : key[1] \in Grids /\ failures[key] \in Criticalities

ValidationSchema(fixed) ==
    /\ fixed.flat = NoValue \/ fixed.flat \in BOOLEAN
    /\ MaybeNumbers(fixed, {"charge", "combined"})
    /\ Flags(fixed, {"invalid", "passes"})

StencilSchema(stencil) == MaybeNumbers(stencil, {"error"}) /\ Flags(stencil, {"ordered", "passes"})

GatingChecks == {"returned", "exact_node", "identity", "residual_scale", "price_absolute_error",
                 "american_dominance", "american_intrinsic_bound", "spot_monotonicity",
                 "spot_convexity"}
DeltaPredicates == {"supporting_solves", "structural_c1", "residual_scale", "fixed_bump",
                    "fixed_bump_residual_scale", "grid_stencil"}
VegaPredicates == {"supporting_solves", "structural_c1", "residual_scale", "numerically_available",
                   "regimes_equal", "convention", "fixed_bump", "fixed_bump_residual_scale"}

EligibilitySchema(predicates, names) == DOMAIN predicates = names /\ Flags(predicates, names)

CaseSchema(row) ==
    /\ \A key \in DOMAIN row.solves : key[1] \in Grids /\ SolveSchema(row.solves[key])
    /\ FailureSchema(row.failures)
    /\ DOMAIN row.checks = GatingChecks /\ Flags(row.checks, GatingChecks)
    /\ Flags(row, {"gating", "passes"}) /\ Flags(row.support, {"price", "delta", "vega", "anchor"})
    /\ MaybeNumbers(row, {"price_error"})
    /\ ValidationSchema(row.fixed_delta) /\ ValidationSchema(row.fixed_vega)
    /\ StencilSchema(row.stencil)
    /\ EligibilitySchema(row.delta, DeltaPredicates)
    /\ EligibilitySchema(row.vega, VegaPredicates)

OutcomeSchema(outcome) ==
    /\ Flags(outcome, {"all_pass"})
    /\ DOMAIN outcome.failed_checks \subseteq GatingChecks

AccountingSchema(accounting) ==
    /\ Counts(accounting, {"planned", "attempted", "completed", "exceptions"})
    /\ DOMAIN accounting.by_criticality \subseteq Criticalities
    /\ Counts(accounting.by_criticality, DOMAIN accounting.by_criticality)

Policies == {"candidate", "no_policy_selected"}

\* A selection is published exactly by a lifecycle that is not pending.
LifecycleSchema(lifecycle) ==
    /\ lifecycle.stage \in Stages
    /\ lifecycle.remediation \in {"passed", "failed"}
    /\ lifecycle.confirmation \in {"pending", "not_run", "run"}
    /\ Flags(lifecycle, {"terminal", "freezable"})
    /\ IF lifecycle.remediation = "passed" /\ lifecycle.confirmation = "pending"
       THEN lifecycle.selected = NoValue ELSE lifecycle.selected \in Policies

ReportSchema(report) ==
    /\ DOMAIN report = {"study", "sources", "rows", "outcome", "accounting", "lifecycle"}
    /\ report.study.stage \in Stages /\ Counts(report.study, {"case_count", "gating"})
    /\ LifecycleSchema(report.lifecycle)
    /\ report.rows # <<>> /\ \A row \in Range(report.rows) : CaseSchema(row)
    /\ OutcomeSchema(report.outcome) /\ AccountingSchema(report.accounting)

-----------------------------------------------------------------------------
(* build_report, and its semantic verification.                             *)

BuildReport(stage, sources, rows) ==
    LET outcome == StageOutcome(rows)
    IN  [study |-> [stage |-> stage, case_count |-> Len(rows), gating |-> Cardinality(outcome.gating)],
         sources |-> sources, rows |-> rows, outcome |-> outcome,
         accounting |-> SolveAccounting(rows, stage),
         lifecycle |-> LifecycleBlock(stage, outcome.all_pass)]

\* What a row may be rebuilt from: its solves and failures, on the plan and
\* disjoint, with the bumped prices their keys must publish and the
\* criticality their role has.
RebuildableRow(row, case) ==
    LET keys == DOMAIN row.solves
        failed == DOMAIN row.failures
    IN  /\ row.plan = RequiredKeys(case)
        /\ keys \cup failed \subseteq RequiredKeys(case)
        /\ keys \cap failed = {}
        /\ \A key \in keys : DOMAIN row.solves[key].bumped = BumpedKeys(key)
        /\ \A key \in failed : row.failures[key] = SolveCriticality(case, key)

\* validate_report_context: the maps whose contents the raw records imply.
ContextHolds(report) ==
    /\ \A row \in Range(report.rows) :
          row.problems = RawSolveProblems(CaseNamed(row.name), row.solves, row.failures)
    /\ report.accounting.by_criticality = ByCriticality(report.rows)
    /\ report.outcome.failed_checks = FailedChecks(report.rows)

RecomputedRows(report) ==
    [i \in DOMAIN report.rows |->
        LET row == report.rows[i]
        IN  EvaluateCase(CaseNamed(row.name), row.solves, row.failures)]

Recompute(report) == BuildReport(report.lifecycle.stage, report.sources, RecomputedRows(report))

AgreesWithout(report, recomputed) ==   \* a mutant: the lifecycle is taken on trust
    /\ report.rows = recomputed.rows
    /\ report.outcome = recomputed.outcome
    /\ report.accounting = recomputed.accounting

\* compare_recomputed_stage.
AgreesWith(report, recomputed) ==
    /\ report.rows = recomputed.rows
    /\ report.outcome = recomputed.outcome
    /\ report.accounting = recomputed.accounting
    /\ report.lifecycle = recomputed.lifecycle

\* verify_stage_report against the source files as they are.
VerifiedReport(report, sources) ==
    LET stage == report.lifecycle.stage
        recomputed == Recompute(report)
    IN  /\ ReportSchema(report)
        /\ report.sources = sources
        /\ report.study.stage = stage
        /\ Len(report.rows) = Len(StageCases(stage))
        /\ \A i \in DOMAIN report.rows : report.rows[i].name = StageCases(stage)[i]
        /\ ContextHolds(report)
        /\ \A row \in Range(report.rows) : RebuildableRow(row, CaseNamed(row.name))
        /\ Reconciles(recomputed.accounting)
        /\ report.study = recomputed.study
        /\ AgreesWith(report, recomputed)

OpensConfirmationOnTrust(report, sources) ==   \* a mutant: nothing is recomputed
    /\ report.sources = sources
    /\ report.lifecycle.stage = "remediation"
    /\ report.lifecycle.remediation = "passed"
    /\ report.lifecycle.confirmation = "pending"

\* require_confirmation_entry.
OpensConfirmation(report, sources) ==
    /\ VerifiedReport(report, sources)
    /\ report.lifecycle.stage = "remediation"
    /\ report.lifecycle.remediation = "passed"
    /\ report.lifecycle.confirmation = "pending"

-----------------------------------------------------------------------------
(* The frozen snapshot.                                                     *)

PriceCriticalSolveChecks == {"returned", "exact_node", "identity", "residual_scale"}

ExtractCase(row) ==
    [name |-> row.name, gating |-> row.gating, passes |-> row.passes,
     failed_checks |-> {check \in DOMAIN row.checks : ~row.checks[check]},
     price_error |-> row.price_error,
     delta |-> AllHold(row.delta), vega |-> AllHold(row.vega),
     delta_error |-> row.fixed_delta.combined, vega_error |-> row.fixed_vega.combined,
     stencil_error |-> row.stencil.error, stencil_ordered |-> row.stencil.ordered,
     anchor |-> row.support.anchor, failures |-> row.failures]

\* extract_snapshot of a verified report.
SnapshotOf(report) ==
    [sources |-> report.sources, lifecycle |-> report.lifecycle, study |-> report.study,
     outcome |-> report.outcome, accounting |-> report.accounting,
     cases |-> [i \in DOMAIN report.rows |-> ExtractCase(report.rows[i])]]

SnapshotCaseSchema(case) ==
    /\ Flags(case, {"gating", "passes", "delta", "vega", "stencil_ordered", "anchor"})
    /\ case.failed_checks \subseteq GatingChecks
    /\ MaybeNumbers(case, {"price_error", "delta_error", "vega_error", "stencil_error"})
    /\ FailureSchema(case.failures)

SnapshotSchema(snapshot) ==
    /\ snapshot.study.stage \in Stages /\ Counts(snapshot.study, {"case_count", "gating"})
    /\ LifecycleSchema(snapshot.lifecycle) /\ snapshot.lifecycle.selected \in Policies
    /\ OutcomeSchema(snapshot.outcome) /\ AccountingSchema(snapshot.accounting)
    /\ snapshot.cases # <<>> /\ \A case \in Range(snapshot.cases) : SnapshotCaseSchema(case)

WithinCap(error, cap) == error # NoValue /\ error <= cap

\* _validate_snapshot_case_consistency.
ConsistentCase(case) ==
    LET priceFailed == "price_absolute_error" \in case.failed_checks
        kinds == Range(case.failures)
    IN  /\ IF case.failed_checks \cap PriceCriticalSolveChecks # {}
           THEN case.price_error = NoValue /\ priceFailed
           ELSE /\ case.price_error # NoValue
                /\ priceFailed <=> case.price_error > PriceCap
        /\ case.delta => /\ WithinCap(case.stencil_error, 3 * DeltaCap)
                         /\ case.stencil_ordered
                         /\ WithinCap(case.delta_error, ChargeBottom * 8 * DeltaCap)
                         /\ kinds \cap {"price_critical", "delta_only"} = {}
        /\ case.vega => /\ WithinCap(case.vega_error, ChargeBottom * 8 * VegaCap)
                        /\ kinds \cap {"price_critical", "vega_only"} = {}
        /\ "price_critical" \in kinds => ~case.passes
        /\ "anchor_descriptive" \in kinds => ~case.anchor

\* _validate_snapshot_cases.
ConsistentOutcome(snapshot) ==
    LET cases == Range(snapshot.cases)
        gating == Gating(snapshot.cases)
        outcome == snapshot.outcome
        failures == Names({case \in gating : ~case.passes})
    IN  /\ \A case \in cases : /\ case.gating <=> CaseNamed(case.name).classification = "regular"
                               /\ case.passes <=> case.failed_checks = {}
                               /\ ConsistentCase(case)
        /\ outcome.gating = Names(gating)
        /\ outcome.failures = failures /\ outcome.all_pass = (failures = {})
        /\ outcome.descriptive = Names({case \in cases \ gating : ~case.passes})
        /\ outcome.delta = Names({case \in cases : case.delta})
        /\ outcome.vega = Names({case \in cases : case.vega})
        /\ outcome.anchor_incomplete = Names({case \in cases : ~case.anchor})
        /\ DOMAIN outcome.failed_checks = UNION {case.failed_checks : case \in gating}
        /\ \A check \in DOMAIN outcome.failed_checks :
              outcome.failed_checks[check] = Names({case \in gating : check \in case.failed_checks})
        /\ snapshot.study.gating = Cardinality(gating)
        /\ IF snapshot.lifecycle.stage = "confirmation"
           THEN snapshot.lifecycle.selected =
                   (IF failures = {} THEN "candidate" ELSE "no_policy_selected")
           ELSE failures # {}

\* _validate_snapshot_accounting.
ConsistentAccounting(snapshot) ==
    LET cases == Range(snapshot.cases)
        attempted == Cardinality(Planned(Names(cases)))
        exceptions == Cardinality(UNION {{case.name} \X DOMAIN case.failures : case \in cases})
    IN  snapshot.accounting =
            [planned |-> Cardinality(Planned(Range(StageCases(snapshot.lifecycle.stage)))),
             attempted |-> attempted, completed |-> attempted - exceptions,
             exceptions |-> exceptions, by_criticality |-> ByCriticality(snapshot.cases)]

\* validate_snapshot against the source files as they are.
ValidSnapshot(snapshot, sources) ==
    LET stage == snapshot.lifecycle.stage
    IN  /\ SnapshotSchema(snapshot)
        /\ snapshot.sources = sources
        /\ \E allPass \in BOOLEAN : snapshot.lifecycle = LifecycleBlock(stage, allPass)
        /\ snapshot.lifecycle.terminal /\ snapshot.lifecycle.freezable
        /\ snapshot.study.stage = stage
        /\ snapshot.study.case_count = Len(snapshot.cases)
        /\ [i \in DOMAIN snapshot.cases |-> snapshot.cases[i].name] = StageCases(stage)
        /\ ConsistentOutcome(snapshot)
        /\ ConsistentAccounting(snapshot)

FreezableOnTrust(report, sources) ==   \* a mutant: nothing is recomputed
    report.lifecycle.terminal /\ report.lifecycle.freezable

\* validate_report of the freeze tool: verified, terminal and freezable.
Freezable(report, sources) ==
    /\ VerifiedReport(report, sources)
    /\ report.lifecycle.terminal /\ report.lifecycle.freezable
=============================================================================
