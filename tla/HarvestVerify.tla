--------------------------- MODULE HarvestVerify ---------------------------
(***************************************************************************)
(* What a published harvest says and what verifying it again establishes    *)
(* (differentiable_pricing/american/pde_surface_harvest.py).                *)
(*                                                                          *)
(* A returned harvest is published: its plan, the records of its groups,    *)
(* surfaces and failures, its rows, and the totals counted from them.       *)
(* Later somebody rewrites the publication, regenerating the file digests   *)
(* and the totals, and it is verified again, by itself and against the      *)
(* expected configuration.                                                  *)
(*                                                                          *)
(* A digest is modelled by the payload it was computed from: a group's      *)
(* identity is its economic state, a surface's is its planned solver input, *)
(* a row's is its surface and its node.  A rewrite makes no new identity.   *)
(* The input of a surface stands for every field of its descriptor; the     *)
(* volatility in it is kept apart because roles are told by it.             *)
(***************************************************************************)
EXTENDS Harvest

CONSTANTS
    BaseVolatility, VolatilityBump,  \* of every scenario, and of the design
    StencilRadius,                   \* pde_regime_stencil_radius
    None, Forged,                    \* a value that is absent, one nobody computed
    MaxRewrittenDeviations,          \* bound: harvests with more are not rewritten
    RewrittenPlaces                  \* bound: places in the plan of the groups rewritten

\* The buffer keeps the regime stencil inside the grid; the whole vega triple
\* needs a bump that leaves sigma_down positive (a base-only design has none).
DesignParses ==
    /\ StencilRadius \in Nat /\ StencilRadius <= Buffer
    /\ BaseVolatility \in Nat /\ VolatilityBump \in Nat \ {0}
    /\ BaseVolatility > VolatilityBump

\* A design names at least one contract; an absent value is not a number.
ASSUME HarvestVerifyAssumption ==
    /\ DesignParses /\ Legs # {} /\ None \notin Int
    /\ MaxRewrittenDeviations \in Nat /\ RewrittenPlaces \subseteq Nat

\* The publication is a function of the run and of what was rewritten since.
VARIABLE
    rewrite       \* its kind, "unpublished" or "untouched" at first, and its group

\* The fields of a record, and those of a second one it lacks.
With(r, s) ==
    LET own == DOMAIN r
    IN  [f \in own \cup DOMAIN s |-> IF f \in own THEN r[f] ELSE s[f]]

-----------------------------------------------------------------------------
(* The published plan.                                                      *)

RoleVolatility(role) ==
    CASE role = "base" -> BaseVolatility
      [] role = "sigma_down" -> BaseVolatility - VolatilityBump
      [] role = "sigma_up" -> BaseVolatility + VolatilityBump

SettingsDigest(input) == input.numerical
SolverInput(s) == [state |-> s.group, leg |-> s.leg, volatility |-> RoleVolatility(s.role),
                   numerical |-> "numerical settings"]

PublishedSurface(s) == [id |-> s, input |-> SolverInput(s), role |-> s.role,
                        settings |-> SettingsDigest(SolverInput(s))]

GroupPayload(g) == [state |-> g, base |-> BaseVolatility]
ScenarioMetadata(g) == [name |-> g, rate |-> "rate", base |-> BaseVolatility,
                        multiplier |-> "multiplier"]

PublishedPlan == [g \in Planned |-> [
    partition |-> assignment[g], payload |-> GroupPayload(g), name |-> g,
    metadata |-> ScenarioMetadata(g), ids |-> SurfacesOf(g),
    surfaces |-> {PublishedSurface(s) : s \in SurfacesOf(g)}]]

\* The sections and digests the configuration alone determines.
ConfigSections == [vega |-> computesVega, rules |-> Quota, weights |-> weights]
Semantic == <<order, weights, computesVega>>

PlannedSurface(plan0, id) == CHOOSE p \in plan0[id.group].surfaces : p.id = id

SurfaceMetadata(plan0, id) ==
    LET entry == plan0[id.group]
        p == PlannedSurface(plan0, id)
    IN  [surface |-> id, group |-> id.group, partition |-> entry.partition,
         name |-> entry.metadata.name, role |-> p.role, settings |-> p.settings,
         input |-> p.input]

RowMetadata(plan0, id, node) ==
    LET entry == plan0[id.group]
        p == PlannedSurface(plan0, id)
    IN  [id |-> <<id, node>>, surface |-> id, node |-> node, group |-> id.group,
         partition |-> entry.partition, name |-> entry.metadata.name, role |-> p.role,
         settings |-> p.settings, input |-> p.input, base |-> entry.metadata.base,
         rate |-> entry.metadata.rate, multiplier |-> entry.metadata.multiplier]

\* _plan_indexes: every identity is the digest of the payload beside it.
PlanHolds(plan0) == \A g \in DOMAIN plan0 :
    LET entry == plan0[g]
    IN  /\ entry.partition \in Range(Partitions)
        /\ entry.payload = GroupPayload(g)
        /\ entry.metadata.name = entry.name
        /\ entry.metadata.base = entry.payload.base
        /\ \A p \in entry.surfaces : p.input = SolverInput(p.id)
        /\ entry.ids = {p.id : p \in entry.surfaces}

-----------------------------------------------------------------------------
(* Rows.                                                                    *)

IneligibilityReasons == {"centered_stencil_unavailable", "inside_domain_boundary_buffer",
    "non_finite_stencil_value", "unresolved_exercise_state", "regime_stencil_not_uniform"}

\* Here as below, a definition that no action uses is a plausible bug of the
\* one it precedes.
EligibilityReasonByStencil(surface, n) ==
    IF n \in Endpoints \cup Buffered THEN "inside_domain_boundary_buffer"
    ELSE IF ~({n - 1, n, n + 1} \subseteq surface.finite) THEN "non_finite_stencil_value"
    ELSE IF \A m \in (n - StencilRadius)..(n + StencilRadius) :
                surface.state[m] = surface.state[n]
         THEN "eligible" ELSE "regime_stencil_not_uniform"

EligibilityReason(surface, n) ==
    CASE n \in Endpoints -> "centered_stencil_unavailable"
      [] n \in Buffered -> "inside_domain_boundary_buffer"
      [] n \in Nodes \ (Endpoints \cup Buffered) /\ ~({n - 1, n, n + 1} \subseteq surface.finite) ->
            "non_finite_stencil_value"
      [] n \in Nodes \ (Endpoints \cup Buffered) /\ {n - 1, n, n + 1} \subseteq surface.finite ->
            IF surface.state[n] = "numerically_indifferent" THEN "unresolved_exercise_state"
            ELSE IF \A m \in (n - StencilRadius)..(n + StencilRadius) :
                        surface.state[m] = surface.state[n]
                 THEN "eligible" ELSE "regime_stencil_not_uniform"

\* The derivative of an interior node is present when its stencil is finite.
Derivative(surface, n) ==
    IF {n - 1, n, n + 1} \subseteq surface.finite THEN "derivative" ELSE None

VegaConvention(bump) == <<"centered", bump>>
LabelRecord(id, convention) == <<id, convention>>
CenteredVega(up, down, bump) == <<up - down, 2 * bump>>
PerVolatilityPoint(vega) == <<vega[1], 100 * vega[2]>>

NoVega == [bump |-> None, convention |-> None, label |-> None, vega |-> None, perPoint |-> None,
           down |-> None, up |-> None, downState |-> None, upState |-> None, available |-> FALSE]

\* attach_leg_vega; a price is represented by the volatility it was solved at.
LegVega(r) ==
    LET at(role) == returned[[r.surface EXCEPT !.role = role]]
        attached == [NoVega EXCEPT
            !.bump = VolatilityBump,
            !.convention = VegaConvention(VolatilityBump),
            !.downState = at("sigma_down").state[r.node],
            !.upState = at("sigma_up").state[r.node]]
        down == RoleVolatility("sigma_down")
        up == RoleVolatility("sigma_up")
        vega == CenteredVega(up, down, VolatilityBump)
    IN  IF ~r.bumped THEN NoVega
        ELSE IF ~r.vega THEN attached
        ELSE [attached EXCEPT
                !.down = down, !.up = up, !.vega = vega, !.perPoint = PerVolatilityPoint(vega),
                !.label = LabelRecord(<<r.surface, r.node>>, VegaConvention(VolatilityBump)),
                !.available = TRUE]

PublishedRow(plan0, r) ==
    LET solved == returned[r.surface]
        reason == EligibilityReason(solved, r.node)
        derivative == Derivative(solved, r.node)
    IN  With(With(RowMetadata(plan0, r.surface, r.node), LegVega(r)),
        [price |-> BaseVolatility, derivative |-> derivative, state |-> r.state, priced |-> TRUE,
         reason |-> reason, eligible |-> reason = "eligible",
         labelled |-> reason = "eligible" /\ derivative # None])

RowNumericsHold(row) ==
    /\ row.state \in States
    /\ row.reason \in IneligibilityReasons \cup {"eligible"}
    /\ row.eligible = (row.reason = "eligible")
    /\ ~(row.state = "numerically_indifferent" /\ row.eligible)
    /\ row.priced /\ row.price # None
    /\ row.labelled => row.eligible /\ row.derivative # None
    /\ ~row.labelled /\ row.eligible => row.derivative = None

RowVegaHolds(row) ==
    IF row.bump = None
    THEN [f \in DOMAIN NoVega |-> row[f]] = NoVega
    ELSE /\ row.bump > 0
         /\ row.convention = VegaConvention(row.bump)
         /\ row.downState \in States /\ row.upState \in States
         /\ IF row.available
            THEN /\ row.up # None /\ row.down # None
                 /\ row.vega = CenteredVega(row.up, row.down, row.bump)
                 /\ row.perPoint = PerVolatilityPoint(row.vega)
                 /\ row.label = LabelRecord(row.id, row.convention)
            ELSE {row.vega, row.perPoint, row.down, row.up, row.label} = {None}

-----------------------------------------------------------------------------
(* The group's roles against its rows.                                      *)

RolesDeclared(entry) == {p.role : p \in entry.surfaces}
VolatilitiesOf(entry, role) == {p.input.volatility : p \in {q \in entry.surfaces : q.role = role}}

RolesHold(entry) ==
    /\ RolesDeclared(entry) \in {{"base"}, {"base"} \cup BumpedRoles}
    /\ \A role \in RolesDeclared(entry) : Cardinality(VolatilitiesOf(entry, role)) = 1

VegaDesignHoldsByFlag(entry, theirRows) ==
    \A row \in theirRows : row.bump = None <=> RolesDeclared(entry) = {"base"}

VegaDesignHolds(entry, theirRows) ==
    IF RolesDeclared(entry) = {"base"}
    THEN \A row \in theirRows : row.bump = None /\ ~row.available
    ELSE \A row \in theirRows :
            LET base == CHOOSE v \in VolatilitiesOf(entry, "base") : TRUE
            IN  /\ row.bump # None
                /\ row.convention = VegaConvention(row.bump)
                /\ VolatilitiesOf(entry, "sigma_down") = {base - row.bump}
                /\ VolatilitiesOf(entry, "sigma_up") = {base + row.bump}

-----------------------------------------------------------------------------
(* Totals and integrity.                                                    *)

\* As many pairs with each argument as the function says.
Heap(f) == UNION {{<<k, x>> : k \in 1..f[x]} : x \in DOMAIN f}
Sum(records, field(_)) == Cardinality(Heap([r \in records |-> field(r)]))
Count(records, holds(_)) == Cardinality({r \in records : holds(r)})

RowTotals(rs) == [
    count |-> Cardinality(rs),
    available |-> Count(rs, LAMBDA r : r.available),
    unchanged |-> Count(rs, LAMBDA r : r.bump # None /\ {r.downState, r.upState} = {r.state}),
    bumped |-> Count(rs, LAMBDA r : r.bump # None),
    states |-> [x \in States |-> Count(rs, LAMBDA r : r.state = x)],
    eligible |-> Count(rs, LAMBDA r : r.eligible),
    reasons |-> {<<reason, Count(rs, LAMBDA r : r.reason = reason)>> :
                    reason \in {r.reason : r \in rs} \ {"eligible"}},
    labelled |-> Count(rs, LAMBDA r : r.labelled)]

ScopeTotals(groups, surfaces, failures, shortfalls, rs) ==
    LET producing == {r.group : r \in rs}
        attempted == Sum(groups, LAMBDA g : g.attempted)
        retained == Count(surfaces, LAMBDA r : r.retained)
    IN  With(RowTotals(rs), [
        groups |-> Cardinality(groups),
        succeeded |-> Count(groups, LAMBDA g : g.status = "succeeded"),
        failed |-> Count(groups, LAMBDA g : g.status = "failed"),
        independent |-> Cardinality(producing),
        planned |-> Sum(groups, LAMBDA g : g.planned),
        attempted |-> attempted,
        returned |-> Sum(groups, LAMBDA g : g.returned),
        solverFailed |-> Sum(groups, LAMBDA g : g.solverFailed),
        successful |-> Cardinality(surfaces),
        postFailed |-> Sum(groups, LAMBDA g : g.postFailed),
        retained |-> retained,
        discarded |-> Cardinality(surfaces) - retained,
        inductions |-> Cardinality(surfaces) + Count(failures, LAMBDA f : f.returned),
        perGroup |-> <<Cardinality(rs), Cardinality(producing)>>,
        perAttempt |-> <<Cardinality(rs), attempted>>,
        perRetained |-> <<Cardinality(rs), retained>>,
        shortfalls |-> Cardinality(shortfalls),
        shortfallRows |-> Sum(shortfalls, LAMBDA q : q.requested - q.achieved),
        rejected |-> Sum(surfaces, LAMBDA r : SumOfReasons(r.rejected))])

In(records, partition) == {r \in records : r.partition = partition}

PartitionTotals(p) == [name \in Range(Partitions) |->
    ScopeTotals(In(p.groups, name), In(p.surfaces, name), In(p.failures, name),
                In(p.shortfalls, name), In(p.rows, name))]

Integrity(p) == [
    straddling |-> {g.group : g \in {a \in p.groups : \E b \in p.groups :
                        a.group = b.group /\ a.partition # b.partition}},
    shared |-> {x \in Range(Partitions) \X Range(Partitions) : x[1] # x[2] /\
                    {r.group : r \in In(p.rows, x[1])} \cap {r.group : r \in In(p.rows, x[2])}
                        # {}},
    states |-> [name \in Range(Partitions) |-> Cardinality({r.group : r \in In(p.rows, name)})]]

\* The totals and integrity counters of a report, counted from its records.
Counted(p) == [p EXCEPT
    !.totals = ScopeTotals(p.groups, p.surfaces, p.failures, p.shortfalls, p.rows),
    !.partitionTotals = PartitionTotals(p),
    !.integrity = Integrity(p)]

YieldsHold(t) ==
    /\ t.perGroup = <<t.count, t.independent>>
    /\ t.perAttempt = <<t.count, t.attempted>>
    /\ t.perRetained = <<t.count, t.retained>>
LifecycleHolds(t) ==
    /\ t.planned = t.attempted
    /\ t.attempted = t.returned + t.solverFailed
    /\ t.returned = t.successful + t.postFailed
    /\ t.successful = t.retained + t.discarded

-----------------------------------------------------------------------------
(* The publication of a returned harvest.                                   *)

PublishedGroup(plan0, g) ==
    LET ids(records) == {r.surface : r \in {q \in records : q.surface.group = g.group}}
    IN  With(g, [
              partition |-> plan0[g.group].partition, name |-> plan0[g.group].metadata.name,
              planned |-> Cardinality(plan0[g.group].ids), plannedIds |-> plan0[g.group].ids,
              successfulIds |-> ids(report.records),
              solverFailedIds |-> ids(OfLifecycle(report.failures, "solver_failed")),
              postFailedIds |-> ids(OfLifecycle(report.failures, "post_solve_pipeline_failed"))])

PublishedRecord(plan0, r) == With(With(r, SurfaceMetadata(plan0, r.surface)),
    [status |-> "solved", nodes |-> Cardinality(Nodes)])

PublishedFailure(plan0, f) == With(f, [
    group |-> f.surface.group, partition |-> plan0[f.surface.group].partition,
    returned |-> f.lifecycle = "post_solve_pipeline_failed",
    diagnostics |-> f.lifecycle = "post_solve_pipeline_failed"])

\* A group that lost a surface reports no shortfall.
Shortfalls(plan0) == UNION {
    {[surface |-> r.surface, group |-> r.surface.group,
      partition |-> plan0[r.surface.group].partition, state |-> x,
      requested |-> Requested(r.surface.leg, x), achieved |-> r.selected[x]] :
        x \in {y \in States : r.selected[y] < Requested(r.surface.leg, y)}} :
    r \in {q \in report.records : q.source /\ q.retained}}

Publication ==
    LET plan0 == PublishedPlan
    IN  Counted([
            plan |-> plan0, semantic |-> Semantic,
            provenance |-> [raw |-> Semantic, semantic |-> Semantic],
            sections |-> ConfigSections,
            groups |-> {PublishedGroup(plan0, g) : g \in report.groups},
            surfaces |-> {PublishedRecord(plan0, r) : r \in report.records},
            failures |-> {PublishedFailure(plan0, f) : f \in report.failures},
            shortfalls |-> Shortfalls(plan0),
            rows |-> {PublishedRow(plan0, r) : r \in rows},
            totals |-> None, partitionTotals |-> None, integrity |-> None])

-----------------------------------------------------------------------------
(* reconcile_report on a publication.                                       *)

Restricted(record, like) == [f \in DOMAIN like |-> record[f]]

SurfacesHold(p) == \A r \in p.surfaces :
    /\ Restricted(r, SurfaceMetadata(p.plan, r.surface)) = SurfaceMetadata(p.plan, r.surface)
    /\ r.status = "solved"
    /\ r.source = (r.role = "base")

FailuresHold(p) == \A f \in p.failures :
    /\ f.group = f.surface.group
    /\ f.partition = p.plan[f.group].partition
    /\ f.lifecycle \in {"solver_failed", "post_solve_pipeline_failed"}
    /\ f.returned = (f.lifecycle = "post_solve_pipeline_failed")
    /\ ~f.returned => ~f.diagnostics

Covered(p) ==
    LET planned == UNION {{s.id : s \in p.plan[g].surfaces} : g \in DOMAIN p.plan}
    IN  /\ {g.group : g \in p.groups} = DOMAIN p.plan
        /\ SurfacesIn(p.surfaces) \cap SurfacesIn(p.failures) = {}
        /\ SurfacesIn(p.surfaces) \cup SurfacesIn(p.failures) = planned
        /\ \A a, b \in p.surfaces : a.surface = b.surface => a = b
        /\ \A a, b \in p.failures : a.surface = b.surface => a = b

RowsHold(p) ==
    /\ Cardinality({row.id : row \in p.rows}) = Cardinality(p.rows)
    /\ \A row \in p.rows :
        LET metadata == RowMetadata(p.plan, row.surface, row.node)
        IN  /\ \E r \in p.surfaces : r.surface = row.surface /\ r.source /\ r.retained
            /\ row.node \in Nodes
            /\ Restricted(row, metadata) = metadata
            /\ RowNumericsHold(row)
            /\ RowVegaHolds(row)

GroupHolds(p, g) ==
    LET records == {r \in p.surfaces : r.group = g.group}
        failures == {f \in p.failures : f.group = g.group}
        theirRows == {row \in p.rows : row.group = g.group}
    IN  /\ RolesHold(p.plan[g.group])
        /\ VegaDesignHolds(p.plan[g.group], theirRows)
        /\ g.planned = Cardinality(p.plan[g.group].ids)
        /\ GroupReconciles(g, p.plan[g.group].ids, records, failures, theirRows)
        /\ g.plannedIds = p.plan[g.group].ids
        /\ g.successfulIds = SurfacesIn(records)
        /\ g.solverFailedIds = SurfacesIn(OfLifecycle(failures, "solver_failed"))
        /\ g.postFailedIds = SurfacesIn(OfLifecycle(failures, "post_solve_pipeline_failed"))

ReconcileReport(p) ==
    /\ p.semantic = p.provenance.semantic
    /\ PlanHolds(p.plan)
    /\ Covered(p)
    /\ SurfacesHold(p)
    /\ FailuresHold(p)
    /\ RowsHold(p)
    /\ \A g \in p.groups : GroupHolds(p, g)
    /\ \A r \in p.surfaces :
        LET mine == OfSurface(p.rows, r.surface)
        IN  SurfaceReconciles(r, mine, Count(mine, LAMBDA row : row.available))
    /\ p = Counted(p)
    /\ \A t \in {p.totals} \cup Range(p.partitionTotals) : YieldsHold(t) /\ LifecycleHolds(t)
    /\ p.integrity.straddling = {} /\ p.integrity.shared = {}

VerifyPublication(p) == ReconcileReport(p)

\* _verify_config_provenance, _verify_published_plan and _verify_config_sections
\* against the configuration and its replanned harvest.
ConfiguredPlan(p) ==
    /\ p.plan = PublishedPlan
    /\ p.semantic = Semantic
    /\ \A g \in DOMAIN p.plan : \A s \in p.plan[g].surfaces :
        s.settings = SettingsDigest(s.input)

Configured(p) ==
    /\ p.provenance = [raw |-> Semantic, semantic |-> Semantic]
    /\ ConfiguredPlan(p)
    /\ p.sections = ConfigSections

VerifyAuthoritatively(p) == Configured(p) /\ ReconcileReport(p)

-----------------------------------------------------------------------------
(* Rewriting a publication, with everything the rewriter can recompute.     *)

OtherPartition(name) == CHOOSE other \in Range(Partitions) : other # name

\* One entry of the plan rewritten.
SwappedRole(role) ==
    CASE role = "sigma_down" -> "sigma_up" [] role = "sigma_up" -> "sigma_down" [] OTHER -> role
PlanKinds == {"rate", "contract_multiplier", "scenario_name", "settings_digest",
              "surface_role", "partition", "base_volatility", "solver_input"}
Entry(e, kind) ==
    LET each(change(_)) == [e EXCEPT !.surfaces = {change(s) : s \in @}]
    IN  CASE kind = "rate" -> [e EXCEPT !.metadata.rate = Forged]
          [] kind = "contract_multiplier" -> [e EXCEPT !.metadata.multiplier = Forged]
          [] kind = "scenario_name" -> [e EXCEPT !.metadata.name = Forged, !.name = Forged]
          [] kind = "base_volatility" -> [e EXCEPT !.metadata.base = @ + 1]
          [] kind = "partition" -> [e EXCEPT !.partition = OtherPartition(@)]
          [] kind = "settings_digest" -> each(LAMBDA s : [s EXCEPT !.settings = Forged])
          [] kind = "solver_input" -> each(LAMBDA s : [s EXCEPT !.input.volatility = @ + 1])
          [] kind = "surface_role" -> each(LAMBDA s : [s EXCEPT !.role = SwappedRole(@)])

\* Every record and row follows the rewritten plan.
Rederived(p, plan0) == [p EXCEPT
    !.plan = plan0,
    !.groups = {[g EXCEPT !.partition = plan0[g.group].partition,
                          !.name = plan0[g.group].metadata.name] : g \in @},
    !.surfaces = {With(SurfaceMetadata(plan0, r.surface), r) : r \in @},
    !.failures = {[f EXCEPT !.partition = plan0[f.group].partition] : f \in @},
    !.shortfalls = {[q EXCEPT !.partition = plan0[q.group].partition] : q \in @},
    !.rows = {With(RowMetadata(plan0, row.surface, row.node), row) : row \in @}]

\* A group that disappears with all its records.
GroupDropped(p, g) ==
    LET kept(entries) == {e \in entries : e.group # g}
    IN  [p EXCEPT !.plan = [h \in DOMAIN @ \ {g} |-> @[h]],
                  !.groups = kept(@), !.surfaces = kept(@), !.failures = kept(@),
                  !.shortfalls = kept(@), !.rows = kept(@)]

\* What the rows of a group say rewritten.
RowKinds == {"row_volatility", "row_node", "row_state", "row_eligibility_flag",
             "row_eligibility", "row_price", "row_bumped_price", "row_vega", "row_bump",
             "row_label"}

\* The vega of a row recomputed from its published prices and bump.
Revalued(row) == [row EXCEPT
    !.convention = VegaConvention(row.bump),
    !.vega = IF row.available THEN CenteredVega(row.up, row.down, row.bump) ELSE None,
    !.perPoint = IF row.available
        THEN PerVolatilityPoint(CenteredVega(row.up, row.down, row.bump)) ELSE None,
    !.label = IF row.available THEN LabelRecord(row.id, VegaConvention(row.bump)) ELSE None]

Row(row, kind) ==
    CASE kind = "row_volatility" -> [row EXCEPT !.input.volatility = @ + 1]
      [] kind = "row_node" -> [row EXCEPT !.node = IF @ = 0 THEN 1 ELSE @ - 1]
      [] kind = "row_state" ->
            [row EXCEPT !.state = IF @ = "exercise" THEN "continuation" ELSE "exercise"]
      [] kind = "row_eligibility_flag" -> [row EXCEPT !.eligible = ~@]
      [] kind = "row_eligibility" ->
            [row EXCEPT !.eligible = FALSE, !.labelled = FALSE,
                        !.reason = "regime_stencil_not_uniform"]
      [] kind = "row_price" -> [row EXCEPT !.price = @ + 1]
      [] kind = "row_bumped_price" ->
            IF row.available THEN Revalued([row EXCEPT !.up = @ + 1]) ELSE row
      [] kind = "row_vega" -> [row EXCEPT !.vega = Forged]
      [] kind = "row_bump" -> Revalued([row EXCEPT !.bump = 2 * VolatilityBump])
      [] kind = "row_label" -> [row EXCEPT !.label = Forged]

\* What the records of a group say rewritten; "lifecycle" turns every rejected
\* surface of the group into one the solver raised on, in the counts too.
RecordKinds == {"retained", "group_partition", "group_name", "lifecycle", "shortfall"}
Change(entries, g, change(_)) == {IF e.group = g THEN change(e) ELSE e : e \in entries}
Records(p, kind, g) ==
    CASE kind = "retained" ->
            [p EXCEPT !.surfaces = Change(@, g, LAMBDA r : [r EXCEPT !.retained = ~@])]
      [] kind = "group_partition" ->
            [p EXCEPT !.groups =
                Change(@, g, LAMBDA r : [r EXCEPT !.partition = OtherPartition(@)])]
      [] kind = "group_name" ->
            [p EXCEPT !.groups = Change(@, g, LAMBDA r : [r EXCEPT !.name = Forged])]
      [] kind = "shortfall" ->
            [p EXCEPT !.shortfalls = {q \in @ : q.group # g}]
      [] kind = "lifecycle" ->
            [p EXCEPT
                !.failures = Change(@, g, LAMBDA f : [f EXCEPT
                    !.lifecycle = "solver_failed", !.returned = FALSE, !.diagnostics = FALSE]),
                !.groups = Change(@, g, LAMBDA r : [r EXCEPT
                    !.returned = @ - r.postFailed, !.solverFailed = @ + r.postFailed,
                    !.postFailed = 0, !.postFailedIds = {},
                    !.solverFailedIds = @ \cup r.postFailedIds])]

ReportKinds == {"sections", "raw_digest", "semantic_digest"}
Kinds == PlanKinds \cup RowKinds \cup RecordKinds \cup ReportKinds \cup {"group_dropped"}

Rewritten(p, kind, g) == Counted(
    CASE kind \in PlanKinds -> Rederived(p, [p.plan EXCEPT ![g] = Entry(@, kind)])
      [] kind \in RowKinds ->
            [p EXCEPT !.rows = {IF row.group = g THEN Row(row, kind) ELSE row : row \in @}]
      [] kind \in RecordKinds -> Records(p, kind, g)
      [] kind = "group_dropped" -> GroupDropped(p, g)
      [] kind = "sections" -> [p EXCEPT !.sections = Forged]
      [] kind = "raw_digest" -> [p EXCEPT !.provenance.raw = Forged]
      [] kind = "semantic_digest" ->
            [p EXCEPT !.provenance.semantic = Forged, !.semantic = Forged])

Kind == rewrite[1]
Target == rewrite[2]
Untouched == Kind \in {"unpublished", "untouched", "refused"}

-----------------------------------------------------------------------------
VerifyInit == Init /\ rewrite = <<"unpublished", None>>

Harvesting == Kind = "unpublished" /\ Next /\ UNCHANGED rewrite

\* write_outputs reconciles once more before it writes, and refuses what does not.
Publish ==
    /\ pc = "returned" /\ Kind = "unpublished"
    /\ rewrite' = <<IF ReconcileReport(Publication) THEN "untouched" ELSE "refused", None>>
    /\ UNCHANGED vars

Rewrite ==
    /\ Kind = "untouched" /\ deviations <= MaxRewrittenDeviations
    /\ rewrite' \in Kinds \X {order[i] : i \in DOMAIN order \cap RewrittenPlaces}
    /\ UNCHANGED vars

VerifyNext == Harvesting \/ Publish \/ Rewrite
VerifySpec == VerifyInit /\ [][VerifyNext]_<<vars, rewrite>>

-----------------------------------------------------------------------------
(* Properties.                                                              *)

\* What execute_plan returned is published: write_outputs never refuses it, and
\* verify_publication and verify_publication_authoritatively accept it, whatever
\* failed on the way and whether or not vegas were computed.
UntouchedVerifies == pc = "returned" /\ Untouched =>
    LET p == Publication
    IN  Kind # "refused" /\ VerifyPublication(p) /\ VerifyAuthoritatively(p)

\* What only the solver knows, and what nothing rebuilds.
SolvedData == {"row_price", "row_bumped_price", "row_eligibility", "lifecycle", "shortfall",
               "group_name"}
ConfigurationOnly == {"rate", "contract_multiplier", "scenario_name", "settings_digest",
                      "partition", "group_dropped", "sections", "raw_digest", "semantic_digest"}
Solved(g) == \E r \in report.records : r.surface.group = g
Harvested(g) == \E row \in rows : row.surface.group = g

\* Exactly which rewrites the two verifications let through.  Against the
\* configuration: data only the solver knows, the recorded shortfalls, and the
\* labels a group record repeats (its partition only when no surface of it was
\* solved, or the counts of the partitions give it away).  By itself: also what
\* only the configuration fixes, the partition of a group and its very presence
\* among it, and swapped roles of a group no row of which tells the bump.
RewritesAreCaught == ~Untouched =>
    LET original == Publication
        p == Rewritten(original, Kind, Target)
        verified == VerifyPublication(p)
        unseen == Kind \in SolvedData \/ (Kind = "group_partition" /\ ~Solved(Target))
    IN  p # original =>
        /\ Configured(p) /\ verified <=> unseen
        /\ verified <=>
            \/ unseen
            \/ Kind \in ConfigurationOnly
            \/ Kind = "surface_role" /\ ~Harvested(Target)
=============================================================================
