------------------------------- MODULE Harvest -------------------------------
(***************************************************************************)
(* Planning and executing a harvest of PDE surfaces                         *)
(* (differentiable_pricing/american/pde_surface_harvest.py).                *)
(*                                                                          *)
(* Candidate groups are apportioned to three partitions; then every planned *)
(* surface of every group is attempted, in plan order; a solve may fail, a  *)
(* returned surface may be rejected; the nodes of a leg's base surface are  *)
(* harvested last, with the vega its bumped surfaces give; a group with any *)
(* failure retains no rows; and the finished report is recounted from its   *)
(* records and rows before it is returned.                                  *)
(*                                                                          *)
(* Identities are abstracted: a group is a member of Groups, the digest     *)
(* order of a run's groups is the sequence `order`, and a repeated member   *)
(* stands for a repeated economic state or an aliased solver input.  Prices *)
(* and Greeks are abstracted to whether the price is finite.                *)
(***************************************************************************)
EXTENDS Integers, Sequences, FiniteSets, Functions

CONSTANTS
    Groups,          \* base economic states
    Legs,            \* contracts: an option type with an exercise style
    Style,           \* the exercise style of each leg
    Weightings,      \* partition weights considered, in units of their sum
    MinGroups,       \* minimum_groups_per_partition
    Intervals,       \* spot_intervals: nodes are 0..Intervals
    Buffer,          \* boundary_exclusion_nodes
    Window,          \* the nodes inside the moneyness window
    Quota,           \* quota per surface and exercise state
    Returns,         \* surfaces the solver may return, for each leg
    Nominal,         \* the one it returns unless something deviates
    MaxDeviations    \* bound: surfaces that fail or deviate in one run

States == {"continuation", "exercise", "numerically_indifferent", "no_obstacle"}
Nodes == 0..Intervals
Surfaces == [state : [Nodes -> States], finite : SUBSET Nodes]
Partitions == <<"train", "validation", "interpolation_test">>
PartitionIds == DOMAIN Partitions
BumpedRoles == {"sigma_down", "sigma_up"}

\* What parse_harvest_config leaves of the configurations it is given.  The
\* weights are declared for exactly the three partitions, are positive and sum
\* to one, here to Unit.
PartitioningParses ==
    /\ Weightings \subseteq [PartitionIds -> Nat \ {0}]
    /\ MinGroups \in Nat \ {0}
GridParses == Intervals \in Nat \ {0} /\ Buffer \in Nat \ {0}
\* A quota, possibly zero, for every exercise state; a window with an inside.
HarvestParses == Quota \in [States -> Nat] /\ Window \subseteq Nodes
SurfacesParse == Style \in [Legs -> {"american", "european"}]

ASSUME HarvestAssumption ==
    /\ IsFiniteSet(Groups) /\ IsFiniteSet(Legs)
    /\ PartitioningParses /\ GridParses /\ SurfacesParse /\ HarvestParses
    /\ Returns \in [Legs -> SUBSET Surfaces]
    /\ \A l \in Legs : Nominal[l] \in Returns[l]
    /\ MaxDeviations \in Nat

VARIABLES
    order,        \* the candidate groups, sorted by assignment digest
    weights,      \* partitioning.weights
    computesVega, \* the design solves the whole vega triple, not the base alone
    pc,           \* where plan_harvest and execute_plan are
    sizes,        \* groups per partition
    assignment,   \* the partition of each group, empty until assigned
    closed,       \* groups of the plan that are finished
    current,      \* what the group under way has accumulated
    report,       \* the lists and counters that become the report
    rows,         \* the harvested rows
    deviations,   \* surfaces that failed or deviated (bounds the runs)
    returned      \* history: the surface each successful call returned

plan == <<order, weights, computesVega>>
planning == <<sizes, assignment>>
execution == <<closed, current, report, rows, deviations, returned>>
vars == <<plan, pc, planning, execution>>

Planned == {order[i] : i \in DOMAIN order}

-----------------------------------------------------------------------------
(* Partition counts.                                                        *)

Total == Len(order)
Exact(p) == weights[p] * Total
Unit == weights[1] + weights[2] + weights[3]
Remainder(p) == Exact(p) % Unit
Floors == [p \in PartitionIds |-> Exact(p) \div Unit]
Left == Total - (Floors[1] + Floors[2] + Floors[3])

\* Here as below, a definition that no action uses is a plausible bug of the
\* one it precedes.
ApportionedByFloor == Floors

\* The place of a partition when remainders are sorted, ties in declared order.
Place(p) == Cardinality({q \in PartitionIds :
    \/ Remainder(q) > Remainder(p)
    \/ Remainder(q) = Remainder(p) /\ q < p})

Apportioned == [p \in PartitionIds |-> Floors[p] + (IF Place(p) < Left THEN 1 ELSE 0)]

Deficient == {p \in PartitionIds : sizes[p] < MinGroups}
Donors == {p \in PartitionIds : sizes[p] > MinGroups}
\* The largest partition that can spare a group, ties in declared order.
Donor == CHOOSE d \in Donors : \A q \in Donors :
    sizes[q] < sizes[d] \/ (sizes[q] = sizes[d] /\ d <= q)


\* Consecutive slices of the digest order, in declared partition order.
PartitionAt(i) ==
    IF i <= sizes[1] THEN 1 ELSE IF i <= sizes[1] + sizes[2] THEN 2 ELSE 3

Assigned == [g \in Planned |->
    Partitions[PartitionAt(CHOOSE i \in DOMAIN order : order[i] = g)]]

-----------------------------------------------------------------------------
(* Node selection on one surface.                                           *)

Applicable(leg) ==
    IF Style[leg] = "european" THEN {"no_obstacle"} ELSE States \ {"no_obstacle"}
Requested(leg, x) == IF x \in Applicable(leg) THEN Quota[x] ELSE 0

Endpoints == {0, Intervals}
Buffered == {n \in Nodes : n < Buffer \/ n > Intervals - Buffer} \ Endpoints
Outside == Nodes \ (Window \cup Buffered \cup Endpoints)
NonFinite(s) == Nodes \ (s.finite \cup Outside \cup Buffered \cup Endpoints)
Candidates(s, x) ==
    {n \in s.finite \ (Outside \cup Buffered \cup Endpoints) : s.state[n] = x}

\* The candidate with k smaller ones.
Nth(c, k) == CHOOSE n \in c : Cardinality({m \in c : m < n}) = k

PositionsByStride(count, quota) ==
    IF quota >= count THEN [k \in 1..count |-> k - 1]
    ELSE [k \in 1..quota |-> (k - 1) * (count \div quota)]

\* evenly_spaced_selection multiplies a position by the float (count - 1) / (quota - 1),
\* a quotient n / d rounded to 53 significant bits, and floors the rounded product.
\* Powers of two modulo d, and the binade of a quotient of at least one.
PowerModulo(b, d) ==
    LET power[i \in 0..b] == IF i = 0 THEN 1 % d ELSE (2 * power[i - 1]) % d
    IN  power[b]
Binade(a, b) == CHOOSE e \in 0..a : b * 2^e <= a /\ a < b * 2^(e + 1)

\* What rounding adds to n / d, in units of a d-th of its last place.
Drift(n, d) ==
    LET units == (n * PowerModulo(52 - Binade(n, d), d)) % d
    IN  IF n % d = 0 THEN 0 ELSE IF 2 * units < d THEN -units ELSE d - units

\* The rounded product falls short of k * n / d, a whole number, when the drift of
\* the step has grown past half a place below it, which is a smaller place below a
\* power of two.  No other product of fewer than 2^26 candidates is rounded across a
\* whole number.
FallsShort(n, d, k) ==
    LET whole == (k * n) \div d
        place == 2^Binade(whole, 1)
    IN  /\ Drift(n, d) < 0
        /\ k > 0 /\ (k * n) % d = 0
        /\ k * (-Drift(n, d)) * 2^Binade(n, d) * (IF whole = place THEN 4 ELSE 2) > d * place

Floored(n, d, k) == (k * n) \div d - (IF FallsShort(n, d, k) THEN 1 ELSE 0)

\* The positions evenly_spaced_selection picks among `count` candidates.
Positions(count, quota) ==
    CASE quota >= count -> [k \in 1..count |-> k - 1]
      [] quota < count /\ quota = 1 -> [k \in 1..1 |-> (count - 1) \div 2]
      [] quota < count /\ quota # 1 ->
            [k \in 1..quota |-> Floored(count - 1, quota - 1, k - 1)]

\* harvest_surface refuses a surface with a state its style cannot produce among
\* the nodes that are left.
Producible(leg, s) == \A x \in States \ Applicable(leg) : Candidates(s, x) = {}

Picks(leg, s, x) == Positions(Cardinality(Candidates(s, x)), Requested(leg, x))
Selection(leg, s, x) == {Nth(Candidates(s, x), k) : k \in Range(Picks(leg, s, x))}

OverStates(f) == f["continuation"] + f["exercise"] + f["numerically_indifferent"]
                 + f["no_obstacle"]

Selected(leg, s) == [x \in States |-> Cardinality(Selection(leg, s, x))]

Rejected(leg, s) == [
    truncation_endpoint |-> Cardinality(Endpoints),
    boundary_buffer |-> Cardinality(Buffered),
    outside_moneyness_window |-> Cardinality(Outside),
    non_finite_price |-> Cardinality(NonFinite(s)),
    quota |-> OverStates([x \in States |->
        Cardinality(Candidates(s, x)) - Cardinality(Selection(leg, s, x))]),
    duplicate_node |-> OverStates([x \in States |->
        Len(Picks(leg, s, x)) - Cardinality(Selection(leg, s, x))]),
    non_base_role |-> 0]

\* bumped_surface_accounting: every node of a bumped surface is rejected.
RejectedBumped == [
    truncation_endpoint |-> 0, boundary_buffer |-> 0, outside_moneyness_window |-> 0,
    non_finite_price |-> 0, quota |-> 0, duplicate_node |-> 0,
    non_base_role |-> Cardinality(Nodes)]

-----------------------------------------------------------------------------
(* The plan's surfaces and their order.                                     *)

RoleOrder == IF computesVega THEN <<"sigma_down", "sigma_up", "base">> ELSE <<"base">>
Roles == Range(RoleOrder)
SurfacesOf(g) == [group : {g}, leg : Legs, role : Roles]
AllSurfaces == [group : Planned, leg : Legs, role : Roles]
Group == order[closed + 1]

SurfacesIn(records) == {r.surface : r \in records}
Attempted == SurfacesIn(current.records) \cup SurfacesIn(current.failures)
\* The surfaces of the leg that are in `solved`.
SolvedRoles(s) == {r.role : r \in
    {q \in SurfacesIn(current.records) : q.leg = s.leg}}

Earlier(a, b) == \E i, j \in DOMAIN RoleOrder :
    i < j /\ RoleOrder[i] = a /\ RoleOrder[j] = b

\* The surface attempted next: legs one after the other, in the order of
\* their base surface's identity, which is any order.
Due(s) ==
    /\ s \in SurfacesOf(Group) \ Attempted
    /\ \A q \in SurfacesOf(Group) :
        /\ q.leg = s.leg /\ Earlier(q.role, s.role) => q \in Attempted
        /\ q.leg # s.leg /\ q \in Attempted =>
                [q EXCEPT !.role = "base"] \in Attempted

-----------------------------------------------------------------------------
NoGroup == [rows |-> {}, records |-> {}, failures |-> {}, attempted |-> 0, returned |-> 0]
NoReport == [records |-> {}, failures |-> {}, groups |-> {}, attempted |-> 0,
             returned |-> 0, solverFailed |-> 0, successful |-> 0, postFailed |-> 0]

Init ==
    /\ order \in UNION {[1..n -> Groups] : n \in 1..Cardinality(Groups)}
    /\ weights \in Weightings
    /\ computesVega \in BOOLEAN
    /\ pc = "plan"
    /\ sizes = [p \in PartitionIds |-> 0]
    /\ assignment = <<>>
    /\ closed = 0
    /\ current = NoGroup
    /\ report = NoReport
    /\ rows = {}
    /\ deviations = 0
    /\ returned = <<>>

\* Repeated economic states, aliased solver inputs and too few groups are
\* refused before anything is solved.
Refuse ==
    /\ pc = "plan"
    /\ ~IsInjective(order) \/ Total < Len(Partitions) * MinGroups
    /\ pc' = "refused"
    /\ UNCHANGED <<plan, planning, execution>>

\* The largest-remainder counts.
Apportion ==
    /\ pc = "plan"
    /\ IsInjective(order)
    /\ Total >= Len(Partitions) * MinGroups
    /\ sizes' = Apportioned
    /\ pc' = "repair"
    /\ UNCHANGED <<plan, assignment, execution>>

\* One turn of the loop that repairs partitions below the minimum, in
\* declared order.
Donate ==
    /\ pc = "repair"
    /\ Donors # {}
    /\ \E p \in Deficient :
        /\ \A q \in Deficient : p <= q
        /\ sizes' = [sizes EXCEPT ![Donor] = @ - 1, ![p] = @ + 1]
    /\ UNCHANGED <<plan, pc, assignment, execution>>

Assign ==
    /\ pc = "repair"
    /\ Deficient = {}
    /\ assignment' = Assigned
    /\ pc' = "execute"
    /\ UNCHANGED <<plan, sizes, execution>>

-----------------------------------------------------------------------------
(* One attempt: the guarded step of execute_plan.                           *)

Attempt(s) ==
    /\ pc = "execute"
    /\ closed < Total
    /\ Due(s)
    /\ UNCHANGED <<plan, pc, planning, closed, rows>>

Deviate(d) == deviations + d <= MaxDeviations /\ deviations' = deviations + d

\* The solver raises.
SolverRaises(s) ==
    /\ Attempt(s)
    /\ Deviate(1)
    /\ current' = [current EXCEPT
            !.attempted = @ + 1,
            !.failures = @ \cup {[surface |-> s, lifecycle |-> "solver_failed"]}]
    /\ report' = [report EXCEPT !.attempted = @ + 1, !.solverFailed = @ + 1]
    /\ UNCHANGED returned

\* A base surface whose bumped siblings are not both solved cannot be
\* harvested; any returned surface may fail its validation or its harvest.
Orphaned(s) == s.role = "base" /\ computesVega /\ ~(BumpedRoles \subseteq SolvedRoles(s))

Rejects(s) ==
    /\ Attempt(s)
    /\ Deviate(IF Orphaned(s) THEN 0 ELSE 1)
    /\ current' = [current EXCEPT
            !.attempted = @ + 1,
            !.returned = @ + 1,
            !.failures = @ \cup {[surface |-> s, lifecycle |-> "post_solve_pipeline_failed"]}]
    /\ report' = [report EXCEPT !.attempted = @ + 1, !.returned = @ + 1, !.postFailed = @ + 1]
    /\ UNCHANGED returned

\* attach_leg_vega: the row carries a vega when both bumped prices are finite.
HasVega(s, n) ==
    /\ computesVega
    /\ \A r \in BumpedRoles : n \in returned[[s EXCEPT !.role = r]].finite

RowsOf(s, surface) ==
    {[surface |-> s, node |-> n, state |-> surface.state[n],
      bumped |-> computesVega, vega |-> HasVega(s, n)] :
        n \in UNION {Selection(s.leg, surface, x) : x \in States}}

Available(rs) == Cardinality({r \in rs : r.vega})

BaseRecord(s, surface, new) == [
    surface |-> s, source |-> TRUE, retained |-> TRUE, retainedRows |-> Cardinality(new),
    vegaRows |-> Available(new), harvested |-> Cardinality(new),
    selected |-> Selected(s.leg, surface), rejected |-> Rejected(s.leg, surface)]

BumpedRecord(s) == [
    surface |-> s, source |-> FALSE, retained |-> TRUE, retainedRows |-> 0,
    vegaRows |-> 0, harvested |-> 0,
    selected |-> [x \in States |-> 0], rejected |-> RejectedBumped]

\* The surface passes the whole pipeline.
Succeeds(s) ==
    /\ Attempt(s)
    /\ ~Orphaned(s)
    /\ \E surface \in Returns[s.leg] :
        LET new == IF s.role = "base" THEN RowsOf(s, surface) ELSE {}
            record == IF s.role = "base" THEN BaseRecord(s, surface, new) ELSE BumpedRecord(s)
        IN  /\ s.role = "base" => Producible(s.leg, surface)
            /\ Deviate(IF surface = Nominal[s.leg] THEN 0 ELSE 1)
            /\ returned' = [q \in DOMAIN returned \cup {s} |->
                    IF q = s THEN surface ELSE returned[q]]
            /\ current' = [current EXCEPT
                    !.attempted = @ + 1,
                    !.returned = @ + 1,
                    !.rows = @ \cup new,
                    !.records = @ \cup {record}]
    /\ report' = [report EXCEPT !.attempted = @ + 1, !.returned = @ + 1, !.successful = @ + 1]

-----------------------------------------------------------------------------
(* The end of a group and of the run.                                       *)

OfLifecycle(failures, lifecycle) == {f \in failures : f.lifecycle = lifecycle}

ClosedFlagOnly(record, failed) == [record EXCEPT !.retained = ~failed]

Closed(record, failed) ==
    [record EXCEPT !.retained = ~failed,
                   !.retainedRows = IF failed THEN 0 ELSE record.harvested]

GroupRecord ==
    LET failed == current.failures # {}
        solved == Cardinality(current.records)
    IN  [group |-> Group,
         status |-> IF failed THEN "failed" ELSE "succeeded",
         attempted |-> current.attempted,
         returned |-> current.returned,
         solverFailed |-> Cardinality(OfLifecycle(current.failures, "solver_failed")),
         successful |-> solved,
         postFailed |->
            Cardinality(OfLifecycle(current.failures, "post_solve_pipeline_failed")),
         retained |-> IF failed THEN 0 ELSE solved,
         discarded |-> IF failed THEN solved ELSE 0,
         rows |-> IF failed THEN 0 ELSE Cardinality(current.rows)]

KeptRowsOfEveryLeg == current.rows
KeptRows == IF current.failures # {} THEN {} ELSE current.rows

CloseGroup ==
    /\ pc = "execute"
    /\ closed < Total
    /\ Attempted = SurfacesOf(Group)
    /\ rows' = rows \cup KeptRows
    /\ report' = [report EXCEPT
            !.records = @ \cup {Closed(r, current.failures # {}) : r \in current.records},
            !.failures = @ \cup current.failures,
            !.groups = @ \cup {GroupRecord}]
    /\ closed' = closed + 1
    /\ current' = NoGroup
    /\ UNCHANGED <<plan, pc, planning, deviations, returned>>

\* _build_report: the loop's own counters against the records it left.
CountersAgree ==
    LET solverFailed == Cardinality(OfLifecycle(report.failures, "solver_failed"))
        postFailed == Cardinality(OfLifecycle(report.failures, "post_solve_pipeline_failed"))
        successful == Cardinality(report.records)
    IN  /\ report.attempted = Cardinality(AllSurfaces)
        /\ report.attempted = successful + Cardinality(report.failures)
        /\ report.returned = successful + postFailed
        /\ report.solverFailed = solverFailed
        /\ report.successful = successful
        /\ report.postFailed = postFailed

\* reconcile_report, one part for each of its loops.
CoverReconciles ==
    /\ {g.group : g \in report.groups} = Planned
    /\ SurfacesIn(report.records) \cap SurfacesIn(report.failures) = {}
    /\ SurfacesIn(report.records) \cup SurfacesIn(report.failures) = AllSurfaces
    /\ \A r \in report.records : r.source = (r.surface.role = "base")

RowsReconcile == \A row \in rows :
    /\ \A other \in rows :
        other.surface = row.surface /\ other.node = row.node => other = row
    /\ \E r \in report.records : r.surface = row.surface /\ r.source /\ r.retained
    /\ row.bumped = computesVega
    /\ row.vega => row.bumped

\* A group's record against its planned surfaces, their records and its rows.
GroupReconciles(g, ids, records, failures, theirs) ==
    LET failed == failures # {}
        post == Cardinality(OfLifecycle(failures, "post_solve_pipeline_failed"))
        successful == Cardinality(records)
    IN  /\ g.status = IF failed THEN "failed" ELSE "succeeded"
        /\ g.attempted = Cardinality(ids)
        /\ g.returned = successful + post
        /\ g.solverFailed = Cardinality(failures) - post
        /\ g.successful = successful
        /\ g.postFailed = post
        /\ g.retained = IF failed THEN 0 ELSE successful
        /\ g.discarded = IF failed THEN successful ELSE 0
        /\ g.rows = Cardinality(theirs)
        /\ \A r \in records : r.retained = ~failed

SumOfReasons(f) ==
    f.truncation_endpoint + f.boundary_buffer + f.outside_moneyness_window
    + f.non_finite_price + f.quota + f.duplicate_node + f.non_base_role

\* A surface's record against its rows, of which `available` have a vega.
SurfaceReconciles(r, mine, available) ==
    /\ OverStates(r.selected) + SumOfReasons(r.rejected) = Cardinality(Nodes)
    /\ OverStates(r.selected) = r.harvested
    /\ r.retainedRows = Cardinality(mine)
    /\ r.vegaRows = available
    /\ ~r.source \/ ~r.retained => mine = {}
    /\ r.retained =>
        \A x \in States :
            /\ r.selected[x] = Cardinality({row \in mine : row.state = x})
            /\ r.source => r.selected[x] <= Requested(r.surface.leg, x)

OfGroup(entries, group) == {e \in entries : e.surface.group = group}
OfSurface(entries, s) == {e \in entries : e.surface = s}

Reconciles ==
    /\ CountersAgree
    /\ CoverReconciles
    /\ RowsReconcile
    /\ \A g \in report.groups :
        GroupReconciles(g, SurfacesOf(g.group), OfGroup(report.records, g.group),
                        OfGroup(report.failures, g.group), OfGroup(rows, g.group))
    /\ \A r \in report.records :
        SurfaceReconciles(r, OfSurface(rows, r.surface), Available(OfSurface(rows, r.surface)))

\* The report is returned, or reconciliation raises and the run is lost.
Report ==
    /\ pc = "execute"
    /\ closed = Total
    /\ pc' = IF Reconciles THEN "returned" ELSE "raised"
    /\ UNCHANGED <<plan, planning, execution>>

Next ==
    \/ Refuse
    \/ Apportion
    \/ Donate
    \/ Assign
    \/ \E s \in AllSurfaces : SolverRaises(s) \/ Rejects(s) \/ Succeeds(s)
    \/ CloseGroup
    \/ Report

Spec == Init /\ [][Next]_vars

-----------------------------------------------------------------------------
(* Properties.                                                              *)

\* Type correctness; only assigned plans execute.
TypeOK ==
    /\ pc \in {"plan", "repair", "refused", "execute", "returned", "raised"}
    /\ sizes \in [PartitionIds -> Nat]
    /\ pc \in {"execute", "returned", "raised"} =>
            assignment \in [Planned -> Range(Partitions)]
    /\ closed \in 0..Total
    /\ deviations \in 0..MaxDeviations
    /\ DOMAIN returned \subseteq AllSurfaces
    /\ {r.surface : r \in rows \cup current.rows} \subseteq AllSurfaces

\* partition_counts: a partition below the minimum always finds a donor; an
\* assigned plan places every group once, gives every partition its minimum,
\* and departs from the exact share by less than a group, unless some exact
\* share is below the minimum.
PartitionsFilled ==
    /\ pc = "repair" /\ Deficient # {} => Donors # {}
    /\ pc = "execute" =>
        LET members(p) == {g \in Planned : assignment[g] = Partitions[p]}
        IN  \A p \in PartitionIds :
                /\ Cardinality(members(p)) >= MinGroups
                /\ \/ \E q \in PartitionIds : Exact(q) < MinGroups * Unit
                   \/ /\ Cardinality(members(p)) * Unit < Exact(p) + Unit
                      /\ Cardinality(members(p)) * Unit > Exact(p) - Unit

\* Reference, from the surfaces that came back: the nodes a row may come from.
Complete(g) == SurfacesOf(g) \subseteq DOMAIN returned
Admissible(s, x) == {n \in Window \cap returned[s].finite :
    /\ 0 < n /\ n < Intervals
    /\ Buffer <= n /\ n <= Intervals - Buffer
    /\ returned[s].state[n] = x}

\* A group is retained whole or not at all (the per-group retention of
\* execute_plan): a finished group that lost a surface has no row and says so,
\* one that lost none succeeded, and a group under way has published nothing.
WholeGroups ==
    /\ \A r \in rows : \E i \in 1..closed : r.surface.group = order[i] /\ Complete(order[i])
    /\ \A g \in report.groups : g.status = "succeeded" <=> Complete(g.group)

\* Chosen nodes cover their candidates evenly: the first is chosen, the last or the
\* one before it is (a step rounded down can leave out the last), and the candidates
\* passed over between neighbours differ by at most one in number.
Even(chosen, from) ==
    LET between(a, b) == Cardinality({n \in from : a < n /\ n < b})
        neighbours == {u \in chosen \X chosen :
            u[1] < u[2] /\ ~\E n \in chosen : u[1] < n /\ n < u[2]}
        passedOver == {between(u[1], u[2]) : u \in neighbours}
    IN  Cardinality(chosen) >= 2 =>
            /\ \A n \in from : \E a \in chosen : a <= n
            /\ \A m, n \in from \ chosen : m # n => \E b \in chosen : m < b \/ n < b
            /\ \A x, y \in passedOver : x <= y + 1

\* harvest_surface and attach_leg_vega: a completed group's base surfaces give,
\* for every exercise state, as many rows as the quota and the admissible nodes
\* allow, on admissible nodes spread evenly, and a row has a vega exactly when
\* both bumped prices of its leg are finite at its node.
RowsAreOwed == \A i \in 1..closed : Complete(order[i]) =>
    \A s \in SurfacesOf(order[i]) :
        LET mine == {r \in rows : r.surface = s}
        IN  IF s.role # "base" THEN mine = {}
            ELSE /\ \A x \in States :
                        LET chosen == {r.node : r \in {q \in mine : q.state = x}}
                            from == Admissible(s, x)
                        IN  /\ chosen \subseteq from
                            /\ \/ chosen = from /\ Cardinality(from) <= Quota[x]
                               \/ Cardinality(chosen) = Quota[x]
                            /\ Even(chosen, from)
                 /\ \A r \in mine : r.vega <=> computesVega /\
                        \A b \in BumpedRoles :
                            r.node \in returned[[s EXCEPT !.role = b]].finite

\* The report of a run is lost exactly when a discarded surface still counts
\* vega rows: _surface_record counts the rows its leg produced, CloseGroup
\* resets retained_row_count but not that count, and reconciliation compares
\* it with the rows that were kept.  Every other run, whatever failed in it,
\* passes its own recount.
LostOnlyToVegaCount ==
    LET stale == \E r \in report.records : ~r.retained /\ r.vegaRows > 0
    IN  (pc = "raised" => stale) /\ (pc = "returned" => ~stale)

\* "one failed pipeline surface ... never aborts the run" (execute_plan): a run
\* that was planned is never lost.
FailureIsolated == pc # "raised"

=============================================================================
