----------------------------- MODULE LabelRules -----------------------------
(***************************************************************************)
(* What the second label policy decides about one case, from the surface    *)
(* solves it measured (american/pde_label_policy_v2.py).  A solve is        *)
(*   [status, node, bumpsNode, planned, finite, price, delta, gamma, greek, *)
(*    regime, residual, step, bumped]                                       *)
(* where residual is time_steps * |maximum_lcp_residual|, planned says the  *)
(* echoed contract, grid and volatility are the planned ones, and bumped    *)
(* maps <<rung, direction>> to a price.  Numbers are integers.  The bump    *)
(* ladder is h, 2h, 4h with h = 1, so a centred difference on a rung is     *)
(* carried eight times over, and so is whatever it is compared with.        *)
(***************************************************************************)
EXTENDS Integers, FiniteSets

CONSTANTS NoValue,
          PriceCap, DeltaCap, VegaCap,   \* absolute-error caps
          ShapeFloor,                    \* shape_absolute_floor
          ChargeTop, ChargeBottom,       \* FIXED_BUMP_CHARGE_FACTOR as a fraction
          LowSquare, HighSquare,         \* 4 ^ order at the ends of the band
          AnchorCases                    \* names with a 6400x3200 rung

ASSUME LabelRulesAssumption ==
    /\ {PriceCap, DeltaCap, VegaCap, ShapeFloor} \subseteq Nat
    /\ {ChargeTop, ChargeBottom} \subseteq Nat \ {0} /\ ChargeBottom <= ChargeTop
    /\ {LowSquare, HighSquare} \subseteq Nat /\ LowSquare < HighSquare

-----------------------------------------------------------------------------
(* The solve plan of a case and what the failure of a solve may veto.       *)

Grids == {"probe", "candidate", "reference", "anchor"}
Rungs == {1, 2, 4}
Down == [rung \in Rungs |-> CASE rung = 1 -> "down_h" [] rung = 2 -> "down_2h" [] OTHER -> "down_4h"]
Up == [rung \in Rungs |-> CASE rung = 1 -> "up_h" [] rung = 2 -> "up_2h" [] OTHER -> "up_4h"]
VolatilityRoles == {Down[rung] : rung \in Rungs} \cup {Up[rung] : rung \in Rungs}

RequiredKeys(case) ==
    {<<grid, "base">> : grid \in {"probe", "candidate", "reference"}}
    \cup {<<"candidate", role>> : role \in VolatilityRoles}
    \cup {<<"reference", Down[1]>>, <<"reference", Up[1]>>}
    \cup (IF case.american THEN {<<"candidate", "control">>} ELSE {})
    \cup (IF case.name \in AnchorCases THEN {<<"anchor", "base">>} ELSE {})

Criticalities == {"price_critical", "delta_only", "vega_only", "anchor_descriptive",
                  "stress_descriptive"}

SolveCriticalityOfProbes(case, key) ==   \* a mutant: the probe gates the price
    CASE case.classification = "stress" -> "stress_descriptive"
      [] key[1] = "anchor" -> "anchor_descriptive"
      [] key[2] \in VolatilityRoles -> "vega_only"
      [] OTHER -> "price_critical"

SolveCriticality(case, key) ==
    CASE case.classification = "stress" -> "stress_descriptive"
      [] key[1] = "anchor" -> "anchor_descriptive"
      [] key[2] \in VolatilityRoles -> "vega_only"
      [] key[1] = "probe" -> "delta_only"
      [] OTHER -> "price_critical"

KeysOf(case, criticality) ==
    {key \in RequiredKeys(case) : SolveCriticality(case, key) = criticality}

\* The spot-bumped prices a solve must publish.
BumpedKeys(key) ==
    IF key[2] = "base" /\ key[1] \in {"candidate", "reference"}
    THEN Rungs \X {"down", "up"} ELSE {}

-----------------------------------------------------------------------------
(* Problems of a solve, read from its raw record.                           *)

SolveProblemsAnonymous(solve) ==   \* a mutant: the echoed identity is not compared
    {issue \in {"solver_status", "centre_not_an_exact_node", "bumped_not_an_exact_node",
                "non_finite_centre_price", "residual_scale_above_cap"} :
        CASE issue = "solver_status" -> solve.status # "discrete_system_converged"
          [] issue = "centre_not_an_exact_node" -> ~solve.node
          [] issue = "bumped_not_an_exact_node" -> ~solve.bumpsNode
          [] issue = "non_finite_centre_price" -> ~solve.finite
          [] issue = "residual_scale_above_cap" -> solve.residual > PriceCap}

SolveProblems(solve) ==
    {issue \in {"solver_status", "centre_not_an_exact_node", "bumped_not_an_exact_node",
                "non_finite_centre_price", "identity_mismatch", "residual_scale_above_cap"} :
        CASE issue = "solver_status" -> solve.status # "discrete_system_converged"
          [] issue = "centre_not_an_exact_node" -> ~solve.node
          [] issue = "bumped_not_an_exact_node" -> ~solve.bumpsNode
          [] issue = "non_finite_centre_price" -> ~solve.finite
          [] issue = "identity_mismatch" -> ~solve.planned
          [] issue = "residual_scale_above_cap" -> solve.residual > PriceCap}

RawSolveProblems(case, solves, failed) ==
    [key \in RequiredKeys(case) |->
        IF key \in DOMAIN solves THEN SolveProblems(solves[key])
        ELSE IF key \in DOMAIN failed THEN {"solver_exception"} ELSE {"solve_absent"}]

-----------------------------------------------------------------------------
(* The bump-ladder and stencil validations.                                 *)

Size(n) == IF n < 0 THEN -n ELSE n

\* observed_order within the band: log2 of the ratio of the two movements,
\* undefined when either is zero.
OrderSupported(coarse, medium, fine) ==
    LET numerator == Size(coarse - medium)
        denominator == Size(medium - fine)
    IN  /\ numerator # 0 /\ denominator # 0
        /\ LowSquare * denominator * denominator <= numerator * numerator
        /\ numerator * numerator <= HighSquare * denominator * denominator

Unavailable == [flat |-> NoValue, charge |-> NoValue, combined |-> NoValue,
                invalid |-> FALSE, passes |-> FALSE]

FixedBumpChargeFree(flat, small, epsilon) == IF flat THEN 0 ELSE ChargeTop * small   \* a mutant

\* The charge, ChargeBottom times over: on a ladder flat within the residual
\* scale the scale itself, otherwise the movement of its first step.
FixedBumpCharge(flat, small, epsilon) == ChargeTop * (IF flat THEN epsilon ELSE small)

FixedBumpValidation(h, h2, h4, reference, epsilonSmall, epsilonLarge, cap) ==
    LET small == Size(h - h2)
        flat == small <= epsilonSmall /\ Size(h2 - h4) <= epsilonLarge
        charge == FixedBumpCharge(flat, small, epsilonSmall)
        combined == ChargeBottom * Size(h - reference) + charge
        invalid == ChargeTop * epsilonSmall > ChargeBottom * cap
    IN  [flat |-> flat, charge |-> charge, combined |-> combined, invalid |-> invalid,
         passes |-> /\ flat \/ OrderSupported(h4, h2, h)
                    /\ combined <= ChargeBottom * cap
                    /\ ~invalid]

\* Eight times (up - down) / (2 * rung).
Centred(up, down, rung) == (4 \div rung) * (up - down)

BumpDelta(solve, rung) == Centred(solve.bumped[<<rung, "up">>], solve.bumped[<<rung, "down">>], rung)

FixedBumpDelta(solves, supported) ==
    LET candidate == solves[<<"candidate", "base">>]
        reference == solves[<<"reference", "base">>]
        published == /\ BumpedKeys(<<"candidate", "base">>) \subseteq DOMAIN candidate.bumped
                     /\ {<<1, "up">>, <<1, "down">>} \subseteq DOMAIN reference.bumped
    IN  IF ~supported \/ ~({<<"candidate", "base">>, <<"reference", "base">>} \subseteq DOMAIN solves)
        THEN Unavailable
        ELSE IF ~published THEN Unavailable
        ELSE FixedBumpValidation(BumpDelta(candidate, 1), BumpDelta(candidate, 2),
                                 BumpDelta(candidate, 4), BumpDelta(reference, 1),
                                 12 * candidate.residual, 6 * candidate.residual, 8 * DeltaCap)

VegaKeys == {<<"candidate", role>> : role \in VolatilityRoles}
            \cup {<<"reference", Down[1]>>, <<"reference", Up[1]>>}

FixedBumpVega(solves, supported) ==
    LET On(grid, rung) == Centred(solves[<<grid, Up[rung]>>].price,
                                  solves[<<grid, Down[rung]>>].price, rung)
        RungError(rung) == (4 \div rung) * (solves[<<"candidate", Up[rung]>>].residual
                                            + solves[<<"candidate", Down[rung]>>].residual)
    IN  IF ~supported \/ ~(VegaKeys \subseteq DOMAIN solves)
        THEN Unavailable
        ELSE FixedBumpValidation(On("candidate", 1), On("candidate", 2), On("candidate", 4),
                                 On("reference", 1), RungError(1) + RungError(2),
                                 RungError(2) + RungError(4), 8 * VegaCap)

\* Three times the second-order Richardson extrapolation.
Extrapolated(coarse, fine) == 3 * fine + (fine - coarse)

GridStencil(solves, supported) ==
    LET keys == {<<grid, "base">> : grid \in {"probe", "candidate", "reference"}}
        Stencil(grid) == solves[<<grid, "base">>].delta
        error == Size(3 * Stencil("candidate")
                      - Extrapolated(Stencil("candidate"), Stencil("reference")))
        ordered == OrderSupported(Stencil("probe"), Stencil("candidate"), Stencil("reference"))
    IN  IF /\ supported
           /\ keys \subseteq DOMAIN solves
           /\ \A key \in keys : solves[key].delta # NoValue
        THEN [error |-> error, ordered |-> ordered,
              passes |-> ordered /\ error <= 3 * DeltaCap]
        ELSE [error |-> NoValue, ordered |-> FALSE, passes |-> FALSE]

-----------------------------------------------------------------------------
(* The shape checks: an allowance never wider than the price cap.           *)

Larger(a, b) == IF a < b THEN b ELSE a

WithinShape(gap, scale) ==
    scale <= PriceCap /\ gap >= -Larger(ShapeFloor, scale)

Intrinsic(case) == Larger(0, IF case.call THEN case.spot - case.strike ELSE case.strike - case.spot)

ShapeOutcome(case, solves, available) ==
    LET candidate == solves[<<"candidate", "base">>]
        control == solves[<<"candidate", "control">>]
        compared == /\ case.american /\ available
                    /\ <<"candidate", "control">> \in DOMAIN solves
    IN  [american_dominance |->
            compared => WithinShape(candidate.price - control.price,
                                    candidate.residual + control.residual),
         american_intrinsic_bound |->
            compared => WithinShape(candidate.price - Intrinsic(case), candidate.residual),
         spot_monotonicity |->
            available => /\ candidate.delta # NoValue
                         /\ IF case.call THEN candidate.delta >= -ShapeFloor
                                         ELSE candidate.delta <= ShapeFloor,
         spot_convexity |->
            available => candidate.gamma # NoValue /\ candidate.gamma >= -ShapeFloor]

-----------------------------------------------------------------------------
(* evaluate_case.                                                           *)

AllUsable(case, problems, criticality) ==
    \A key \in KeysOf(case, criticality) : problems[key] = {}

NoIssue(case, problems, markers) ==
    \A key \in KeysOf(case, "price_critical") : problems[key] \cap markers = {}

Support(case, problems) ==
    LET price == AllUsable(case, problems, "price_critical")
    IN  [price |-> price,
         delta |-> price /\ AllUsable(case, problems, "delta_only"),
         vega |-> price /\ AllUsable(case, problems, "vega_only"),
         anchor |-> case.name \in AnchorCases => problems[<<"anchor", "base">>] = {}]

\* NoValue where the code publishes no price error.
PriceError(solves, support) ==
    LET candidate == <<"candidate", "base">>
        reference == <<"reference", "base">>
    IN  IF support.price /\ {candidate, reference} \subseteq DOMAIN solves
        THEN Size(solves[candidate].price - solves[reference].price) ELSE NoValue

GateChecks(case, solves, problems, support) ==
    LET error == PriceError(solves, support)
        shape == ShapeOutcome(case, solves,
                              support.price /\ <<"candidate", "base">> \in DOMAIN solves)
    IN  [returned |-> NoIssue(case, problems,
                              {"solver_exception", "solve_absent", "solver_status"}),
         exact_node |-> NoIssue(case, problems,
                                {"centre_not_an_exact_node", "bumped_not_an_exact_node"}),
         identity |-> NoIssue(case, problems, {"identity_mismatch", "non_finite_centre_price"}),
         residual_scale |-> NoIssue(case, problems, {"residual_scale_above_cap"}),
         price_absolute_error |-> error # NoValue /\ error <= PriceCap,
         american_dominance |-> shape.american_dominance,
         american_intrinsic_bound |-> shape.american_intrinsic_bound,
         spot_monotonicity |-> shape.spot_monotonicity,
         spot_convexity |-> shape.spot_convexity]

AllHold(checks) == \A name \in DOMAIN checks : checks[name]

DeltaEligibility(solves, support, fixed, stencil) ==
    LET base == <<"candidate", "base">>
        present == base \in DOMAIN solves
    IN  [supporting_solves |-> support.delta,
         structural_c1 |-> present /\ solves[base].greek,
         residual_scale |-> present /\ solves[base].residual <= DeltaCap * solves[base].step,
         fixed_bump |-> fixed.passes,
         fixed_bump_residual_scale |-> ~fixed.invalid,
         grid_stencil |-> stencil.passes]

VegaEligibility(solves, support, fixed) ==
    LET base == <<"candidate", "base">>
        down == <<"candidate", Down[1]>>
        up == <<"candidate", Up[1]>>
        present == {base, down, up} \subseteq DOMAIN solves
    IN  [supporting_solves |-> present /\ support.vega,
         structural_c1 |-> base \in DOMAIN solves /\ solves[base].greek,
         residual_scale |-> present /\ solves[down].residual + solves[up].residual <= 2 * VegaCap,
         numerically_available |-> present /\ solves[down].finite /\ solves[up].finite,
         regimes_equal |-> present /\ Cardinality({solves[key].regime : key \in {base, down, up}}) = 1,
         convention |-> present /\ solves[down].planned /\ solves[up].planned,
         fixed_bump |-> present /\ fixed.passes,
         fixed_bump_residual_scale |-> present => ~fixed.invalid]

\* failed maps the keys whose solve raised to the criticality recorded.
EvaluateCase(case, solves, failed) ==
    LET problems == RawSolveProblems(case, solves, failed)
        support == Support(case, problems)
        checks == GateChecks(case, solves, problems, support)
        fixedDelta == FixedBumpDelta(solves, support.price)
        fixedVega == FixedBumpVega(solves, support.vega)
        stencil == GridStencil(solves, support.delta)
    IN  [name |-> case.name, gating |-> case.classification = "regular",
         plan |-> RequiredKeys(case), solves |-> solves, failures |-> failed,
         problems |-> problems, support |-> support, price_error |-> PriceError(solves, support),
         fixed_delta |-> fixedDelta, fixed_vega |-> fixedVega, stencil |-> stencil,
         checks |-> checks, passes |-> AllHold(checks),
         delta |-> DeltaEligibility(solves, support, fixedDelta, stencil),
         vega |-> VegaEligibility(solves, support, fixedVega)]
=============================================================================
