----------------------------- MODULE LabelProofs -----------------------------
(***************************************************************************)
(* Theorems about LabelPolicy, for every case design, every set of measured *)
(* solves and every disturbance of them that the assumptions admit.         *)
(***************************************************************************)
EXTENDS LabelPolicy, TLAPS, FiniteSetTheorems, SequenceTheorems

CaseAt(stage, i) == CaseNamed(StageCases(stage)[i])

\* What may have happened to a case: nothing, or a disturbance of its plan.
Possible(case, disturbance) ==
    \/ disturbance = Clean
    \/ disturbance \in Disturbances /\ disturbance.key \in RequiredKeys(case)

\* Solves and failures that a case's plan can yield.
Collection(case, solves, failures) ==
    /\ DOMAIN solves \cup DOMAIN failures = RequiredKeys(case)
    /\ DOMAIN solves \cap DOMAIN failures = {}
    /\ \A key \in DOMAIN solves : solves[key] \in SolvesOf(key)
    /\ failures = [key \in DOMAIN failures |-> SolveCriticality(case, key)]

\* A stage names cases of the design.
LEMMA StageNamesCases ==
    ASSUME NEW stage \in Stages, NEW i \in DOMAIN StageCases(stage)
    PROVE  CaseAt(stage, i) \in Cases /\ CaseAt(stage, i).name = StageCases(stage)[i]
<1>1. StageCases(stage) \in Seq({case.name : case \in Cases})
  BY LabelReportAssumption
<1>2. StageCases(stage)[i] \in {case.name : case \in Cases}
  BY <1>1
<1>3. \E case \in Cases : case.name = StageCases(stage)[i]
  BY <1>2
<1> QED
  BY <1>3 DEF CaseAt, CaseNamed

\* Whatever happens to one solve, the others are as measured, and every key of
\* the plan has a solve or a failure.
LEMMA Spoiling ==
    ASSUME NEW key, NEW solve \in SolvesOf(key), NEW kind \in Kinds \ {"raised"}
    PROVE  Spoilt(solve, kind) \in SolvesOf(key)
<1> USE DEF Spoilt, SolvesOf
<1>1. CASE kind = "shifted"
  BY <1>1 DEF Shift
<1>2. CASE kind = "residual"
  <2>1. PriceCap + 1 \in Nat
    BY LabelRulesAssumption
  <2> QED BY <1>2, <2>1
<1>3. CASE kind = "kinked"
  BY <1>3 DEF ExerciseStates
<1>4. CASE kind = "foreign"
  BY <1>4
<1>5. CASE kind = "unconverged"
  BY <1>5 DEF SolverStatuses
<1>6. CASE kind = "overflow"
  BY <1>6
<1>7. CASE kind = "no_delta"
  BY <1>7
<1>8. CASE kind = "off_node"
  BY <1>8
<1>9. CASE kind = "biased"
  <2>1. [b \in DOMAIN solve.bumped |-> IF b[2] = "up" THEN solve.bumped[b] + 7 ELSE solve.bumped[b]]
          \in [BumpedKeys(key) -> Int]
    OBVIOUS
  <2> QED BY <1>9, <2>1
<1>10. CASE kind = "wobbly"
  <2>1. \A b : Wobble(b) \in Int
    BY DEF Wobble
  <2>2. [b \in DOMAIN solve.bumped |-> solve.bumped[b] + Wobble(b)] \in [BumpedKeys(key) -> Int]
    BY <2>1
  <2> QED BY <1>10, <2>2
<1> QED
  BY <1>1, <1>2, <1>3, <1>4, <1>5, <1>6, <1>7, <1>8, <1>9, <1>10 DEF Kinds

LEMMA Collecting ==
    ASSUME NEW case \in Cases, NEW disturbance, Possible(case, disturbance)
    PROVE  LET collected == CollectCaseSolves(case, disturbance)
           IN  Collection(case, collected.solves, collected.failures)
<1> DEFINE clean == Measured[case]
           key == disturbance.key
<1>1. /\ DOMAIN clean = RequiredKeys(case)
      /\ \A k \in RequiredKeys(case) : clean[k] \in SolvesOf(k)
  BY MeasuredAssumption
<1>2. CASE disturbance.kind = "clean"
  <2>1. CollectCaseSolves(case, disturbance) = [solves |-> clean, failures |-> <<>>]
    BY <1>2 DEF CollectCaseSolves
  <2> QED BY <1>1, <2>1 DEF Collection
<1>3. ASSUME disturbance.kind # "clean"
      PROVE  disturbance.kind \in Kinds /\ key \in RequiredKeys(case)
  BY <1>3, DisturbancesAssumption DEF Possible, Clean
<1>4. CASE disturbance.kind = "raised"
  <2> DEFINE left == [k \in DOMAIN clean \ {key} |-> clean[k]]
             lost == [k \in {key} |-> SolveCriticality(case, key)]
  <2>1. CollectCaseSolves(case, disturbance) = [solves |-> left, failures |-> lost]
    BY <1>4 DEF CollectCaseSolves
  <2>2. key \in RequiredKeys(case)
    BY <1>3, <1>4
  <2>3. Collection(case, left, lost)
    BY <1>1, <2>2 DEF Collection
  <2> HIDE DEF left, lost
  <2> QED BY <2>1, <2>3
<1>5. CASE disturbance.kind \notin {"clean", "raised"}
  <2> DEFINE spoilt == [clean EXCEPT ![key] = Spoilt(clean[key], disturbance.kind)]
  <2>1. CollectCaseSolves(case, disturbance) = [solves |-> spoilt, failures |-> <<>>]
    BY <1>5 DEF CollectCaseSolves
  <2>2. key \in RequiredKeys(case) /\ disturbance.kind \in Kinds \ {"raised"}
    BY <1>3, <1>5
  <2>3. Spoilt(clean[key], disturbance.kind) \in SolvesOf(key)
    BY <1>1, <2>2, Spoiling
  <2>4. Collection(case, spoilt, <<>>)
    BY <1>1, <2>2, <2>3 DEF Collection
  <2> HIDE DEF spoilt
  <2> QED BY <2>1, <2>4
<1> QED
  BY <1>2, <1>4, <1>5


-----------------------------------------------------------------------------
(* The gate reads nothing but the price-critical solves.                    *)

Gate(case, solves, failures) == EvaluateCase(case, solves, failures).passes

\* A regular case's price rests on its candidate, control and reference solves.
LEMMA PriceCriticalKeys ==
    ASSUME NEW case, case.classification = "regular"
    PROVE  KeysOf(case, "price_critical") \subseteq PriceKeys
<1> SUFFICES ASSUME NEW key \in RequiredKeys(case),
                    SolveCriticality(case, key) = "price_critical"
             PROVE  key \in PriceKeys
  BY DEF KeysOf
<1>1. key[1] # "anchor" /\ key[2] \notin VolatilityRoles /\ key[1] # "probe"
  BY DEF SolveCriticality
<1>2. CASE key \in {<<grid, "base">> : grid \in {"probe", "candidate", "reference"}}
  BY <1>1, <1>2 DEF PriceKeys
<1>3. CASE key \in {<<"candidate", role>> : role \in VolatilityRoles}
  BY <1>1, <1>3
<1>4. CASE key \in {<<"reference", Down[1]>>, <<"reference", Up[1]>>}
  BY <1>1, <1>4 DEF VolatilityRoles, Rungs
<1>5. CASE key \in (IF case.american THEN {<<"candidate", "control">>} ELSE {})
  BY <1>5 DEF PriceKeys
<1>6. CASE key \in (IF case.name \in AnchorCases THEN {<<"anchor", "base">>} ELSE {})
  BY <1>1, <1>6
<1> QED
  BY <1>2, <1>3, <1>4, <1>5, <1>6 DEF RequiredKeys

\* Two collections of solves that tell the gate the same.
SamePrices(s, f, t, g) ==
    /\ \A key \in PriceKeys :
        /\ key \in DOMAIN s <=> key \in DOMAIN t
        /\ key \in DOMAIN f <=> key \in DOMAIN g
        /\ key \in DOMAIN s => /\ SolveProblems(s[key]) = SolveProblems(t[key])
                               /\ s[key].price = t[key].price
                               /\ s[key].residual = t[key].residual
    /\ LET base == <<"candidate", "base">>
       IN  base \in DOMAIN s => /\ s[base].delta = t[base].delta
                                /\ s[base].gamma = t[base].gamma

LEMMA SameProblems ==
    ASSUME NEW case, case.classification = "regular",
           NEW s, NEW f, NEW t, NEW g, SamePrices(s, f, t, g)
    PROVE  \A key \in KeysOf(case, "price_critical") :
              RawSolveProblems(case, s, f)[key] = RawSolveProblems(case, t, g)[key]
<1> SUFFICES ASSUME NEW key \in KeysOf(case, "price_critical")
             PROVE  RawSolveProblems(case, s, f)[key] = RawSolveProblems(case, t, g)[key]
  OBVIOUS
<1>1. key \in RequiredKeys(case) /\ key \in PriceKeys
  BY PriceCriticalKeys DEF KeysOf
<1>2. RawSolveProblems(case, s, f)[key] =
        IF key \in DOMAIN s THEN SolveProblems(s[key])
        ELSE IF key \in DOMAIN f THEN {"solver_exception"} ELSE {"solve_absent"}
  BY <1>1 DEF RawSolveProblems
<1>3. RawSolveProblems(case, t, g)[key] =
        IF key \in DOMAIN t THEN SolveProblems(t[key])
        ELSE IF key \in DOMAIN g THEN {"solver_exception"} ELSE {"solve_absent"}
  BY <1>1 DEF RawSolveProblems
<1> QED
  BY <1>1, <1>2, <1>3 DEF SamePrices

\* The nine checks, one by one.
Passes(case, s, f) ==
    LET problems == RawSolveProblems(case, s, f)
        support == Support(case, problems)
        error == PriceError(s, support)
        shape == ShapeOutcome(case, s, support.price /\ <<"candidate", "base">> \in DOMAIN s)
    IN  /\ NoIssue(case, problems, {"solver_exception", "solve_absent", "solver_status"})
        /\ NoIssue(case, problems, {"centre_not_an_exact_node", "bumped_not_an_exact_node"})
        /\ NoIssue(case, problems, {"identity_mismatch", "non_finite_centre_price"})
        /\ NoIssue(case, problems, {"residual_scale_above_cap"})
        /\ error # NoValue /\ error <= PriceCap
        /\ shape.american_dominance /\ shape.american_intrinsic_bound
        /\ shape.spot_monotonicity /\ shape.spot_convexity

LEMMA GateIs == ASSUME NEW case, NEW s, NEW f PROVE Gate(case, s, f) <=> Passes(case, s, f)
<1> DEFINE problems == RawSolveProblems(case, s, f)
           checks == GateChecks(case, s, problems, Support(case, problems))
<1>1. Gate(case, s, f) <=> AllHold(checks)
  BY DEF Gate, EvaluateCase
<1>2. DOMAIN checks = {"returned", "exact_node", "identity", "residual_scale",
        "price_absolute_error", "american_dominance", "american_intrinsic_bound",
        "spot_monotonicity", "spot_convexity"}
  BY DEF GateChecks
<1>3. AllHold(checks) <=>
        /\ checks.returned /\ checks.exact_node /\ checks.identity /\ checks.residual_scale
        /\ checks.price_absolute_error /\ checks.american_dominance
        /\ checks.american_intrinsic_bound /\ checks.spot_monotonicity /\ checks.spot_convexity
  <2> HIDE DEF checks
  <2> QED BY <1>2 DEF AllHold
<1> QED
  BY <1>1, <1>3 DEF GateChecks, Passes


\* What the shape checks read of a candidate and a control.
LEMMA SameShape ==
    ASSUME NEW case, NEW s, NEW f, NEW t, NEW g, SamePrices(s, f, t, g), NEW a \in BOOLEAN,
           a => <<"candidate", "base">> \in DOMAIN s
    PROVE  LET one == ShapeOutcome(case, s, a)
               two == ShapeOutcome(case, t, a)
           IN  /\ one.american_dominance <=> two.american_dominance
               /\ one.american_intrinsic_bound <=> two.american_intrinsic_bound
               /\ one.spot_monotonicity <=> two.spot_monotonicity
               /\ one.spot_convexity <=> two.spot_convexity
<1> DEFINE base == <<"candidate", "base">>
           control == <<"candidate", "control">>
<1>1. base \in PriceKeys /\ control \in PriceKeys
  BY DEF PriceKeys
<1>2. control \in DOMAIN s <=> control \in DOMAIN t
  BY <1>1 DEF SamePrices
<1>3. a => /\ s[base].price = t[base].price /\ s[base].residual = t[base].residual
           /\ s[base].delta = t[base].delta /\ s[base].gamma = t[base].gamma
  BY <1>1 DEF SamePrices
<1>4. control \in DOMAIN s => s[control].price = t[control].price
                              /\ s[control].residual = t[control].residual
  BY <1>1 DEF SamePrices
<1> QED
  BY <1>2, <1>3, <1>4 DEF ShapeOutcome

\* A regular case passes or fails by its price-critical solves alone, and by
\* nothing of them but their problems, prices, residuals and the candidate's
\* own delta and gamma.
LEMMA GateReadsPrices ==
    ASSUME NEW case, case.classification = "regular",
           NEW s, NEW f, NEW t, NEW g, SamePrices(s, f, t, g)
    PROVE  Gate(case, s, f) <=> Gate(case, t, g)
<1> DEFINE base == <<"candidate", "base">>
           reference == <<"reference", "base">>
<1> PICK p : p = RawSolveProblems(case, s, f)
  OBVIOUS
<1> PICK q : q = RawSolveProblems(case, t, g)
  OBVIOUS
<1>1. \A key \in KeysOf(case, "price_critical") : p[key] = q[key]
  BY SameProblems
<1>2. \A markers : NoIssue(case, p, markers) <=> NoIssue(case, q, markers)
  BY <1>1 DEF NoIssue
<1>3. AllUsable(case, p, "price_critical") <=> AllUsable(case, q, "price_critical")
  BY <1>1 DEF AllUsable
<1> PICK u : u = Support(case, p)
  OBVIOUS
<1> PICK v : v = Support(case, q)
  OBVIOUS
<1>4. u.price <=> v.price
  BY <1>3 DEF Support
<1>5. /\ base \in PriceKeys /\ reference \in PriceKeys
      /\ base \in DOMAIN s <=> base \in DOMAIN t
      /\ reference \in DOMAIN s <=> reference \in DOMAIN t
      /\ base \in DOMAIN s => s[base].price = t[base].price
      /\ reference \in DOMAIN s => s[reference].price = t[reference].price
  <2>1. base \in PriceKeys /\ reference \in PriceKeys
    BY DEF PriceKeys
  <2> QED BY <2>1 DEF SamePrices
<1>6. PriceError(s, u) = PriceError(t, v)
  BY <1>4, <1>5 DEF PriceError
<1> PICK a \in BOOLEAN : a <=> u.price /\ base \in DOMAIN s
  OBVIOUS
<1>7. a <=> v.price /\ base \in DOMAIN t
  BY <1>4, <1>5
<1> PICK one : one = ShapeOutcome(case, s, a)
  OBVIOUS
<1> PICK two : two = ShapeOutcome(case, t, a)
  OBVIOUS
<1>8. /\ one.american_dominance <=> two.american_dominance
      /\ one.american_intrinsic_bound <=> two.american_intrinsic_bound
      /\ one.spot_monotonicity <=> two.spot_monotonicity
      /\ one.spot_convexity <=> two.spot_convexity
  BY SameShape
<1>9. one = ShapeOutcome(case, s, u.price /\ base \in DOMAIN s)
  OBVIOUS
<1>10. two = ShapeOutcome(case, t, v.price /\ base \in DOMAIN t)
  BY <1>7
<1>11. Passes(case, s, f) <=> Passes(case, t, g)
  BY <1>2, <1>6, <1>8, <1>9, <1>10 DEF Passes
<1> QED
  BY <1>11, GateIs


-----------------------------------------------------------------------------
(* One disturbance decides a regular case exactly when it touches its price. *)

Touches(disturbance) ==
    /\ disturbance.key \in PriceKeys
    /\ disturbance.kind \notin {"kinked", "biased", "wobbly"}
    /\ disturbance.kind = "no_delta" => disturbance.key = <<"candidate", "base">>

GateOf(case, disturbance) ==
    LET collected == CollectCaseSolves(case, disturbance)
    IN  Gate(case, collected.solves, collected.failures)

\* What a disturbed solve keeps when its price is left alone.
LEMMA PriceKept ==
    ASSUME NEW key, NEW solve \in SolvesOf(key), NEW kind \in {"kinked", "biased", "wobbly", "no_delta"}
    PROVE  LET spoilt == Spoilt(solve, kind)
           IN  /\ SolveProblems(spoilt) = SolveProblems(solve)
               /\ spoilt.price = solve.price /\ spoilt.residual = solve.residual
               /\ spoilt.gamma = solve.gamma
               /\ kind # "no_delta" => spoilt.delta = solve.delta
<1> PICK spoilt : spoilt = Spoilt(solve, kind)
  OBVIOUS
<1>1. /\ spoilt.status = solve.status /\ spoilt.node = solve.node
      /\ spoilt.bumpsNode = solve.bumpsNode /\ spoilt.finite = solve.finite
      /\ spoilt.planned = solve.planned /\ spoilt.price = solve.price
      /\ spoilt.residual = solve.residual /\ spoilt.gamma = solve.gamma
      /\ kind # "no_delta" => spoilt.delta = solve.delta
  BY DEF Spoilt, SolvesOf
<1>2. SolveProblems(spoilt) = SolveProblems(solve)
  BY <1>1 DEF SolveProblems
<1> QED
  BY <1>1, <1>2

LEMMA UntouchedPasses ==
    ASSUME NEW case \in Cases, case.classification = "regular",
           NEW disturbance, Possible(case, disturbance), ~Touches(disturbance)
    PROVE  GateOf(case, disturbance)
<1> DEFINE clean == Measured[case]
           base == <<"candidate", "base">>
<1> PICK collected : collected = CollectCaseSolves(case, disturbance)
  OBVIOUS
<1> PICK key : key = disturbance.key
  OBVIOUS
<1> PICK kind : kind = disturbance.kind
  OBVIOUS
<1>1. /\ DOMAIN clean = RequiredKeys(case)
      /\ \A k \in RequiredKeys(case) : clean[k] \in SolvesOf(k)
  BY MeasuredAssumption
<1>2. Gate(case, clean, <<>>)
  BY UndisturbedAssumption DEF Gate
<1>3. kind # "clean" => kind \in Kinds /\ key \in RequiredKeys(case)
  BY DisturbancesAssumption DEF Possible, Clean
<1>4. SamePrices(clean, <<>>, collected.solves, collected.failures)
  <2>1. CASE kind = "clean"
    <3>1. collected = [solves |-> clean, failures |-> <<>>]
      BY <2>1 DEF CollectCaseSolves
    <3> QED BY <3>1 DEF SamePrices
  <2>2. CASE kind = "raised"
    <3> DEFINE left == [k \in DOMAIN clean \ {key} |-> clean[k]]
               lost == [k \in {key} |-> SolveCriticality(case, key)]
    <3>1. collected = [solves |-> left, failures |-> lost]
      BY <2>2 DEF CollectCaseSolves
    <3>2. key \notin PriceKeys
      BY <2>2 DEF Touches
    <3>3. base \in PriceKeys
      BY DEF PriceKeys
    <3>4. /\ \A k \in PriceKeys : k \in DOMAIN clean <=> k \in DOMAIN left
          /\ \A k \in PriceKeys : k \notin DOMAIN lost
          /\ \A k \in DOMAIN left : left[k] = clean[k]
      BY <3>2
    <3>5. SamePrices(clean, <<>>, left, lost)
      <4> HIDE DEF left, lost, clean
      <4> QED BY <3>3, <3>4 DEF SamePrices
    <3> HIDE DEF left, lost
    <3> QED BY <3>1, <3>5
  <2>3. CASE kind \notin {"clean", "raised"}
    <3> DEFINE spoilt == [clean EXCEPT ![key] = Spoilt(clean[key], kind)]
    <3>1. collected = [solves |-> spoilt, failures |-> <<>>]
      BY <2>3 DEF CollectCaseSolves
    <3>2. key \in RequiredKeys(case) /\ kind \in Kinds
      BY <1>3, <2>3
    <3>3. key \in PriceKeys => /\ kind \in {"kinked", "biased", "wobbly", "no_delta"}
                               /\ kind = "no_delta" => key # base
      BY DEF Touches
    <3> PICK solve : solve = clean[key]
      OBVIOUS
    <3> PICK bad : bad = Spoilt(solve, kind)
      OBVIOUS
    <3>4. solve \in SolvesOf(key)
      BY <1>1, <3>2
    <3>5. key \in PriceKeys =>
            /\ SolveProblems(bad) = SolveProblems(solve)
            /\ bad.price = solve.price /\ bad.residual = solve.residual
            /\ bad.gamma = solve.gamma /\ (key = base => bad.delta = solve.delta)
      BY <3>3, <3>4, PriceKept
    <3>6. /\ DOMAIN spoilt = DOMAIN clean
          /\ \A k \in DOMAIN clean : spoilt[k] = IF k = key THEN bad ELSE clean[k]
      BY <1>1, <3>2
    <3>7. base \in PriceKeys
      BY DEF PriceKeys
    <3>8. SamePrices(clean, <<>>, spoilt, <<>>)
      <4> HIDE DEF spoilt, clean
      <4> QED BY <3>5, <3>6, <3>7 DEF SamePrices
    <3> HIDE DEF spoilt
    <3> QED BY <3>1, <3>8
  <2> QED BY <2>1, <2>2, <2>3
<1>5. Gate(case, clean, <<>>) <=> Gate(case, collected.solves, collected.failures)
  BY <1>4, GateReadsPrices
<1> QED
  BY <1>2, <1>5 DEF GateOf


\* A problem of a price-critical solve fails the gate.
LEMMA ProblemFails ==
    ASSUME NEW case, NEW s, NEW f, NEW key \in KeysOf(case, "price_critical"),
           NEW issue \in {"solver_exception", "solve_absent", "solver_status",
                          "centre_not_an_exact_node", "bumped_not_an_exact_node",
                          "identity_mismatch", "non_finite_centre_price",
                          "residual_scale_above_cap"},
           issue \in RawSolveProblems(case, s, f)[key]
    PROVE  ~Gate(case, s, f)
<1> PICK p : p = RawSolveProblems(case, s, f)
  OBVIOUS
<1>1. \A markers : issue \in markers => ~NoIssue(case, p, markers)
  BY DEF NoIssue
<1>2. ~Passes(case, s, f)
  BY <1>1 DEF Passes
<1> QED
  BY <1>2, GateIs

\* What the plan of a regular case holds of the price keys.
LEMMA RegularKeys ==
    ASSUME NEW case, case.classification = "regular", NEW key \in PriceKeys \cap RequiredKeys(case)
    PROVE  /\ key \in KeysOf(case, "price_critical")
           /\ key = <<"candidate", "control">> => case.american
<1>1. key[1] \in {"candidate", "reference"} /\ key[2] \in {"base", "control"}
  BY DEF PriceKeys
<1>2. key[2] \notin VolatilityRoles
  BY <1>1 DEF VolatilityRoles, Rungs, Down, Up
<1>3. SolveCriticality(case, key) = "price_critical"
  BY <1>1, <1>2 DEF SolveCriticality
<1>4. ASSUME key = <<"candidate", "control">> PROVE case.american
  <2>1. key \notin {<<"candidate", role>> : role \in VolatilityRoles}
    BY <1>2
  <2>2. key \notin {<<grid, "base">> : grid \in {"probe", "candidate", "reference"}}
    BY <1>4
  <2>3. key \notin {<<"reference", Down[1]>>, <<"reference", Up[1]>>}
    BY <1>4
  <2>4. key \notin (IF case.name \in AnchorCases THEN {<<"anchor", "base">>} ELSE {})
    BY <1>4
  <2>5. key \in (IF case.american THEN {<<"candidate", "control">>} ELSE {})
    BY <2>1, <2>2, <2>3, <2>4 DEF RequiredKeys
  <2> QED BY <2>5
<1> QED
  BY <1>3, <1>4 DEF KeysOf

BaseKeys == {<<"candidate", "base">>, <<"reference", "base">>}
LEMMA BasesAreRequired == ASSUME NEW case PROVE BaseKeys \subseteq RequiredKeys(case)
BY DEF BaseKeys, RequiredKeys

\* A case that passes publishes a price error within the cap, and its shape was
\* compared.
LEMMA PassingPrice ==
    ASSUME NEW case, NEW s, NEW f, Gate(case, s, f)
    PROVE  LET candidate == s[<<"candidate", "base">>]
               reference == s[<<"reference", "base">>]
               control == s[<<"candidate", "control">>]
           IN  /\ BaseKeys \subseteq DOMAIN s
               /\ Size(candidate.price - reference.price) <= PriceCap
               /\ candidate.delta # NoValue
               /\ case.american /\ <<"candidate", "control">> \in DOMAIN s =>
                    WithinShape(candidate.price - control.price,
                                candidate.residual + control.residual)
<1> PICK problems : problems = RawSolveProblems(case, s, f)
  OBVIOUS
<1> PICK support : support = Support(case, problems)
  OBVIOUS
<1>1. Passes(case, s, f)
  BY GateIs
<1>2. PriceError(s, support) # NoValue /\ PriceError(s, support) <= PriceCap
  BY <1>1 DEF Passes
<1>3. support.price /\ BaseKeys \subseteq DOMAIN s
  BY <1>2 DEF PriceError, BaseKeys
<1>4. Size(s[<<"candidate", "base">>].price - s[<<"reference", "base">>].price) <= PriceCap
  BY <1>2, <1>3 DEF PriceError, BaseKeys
<1>5. <<"candidate", "base">> \in DOMAIN s
  BY <1>3 DEF BaseKeys
<1> PICK a \in BOOLEAN : a <=> support.price /\ <<"candidate", "base">> \in DOMAIN s
  OBVIOUS
<1> PICK shape : shape = ShapeOutcome(case, s, a)
  OBVIOUS
<1>6. a
  BY <1>3, <1>5
<1>7. shape.american_dominance /\ shape.spot_monotonicity
  BY <1>1 DEF Passes
<1> QED
  BY <1>3, <1>4, <1>6, <1>7 DEF ShapeOutcome


LEMMA TouchedFails ==
    ASSUME NEW case \in Cases, case.classification = "regular",
           NEW disturbance, Possible(case, disturbance), Touches(disturbance)
    PROVE  ~GateOf(case, disturbance)
<1> DEFINE clean == Measured[case]
           candidate == <<"candidate", "base">>
           reference == <<"reference", "base">>
           control == <<"candidate", "control">>
<1> PICK collected : collected = CollectCaseSolves(case, disturbance)
  OBVIOUS
<1> PICK s : s = collected.solves
  OBVIOUS
<1> PICK f : f = collected.failures
  OBVIOUS
<1> PICK key : key = disturbance.key
  OBVIOUS
<1> PICK kind : kind = disturbance.kind
  OBVIOUS
<1> SUFFICES ~Gate(case, s, f)
  BY DEF GateOf
<1>1. /\ DOMAIN clean = RequiredKeys(case)
      /\ \A k \in RequiredKeys(case) : clean[k] \in SolvesOf(k)
  BY MeasuredAssumption
<1>2. key \in PriceKeys
  BY DEF Touches
<1>3. disturbance # Clean
  <2>1. PriceKeys \subseteq Grids \X ({"base", "control"} \cup VolatilityRoles)
    BY DEF PriceKeys, Grids
  <2>2. key # NoValue
    BY <1>2, <2>1, MeasuredAssumption
  <2> QED BY <2>2 DEF Clean
<1>4. key \in RequiredKeys(case) /\ kind \in Kinds
  BY <1>3, DisturbancesAssumption DEF Possible
<1>5. /\ key \in KeysOf(case, "price_critical")
      /\ key = control => case.american
  BY <1>2, <1>4, RegularKeys
<1>6. kind \notin {"kinked", "biased", "wobbly"} /\ (kind = "no_delta" => key = candidate)
  BY DEF Touches
<1>7. CASE kind = "raised"
  <2>1. /\ s = [k \in DOMAIN clean \ {key} |-> clean[k]]
        /\ f = [k \in {key} |-> SolveCriticality(case, key)]
    BY <1>7 DEF CollectCaseSolves
  <2>2. key \notin DOMAIN s /\ key \in DOMAIN f
    BY <2>1
  <2>3. RawSolveProblems(case, s, f)[key] = {"solver_exception"}
    BY <1>4, <2>2 DEF RawSolveProblems
  <2> QED BY <1>5, <2>3, ProblemFails
<1> PICK solve : solve = clean[key]
  OBVIOUS
<1> PICK bad : bad = Spoilt(solve, kind)
  OBVIOUS
<1>8. ASSUME kind # "raised"
      PROVE  /\ DOMAIN s = RequiredKeys(case) /\ f = <<>>
             /\ s[key] = bad
             /\ \A k \in RequiredKeys(case) \ {key} : s[k] = clean[k]
  <2>1. kind \notin {"clean", "raised"}
    BY <1>4, <1>8 DEF Kinds
  <2>2. s = [clean EXCEPT ![key] = Spoilt(clean[key], kind)] /\ f = <<>>
    BY <2>1 DEF CollectCaseSolves
  <2> QED BY <1>1, <1>4, <2>2
<1>9. solve \in SolvesOf(key)
  BY <1>1, <1>4
<1>10. ASSUME kind # "raised" PROVE RawSolveProblems(case, s, f)[key] = SolveProblems(bad)
  BY <1>4, <1>8, <1>10 DEF RawSolveProblems
<1>11. ASSUME kind \in {"residual", "foreign", "unconverged", "overflow", "off_node"}
       PROVE  ~Gate(case, s, f)
  <2> PICK issue : issue = CASE kind = "residual" -> "residual_scale_above_cap"
                             [] kind = "foreign" -> "identity_mismatch"
                             [] kind = "unconverged" -> "solver_status"
                             [] kind = "overflow" -> "non_finite_centre_price"
                             [] kind = "off_node" -> "centre_not_an_exact_node"
    OBVIOUS
  <2>1. kind = "residual" => bad.residual > PriceCap
    <3>1. PriceCap \in Nat
      BY LabelRulesAssumption
    <3>2. kind = "residual" => bad.residual = PriceCap + 1
      BY <1>9 DEF Spoilt, SolvesOf
    <3> QED BY <3>1, <3>2
  <2>2. /\ kind = "foreign" => ~bad.planned
        /\ kind = "unconverged" => bad.status # "discrete_system_converged"
        /\ kind = "overflow" => ~bad.finite
        /\ kind = "off_node" => ~bad.node
    BY <1>9 DEF Spoilt, SolvesOf
  <2>3. issue \in SolveProblems(bad)
    BY <1>11, <2>1, <2>2 DEF SolveProblems
  <2>4. issue \in RawSolveProblems(case, s, f)[key]
    BY <1>10, <1>11, <2>3
  <2>5. issue \in {"solver_exception", "solve_absent", "solver_status",
                   "centre_not_an_exact_node", "bumped_not_an_exact_node",
                   "identity_mismatch", "non_finite_centre_price", "residual_scale_above_cap"}
    BY <1>11
  <2> QED BY <1>5, <2>4, <2>5, ProblemFails
<1>12. CASE kind = "no_delta"
  <2>1. bad = [solve EXCEPT !.delta = NoValue]
    BY <1>12 DEF Spoilt
  <2>2. bad.delta = NoValue
    BY <1>9, <2>1 DEF SolvesOf
  <2>3. s[candidate].delta = NoValue
    BY <1>6, <1>8, <1>12, <2>2
  <2> QED BY <2>3, PassingPrice
<1>13. CASE kind = "shifted"
  <2> SUFFICES ASSUME Gate(case, s, f) PROVE FALSE
    OBVIOUS
  <2>1. candidate \in RequiredKeys(case) /\ reference \in RequiredKeys(case)
    BY BasesAreRequired DEF BaseKeys
  <2>2. /\ bad.price = solve.price + Shift /\ bad.residual = solve.residual
    BY <1>9, <1>13 DEF Spoilt, SolvesOf
  <2>3. Gate(case, clean, <<>>)
    BY UndisturbedAssumption DEF Gate
  <2>4. Size(clean[candidate].price - clean[reference].price) <= PriceCap
    BY <2>3, PassingPrice
  <2>5. Size(s[candidate].price - s[reference].price) <= PriceCap
    BY PassingPrice
  <2>6. PriceCap \in Nat /\ 2 * PriceCap < Shift /\ Shift = 20
    BY LabelRulesAssumption, UndisturbedAssumption DEF Shift
  <2>7. clean[candidate].price \in Int /\ clean[reference].price \in Int
    BY <1>1, <2>1 DEF SolvesOf
  <2>8. CASE key = candidate
    <3>1. s[candidate].price = clean[candidate].price + Shift
      BY <1>8, <1>13, <2>2, <2>8
    <3>2. s[reference].price = clean[reference].price
      BY <1>8, <1>13, <2>1, <2>8
    <3> QED BY <2>4, <2>5, <2>6, <2>7, <3>1, <3>2 DEF Size
  <2>9. CASE key = reference
    <3>1. s[reference].price = clean[reference].price + Shift
      BY <1>8, <1>13, <2>2, <2>9
    <3>2. s[candidate].price = clean[candidate].price
      BY <1>8, <1>13, <2>1, <2>9
    <3> QED BY <2>4, <2>5, <2>6, <2>7, <3>1, <3>2 DEF Size
  <2>10. CASE key = control
    <3>1. case.american
      BY <1>5, <2>10
    <3>2. /\ s[control].price = clean[control].price + Shift
          /\ s[control].residual = clean[control].residual
      BY <1>8, <1>13, <2>2, <2>10
    <3>3. s[candidate] = clean[candidate]
      BY <1>8, <1>13, <2>1, <2>10
    <3>4. control \in DOMAIN s
      BY <1>4, <1>8, <1>13, <2>10
    <3>5. WithinShape(s[candidate].price - s[control].price,
                      s[candidate].residual + s[control].residual)
      BY <3>1, <3>4, PassingPrice
    <3>6. ~WithinShape(clean[candidate].price - clean[control].price - Shift,
                       clean[candidate].residual + clean[control].residual)
      BY <3>1, UndisturbedAssumption
    <3>7. clean[control].price \in Int
      BY <1>1, <1>4, <2>10 DEF SolvesOf
    <3>8. s[candidate].price - s[control].price = clean[candidate].price - clean[control].price - Shift
      BY <2>6, <2>7, <3>2, <3>3, <3>7
    <3> QED BY <3>2, <3>3, <3>5, <3>6, <3>8
  <2> QED BY <1>2, <2>8, <2>9, <2>10 DEF PriceKeys
<1> QED
  BY <1>4, <1>6, <1>7, <1>11, <1>12, <1>13 DEF Kinds

LEMMA Verdict ==
    ASSUME NEW case \in Cases, case.classification = "regular",
           NEW disturbance, Possible(case, disturbance)
    PROVE  GateOf(case, disturbance) <=> ~Touches(disturbance)
BY UntouchedPasses, TouchedFails


-----------------------------------------------------------------------------
(* The report of a stage, from what happened to its cases.                  *)

Events == Disturbances \cup {Clean}

\* What a run may publish, and what an edit may make of it.
Payloads ==
    {p \in [stage : Stages, sources : Nat, done : Seq(Events), edit : Edits \cup {"none"}] :
        /\ Len(p.done) = Len(StageCases(p.stage))
        /\ \A i \in DOMAIN p.done : Possible(CaseAt(p.stage, i), p.done[i])}

RowAt(p, i) ==
    LET case == CaseAt(p.stage, i)
        collected == CollectCaseSolves(case, p.done[i])
    IN  EvaluateCase(case, collected.solves, collected.failures)

Sound(p) == \A i \in DOMAIN p.done : ~TouchesPrice(p.stage, i, p.done[i])

LEMMA PayloadShape ==
    ASSUME NEW p \in Payloads
    PROVE  /\ p.stage \in Stages
           /\ DOMAIN p.done = DOMAIN StageCases(p.stage)
           /\ DOMAIN p.done = 1..Len(p.done) /\ Len(p.done) \in Nat /\ 1 \in DOMAIN p.done
           /\ \A i \in DOMAIN p.done : /\ CaseAt(p.stage, i) \in Cases
                                       /\ Possible(CaseAt(p.stage, i), p.done[i])
                                       /\ CaseAt(p.stage, i).name = StageCases(p.stage)[i]
<1>1. p.stage \in Stages /\ p.done \in Seq(Events) /\ Len(p.done) = Len(StageCases(p.stage))
      /\ \A i \in DOMAIN p.done : Possible(CaseAt(p.stage, i), p.done[i])
  BY DEF Payloads
<1> PICK names : names = StageCases(p.stage)
  OBVIOUS
<1>2. names \in Seq({case.name : case \in Cases}) /\ names # <<>>
  BY <1>1, LabelReportAssumption
<1>3. DOMAIN names = 1..Len(names) /\ DOMAIN p.done = 1..Len(p.done)
      /\ Len(p.done) \in Nat /\ Len(names) # 0
  BY <1>1, <1>2
<1>4. \A i \in DOMAIN p.done : CaseAt(p.stage, i) \in Cases
                               /\ CaseAt(p.stage, i).name = StageCases(p.stage)[i]
  BY <1>1, <1>3, StageNamesCases
<1> QED
  BY <1>1, <1>3, <1>4

LEMMA GenuineRows ==
    ASSUME NEW p \in Payloads
    PROVE  /\ DOMAIN Genuine(p).rows = DOMAIN p.done
           /\ \A i \in DOMAIN p.done : Genuine(p).rows[i] = RowAt(p, i)
<1>1. Genuine(p).rows = Collected(p.stage, p.done)
  BY DEF Genuine, BuildReport
<1> QED
  BY <1>1 DEF Collected, RowAt, CaseAt

LEMMA RowFields ==
    ASSUME NEW p \in Payloads, NEW i \in DOMAIN p.done
    PROVE  LET row == RowAt(p, i)
               case == CaseAt(p.stage, i)
           IN  /\ row.name = case.name
               /\ row.gating <=> case.classification = "regular"
               /\ row.passes <=> GateOf(case, p.done[i])
               /\ row.passes <=> Gate(case, row.solves, row.failures)
               /\ row = EvaluateCase(case, row.solves, row.failures)
               /\ Collection(case, row.solves, row.failures)
               /\ CaseNamed(row.name) = case
<1> PICK case : case = CaseAt(p.stage, i)
  OBVIOUS
<1> PICK collected : collected = CollectCaseSolves(case, p.done[i])
  OBVIOUS
<1> PICK row : row = EvaluateCase(case, collected.solves, collected.failures)
  OBVIOUS
<1>1. row = RowAt(p, i)
  BY DEF RowAt
<1>2. /\ row.name = case.name /\ (row.gating <=> case.classification = "regular")
      /\ row.solves = collected.solves /\ row.failures = collected.failures
  BY DEF EvaluateCase
<1>3. /\ row.passes <=> GateOf(case, p.done[i])
      /\ row.passes <=> Gate(case, row.solves, row.failures)
  BY <1>2 DEF GateOf, Gate
<1>4. Collection(case, row.solves, row.failures)
  <2>1. case \in Cases /\ Possible(case, p.done[i])
    BY PayloadShape
  <2> QED BY <1>2, <2>1, Collecting
<1>5. CaseNamed(row.name) = case
  BY <1>2, PayloadShape DEF CaseAt
<1> QED
  BY <1>1, <1>2, <1>3, <1>4, <1>5

\* All regular cases of a stage pass exactly when nothing touched their prices.
LEMMA AllPass ==
    ASSUME NEW p \in Payloads
    PROVE  Genuine(p).outcome.all_pass <=> Sound(p)
<1> PICK rows : rows = Genuine(p).rows
  OBVIOUS
<1>1. /\ DOMAIN rows = DOMAIN p.done
      /\ \A i \in DOMAIN p.done : rows[i] = RowAt(p, i)
  BY GenuineRows
<1>2. Genuine(p).outcome.all_pass <=> Names({row \in Gating(rows) : ~row.passes}) = {}
  <2>1. Genuine(p).outcome = StageOutcome(rows)
    BY DEF Genuine, BuildReport
  <2> PICK failures : failures = Names({row \in Gating(rows) : ~row.passes})
    OBVIOUS
  <2>2. StageOutcome(rows).all_pass = (failures = {})
    BY DEF StageOutcome
  <2> QED BY <2>1, <2>2
<1>3. Names({row \in Gating(rows) : ~row.passes}) = {}
        <=> \A i \in DOMAIN p.done : rows[i].gating => rows[i].passes
  BY <1>1 DEF Names, Gating, Range
<1>4. ASSUME NEW i \in DOMAIN p.done
      PROVE  (rows[i].gating => rows[i].passes) <=> ~TouchesPrice(p.stage, i, p.done[i])
  <2> PICK case : case = CaseAt(p.stage, i)
    OBVIOUS
  <2>1. /\ rows[i].gating <=> case.classification = "regular"
        /\ rows[i].passes <=> GateOf(case, p.done[i])
    BY <1>1, RowFields
  <2>2. case \in Cases /\ Possible(case, p.done[i])
    BY PayloadShape
  <2>3. case.classification = "regular" => (GateOf(case, p.done[i]) <=> ~Touches(p.done[i]))
    BY <2>2, Verdict
  <2>4. TouchesPrice(p.stage, i, p.done[i])
          <=> case.classification = "regular" /\ Touches(p.done[i])
    BY DEF TouchesPrice, Touches, CaseAt
  <2> QED BY <2>1, <2>3, <2>4
<1> QED
  BY <1>2, <1>3, <1>4 DEF Sound


LEMMA LifecycleOf ==
    ASSUME NEW p \in Payloads
    PROVE  LET lifecycle == Genuine(p).lifecycle
           IN  /\ lifecycle.stage = p.stage
               /\ lifecycle.selected = "candidate" <=> p.stage = "confirmation" /\ Sound(p)
               /\ lifecycle.confirmation = "pending" <=> p.stage = "remediation" /\ Sound(p)
               /\ lifecycle.terminal <=> p.stage = "confirmation" \/ ~Sound(p)
<1> PICK pass \in BOOLEAN : pass <=> Sound(p)
  OBVIOUS
<1>1. Genuine(p).outcome.all_pass \in BOOLEAN
  BY DEF Genuine, BuildReport, StageOutcome
<1>2. Genuine(p).outcome.all_pass = pass
  BY <1>1, AllPass
<1>3. Genuine(p).lifecycle = LifecycleBlock(p.stage, pass)
  <2>1. Genuine(p).lifecycle = LifecycleBlock(p.stage, Genuine(p).outcome.all_pass)
    BY DEF Genuine, BuildReport
  <2> QED BY <1>2, <2>1
<1>4. p.stage \in {"remediation", "confirmation"}
  BY PayloadShape DEF Stages
<1>5. NoValue # "candidate"
  BY MeasuredAssumption DEF Policies
<1> PICK lifecycle : lifecycle = LifecycleBlock(p.stage, pass)
  OBVIOUS
<1>6. CASE p.stage = "confirmation"
  <2>1. /\ lifecycle.stage = p.stage /\ lifecycle.confirmation = "run"
        /\ lifecycle.selected = IF pass THEN "candidate" ELSE "no_policy_selected"
    BY <1>6 DEF LifecycleBlock
  <2>2. lifecycle.terminal
    BY <1>6 DEF LifecycleBlock
  <2> QED BY <1>3, <1>6, <2>1, <2>2
<1>7. CASE p.stage = "remediation"
  <2>1. /\ lifecycle.stage = p.stage
        /\ lifecycle.confirmation = IF pass THEN "pending" ELSE "not_run"
        /\ lifecycle.selected = IF pass THEN NoValue ELSE "no_policy_selected"
    BY <1>7 DEF LifecycleBlock
  <2>2. lifecycle.terminal <=> ~pass
    BY <1>7 DEF LifecycleBlock
  <2> QED BY <1>3, <1>5, <1>7, <2>1, <2>2
<1> QED
  BY <1>4, <1>6, <1>7

-----------------------------------------------------------------------------
(* The charge of a bump covers the movement of the ladder.                  *)

LEMMA Bounded ==
    ASSUME NEW bottom \in Nat \ {0}, NEW top \in Nat, bottom <= top,
           NEW error \in Nat, NEW small \in Nat, NEW charged \in Nat, small <= charged,
           NEW cap \in Nat, bottom * error + top * charged <= bottom * cap
    PROVE  error + small <= cap
<1>1. top * small <= top * charged
  OBVIOUS
<1>2. bottom * small <= top * small
  OBVIOUS
<1>3. bottom * (error + small) <= bottom * cap
  <2>1. bottom * (error + small) = bottom * error + bottom * small
    OBVIOUS
  <2>2. bottom * small <= top * charged
    BY <1>1, <1>2
  <2>3. bottom * error \in Nat /\ bottom * small \in Nat /\ top * charged \in Nat
        /\ bottom * cap \in Nat
    OBVIOUS
  <2> PICK a \in Nat : a = bottom * error
    BY <2>3
  <2> PICK b \in Nat : b = bottom * small
    BY <2>3
  <2> PICK c \in Nat : c = top * charged
    BY <2>3
  <2> PICK d \in Nat : d = bottom * cap
    BY <2>3
  <2>4. a + b <= d
    BY <2>2
  <2> QED BY <2>1, <2>4
<1>4. ASSUME cap < error + small PROVE FALSE
  <2>1. cap + 1 <= error + small
    BY <1>4
  <2>2. bottom * (cap + 1) <= bottom * (error + small)
    BY <2>1
  <2>3. bottom * (cap + 1) = bottom * cap + bottom
    OBVIOUS
  <2> PICK d \in Nat : d = bottom * cap
    OBVIOUS
  <2> PICK e \in Nat : e = bottom * (error + small)
    OBVIOUS
  <2>4. e <= d /\ d + bottom <= e
    BY <1>3, <2>2, <2>3
  <2> QED BY <2>4
<1> QED
  BY <1>4

\* A validation that passes keeps the difference from the reference, and the
\* movement of the first step of the ladder on top of it, within its cap.
LEMMA PassingValidation ==
    ASSUME NEW h \in Int, NEW h2 \in Int, NEW h4 \in Int, NEW reference \in Int,
           NEW epsilonSmall \in Nat, NEW epsilonLarge \in Nat, NEW cap \in Nat,
           FixedBumpValidation(h, h2, h4, reference, epsilonSmall, epsilonLarge, cap).passes
    PROVE  Size(h - reference) + Size(h - h2) <= cap
<1> PICK small : small = Size(h - h2)
  OBVIOUS
<1> PICK error : error = Size(h - reference)
  OBVIOUS
<1> PICK flat \in BOOLEAN : flat <=> small <= epsilonSmall /\ Size(h2 - h4) <= epsilonLarge
  OBVIOUS
<1> PICK charged : charged = IF flat THEN epsilonSmall ELSE small
  OBVIOUS
<1>1. small \in Nat /\ error \in Nat
  BY DEF Size
<1>2. charged \in Nat /\ small <= charged
  BY <1>1
<1>3. ChargeBottom \in Nat \ {0} /\ ChargeTop \in Nat /\ ChargeBottom <= ChargeTop
  BY LabelRulesAssumption
<1>4. ChargeBottom * error + ChargeTop * charged <= ChargeBottom * cap
  BY DEF FixedBumpValidation, FixedBumpCharge
<1>5. error + small <= cap
  BY <1>1, <1>2, <1>3, <1>4, Bounded
<1> QED
  BY <1>5

LEMMA DeltaCovered ==
    ASSUME NEW case, NEW s, NEW f, Collection(case, s, f),
           AllHold(EvaluateCase(case, s, f).delta)
    PROVE  LET candidate == s[<<"candidate", "base">>]
               reference == s[<<"reference", "base">>]
           IN  Size(BumpDelta(candidate, 1) - BumpDelta(reference, 1))
               + Size(BumpDelta(candidate, 1) - BumpDelta(candidate, 2)) <= 8 * DeltaCap
<1> DEFINE base == <<"candidate", "base">>
           other == <<"reference", "base">>
<1> PICK support : support = Support(case, RawSolveProblems(case, s, f))
  OBVIOUS
<1> PICK fixed : fixed = FixedBumpDelta(s, support.price)
  OBVIOUS
<1> PICK stencil : stencil = GridStencil(s, support.delta)
  OBVIOUS
<1>1. fixed.passes
  <2> PICK delta : delta = DeltaEligibility(s, support, fixed, stencil)
    OBVIOUS
  <2>1. EvaluateCase(case, s, f).delta = delta
    BY DEF EvaluateCase
  <2>2. "fixed_bump" \in DOMAIN delta /\ (delta.fixed_bump <=> fixed.passes)
    BY DEF DeltaEligibility
  <2>3. delta["fixed_bump"]
    BY <2>1, <2>2 DEF AllHold
  <2> QED BY <2>2, <2>3
<1>2. {base, other} \subseteq DOMAIN s
  BY <1>1 DEF FixedBumpDelta, Unavailable
<1> PICK candidate : candidate = s[base]
  OBVIOUS
<1> PICK reference : reference = s[other]
  OBVIOUS
<1>3. candidate \in SolvesOf(base) /\ reference \in SolvesOf(other)
  BY <1>2 DEF Collection
<1>4. BumpedKeys(base) = Rungs \X {"down", "up"} /\ BumpedKeys(other) = Rungs \X {"down", "up"}
  BY DEF BumpedKeys
<1>5. /\ candidate.bumped \in [Rungs \X {"down", "up"} -> Int]
      /\ reference.bumped \in [Rungs \X {"down", "up"} -> Int]
      /\ candidate.residual \in Nat
  BY <1>3, <1>4 DEF SolvesOf
<1>6. \A rung \in Rungs : BumpDelta(candidate, rung) \in Int /\ BumpDelta(reference, rung) \in Int
  BY <1>5 DEF BumpDelta, Centred, Rungs
<1>7. fixed = FixedBumpValidation(BumpDelta(candidate, 1), BumpDelta(candidate, 2),
                                  BumpDelta(candidate, 4), BumpDelta(reference, 1),
                                  12 * candidate.residual, 6 * candidate.residual, 8 * DeltaCap)
  BY <1>1, <1>2 DEF FixedBumpDelta, Unavailable
<1> PICK h : h = BumpDelta(candidate, 1)
  OBVIOUS
<1> PICK h2 : h2 = BumpDelta(candidate, 2)
  OBVIOUS
<1> PICK h4 : h4 = BumpDelta(candidate, 4)
  OBVIOUS
<1> PICK r : r = BumpDelta(reference, 1)
  OBVIOUS
<1>8. h \in Int /\ h2 \in Int /\ h4 \in Int /\ r \in Int
  BY <1>6 DEF Rungs
<1>9. 12 * candidate.residual \in Nat /\ 6 * candidate.residual \in Nat /\ 8 * DeltaCap \in Nat
  BY <1>5, LabelRulesAssumption
<1>10. Size(h - r) + Size(h - h2) <= 8 * DeltaCap
  <2>1. FixedBumpValidation(h, h2, h4, r, 12 * candidate.residual, 6 * candidate.residual,
                            8 * DeltaCap).passes
    BY <1>1, <1>7
  <2> QED BY <1>8, <1>9, <2>1, PassingValidation
<1> QED
  BY <1>10


-----------------------------------------------------------------------------
(* An edited report does not survive its recomputation.                     *)

Fields == {"study", "sources", "rows", "outcome", "accounting", "lifecycle"}

LEMMA GenuineFields ==
    ASSUME NEW p \in Payloads
    PROVE  /\ DOMAIN Genuine(p) = Fields
           /\ Genuine(p).sources = p.sources
           /\ Genuine(p).study.stage = p.stage
           /\ Genuine(p) = BuildReport(p.stage, p.sources, Genuine(p).rows)
<1> PICK rows : rows = Collected(p.stage, p.done)
  OBVIOUS
<1>1. Genuine(p) = BuildReport(p.stage, p.sources, rows)
  BY DEF Genuine
<1>2. BuildReport(p.stage, p.sources, rows).rows = rows
  BY DEF BuildReport
<1>3. /\ DOMAIN BuildReport(p.stage, p.sources, rows) = Fields
      /\ BuildReport(p.stage, p.sources, rows).sources = p.sources
      /\ BuildReport(p.stage, p.sources, rows).study.stage = p.stage
  BY DEF BuildReport, Fields
<1> QED
  BY <1>1, <1>2, <1>3

\* A report that holds the raw records of what happened.
SameRaw(report, p) ==
    /\ report = [field \in DOMAIN report |-> report[field]]
    /\ report.sources = p.sources
    /\ report.study.stage = p.stage
    /\ DOMAIN report.rows = DOMAIN p.done
    /\ \A i \in DOMAIN p.done : /\ report.rows[i].name = RowAt(p, i).name
                                /\ report.rows[i].solves = RowAt(p, i).solves
                                /\ report.rows[i].failures = RowAt(p, i).failures

LEMMA RecomputedSame ==
    ASSUME NEW p \in Payloads, NEW report, SameRaw(report, p), report.lifecycle.stage = p.stage
    PROVE  Recompute(report) = Genuine(p)
<1>1. \A i \in DOMAIN p.done :
        EvaluateCase(CaseNamed(report.rows[i].name), report.rows[i].solves,
                     report.rows[i].failures) = RowAt(p, i)
  <2> SUFFICES ASSUME NEW i \in DOMAIN p.done
               PROVE  EvaluateCase(CaseNamed(report.rows[i].name), report.rows[i].solves,
                                   report.rows[i].failures) = RowAt(p, i)
    OBVIOUS
  <2>1. /\ report.rows[i].name = RowAt(p, i).name
        /\ report.rows[i].solves = RowAt(p, i).solves
        /\ report.rows[i].failures = RowAt(p, i).failures
    BY DEF SameRaw
  <2>2. /\ RowAt(p, i) = EvaluateCase(CaseAt(p.stage, i), RowAt(p, i).solves, RowAt(p, i).failures)
        /\ CaseNamed(RowAt(p, i).name) = CaseAt(p.stage, i)
    BY RowFields
  <2> QED BY <2>1, <2>2
<1>2. RecomputedRows(report) = [i \in DOMAIN p.done |-> RowAt(p, i)]
  <2>1. DOMAIN report.rows = DOMAIN p.done
    BY DEF SameRaw
  <2> QED BY <1>1, <2>1 DEF RecomputedRows
<1>3. Collected(p.stage, p.done) = [i \in DOMAIN p.done |-> RowAt(p, i)]
  BY DEF Collected, RowAt, CaseAt
<1>4. report.sources = p.sources
  BY DEF SameRaw
<1> QED
  BY <1>2, <1>3, <1>4 DEF Recompute, Genuine

LEMMA VerifiedIsGenuine ==
    ASSUME NEW p \in Payloads, NEW report, SameRaw(report, p),
           NEW present, VerifiedReport(report, present)
    PROVE  report = Genuine(p) /\ p.sources = present
<1>1. report.lifecycle.stage = p.stage /\ report.sources = present
  BY DEF VerifiedReport, SameRaw
<1>2. Recompute(report) = Genuine(p)
  BY <1>1, RecomputedSame
<1>3. /\ DOMAIN report = Fields
      /\ report.study = Genuine(p).study /\ report.rows = Genuine(p).rows
      /\ report.outcome = Genuine(p).outcome /\ report.accounting = Genuine(p).accounting
      /\ report.lifecycle = Genuine(p).lifecycle
  BY <1>2 DEF VerifiedReport, AgreesWith, ReportSchema, Fields
<1>4. report.sources = Genuine(p).sources /\ p.sources = present
  BY <1>1, GenuineFields DEF SameRaw
<1>5. report = [x \in Fields |-> report[x]]
  BY <1>3 DEF SameRaw
<1> PICK genuine : genuine = Genuine(p)
  OBVIOUS
<1>6. genuine = [x \in Fields |-> genuine[x]]
  <2>1. \A rows : BuildReport(p.stage, p.sources, rows) = [x \in Fields |-> BuildReport(p.stage, p.sources, rows)[x]]
    BY DEF BuildReport, Fields
  <2> QED BY <2>1, GenuineFields
<1>7. \A x \in Fields : report[x] = genuine[x]
  BY <1>3, <1>4 DEF Fields
<1>8. report = genuine
  BY <1>5, <1>6, <1>7
<1> QED
  BY <1>4, <1>8


Raw(row) == <<row.name, row.solves, row.failures>>
OnFirst(p, row) == [Genuine(p) EXCEPT !.rows[1] = row]

LEMMA RowDomain ==
    ASSUME NEW case, NEW s, NEW f
    PROVE  LET row == EvaluateCase(case, s, f)
           IN  /\ row = [field \in DOMAIN row |-> row[field]]
               /\ {"name", "solves", "failures", "problems"} \subseteq DOMAIN row
               /\ row.name = case.name /\ row.solves = s /\ row.failures = f
               /\ row.problems = RawSolveProblems(case, s, f)
BY DEF EvaluateCase

\* Another first row with the same raw records.
LEMMA FirstRowChanged ==
    ASSUME NEW p \in Payloads, NEW row, Raw(row) = Raw(RowAt(p, 1))
    PROVE  SameRaw(OnFirst(p, row), p)
<1> PICK genuine : genuine = Genuine(p)
  OBVIOUS
<1> PICK rows : rows = Genuine(p).rows
  OBVIOUS
<1> PICK changed : changed = [rows EXCEPT ![1] = row]
  OBVIOUS
<1> PICK report : report = [Genuine(p) EXCEPT !.rows[1] = row]
  OBVIOUS
<1>1. /\ DOMAIN genuine = Fields /\ genuine.sources = p.sources
      /\ genuine.study.stage = p.stage
  BY GenuineFields
<1>2. report = [genuine EXCEPT !.rows = changed]
  OBVIOUS
<1>3. /\ DOMAIN report = Fields /\ report = [field \in DOMAIN report |-> report[field]]
      /\ report.sources = p.sources /\ report.study.stage = p.stage /\ report.rows = changed
  BY <1>1, <1>2 DEF Fields
<1>4. DOMAIN rows = DOMAIN p.done /\ \A i \in DOMAIN p.done : rows[i] = RowAt(p, i)
  BY GenuineRows
<1>5. DOMAIN changed = DOMAIN p.done
      /\ \A i \in DOMAIN p.done : changed[i] = IF i = 1 THEN row ELSE RowAt(p, i)
  BY <1>4
<1>6. row.name = RowAt(p, 1).name /\ row.solves = RowAt(p, 1).solves
      /\ row.failures = RowAt(p, 1).failures
  BY DEF Raw
<1> QED
  BY <1>3, <1>5, <1>6 DEF SameRaw, OnFirst

LEMMA FirstRow ==
    ASSUME NEW p \in Payloads
    PROVE  LET first == Genuine(p).rows[1]
           IN  /\ first = RowAt(p, 1)
               /\ first = [field \in DOMAIN first |-> first[field]]
               /\ {"name", "solves", "failures", "problems"} \subseteq DOMAIN first
<1>1. 1 \in DOMAIN p.done
  BY PayloadShape
<1>2. Genuine(p).rows[1] = RowAt(p, 1)
  BY <1>1, GenuineRows
<1>3. RowAt(p, 1) = EvaluateCase(CaseAt(p.stage, 1), RowAt(p, 1).solves, RowAt(p, 1).failures)
  BY <1>1, RowFields
<1> QED
  BY <1>2, <1>3, RowDomain

\* An edit of anything but the raw records leaves them alone.
LEMMA EditKeepsRaw ==
    ASSUME NEW p \in Payloads, NEW edit \in (Edits \cup {"none"}) \ {"drop_failure", "relabel"}
    PROVE  SameRaw(Edited(Genuine(p), edit), p)
<1> PICK genuine : genuine = Genuine(p)
  OBVIOUS
<1> PICK first : first = genuine.rows[1]
  OBVIOUS
<1>1. /\ first = RowAt(p, 1) /\ {"name", "solves", "failures", "problems"} \subseteq DOMAIN first
  BY FirstRow
<1>2. /\ DOMAIN genuine = Fields /\ genuine.sources = p.sources
      /\ genuine.study.stage = p.stage
      /\ DOMAIN genuine.rows = DOMAIN p.done
      /\ \A i \in DOMAIN p.done : genuine.rows[i] = RowAt(p, i)
      /\ genuine = [field \in DOMAIN genuine |-> genuine[field]]
  <2>1. \A rows : BuildReport(p.stage, p.sources, rows)
                  = [x \in DOMAIN BuildReport(p.stage, p.sources, rows) |-> BuildReport(p.stage, p.sources, rows)[x]]
    BY DEF BuildReport
  <2> QED BY <2>1, GenuineFields, GenuineRows
<1>3. CASE edit = "none"
  <2>1. Edited(genuine, edit) = genuine
    BY <1>3 DEF Edited
  <2> QED BY <1>2, <2>1 DEF SameRaw
<1>4. CASE edit = "flip_pass"
  <2> PICK row : row = [first EXCEPT !.passes = ~@]
    OBVIOUS
  <2>1. Edited(genuine, edit) = OnFirst(p, row)
    BY <1>4 DEF Edited, OnFirst
  <2>2. Raw(row) = Raw(first)
    BY <1>1 DEF Raw
  <2> QED BY <1>1, <2>1, <2>2, FirstRowChanged
<1>5. CASE edit = "forget_problem"
  <2> PICK row : row = [first EXCEPT !.problems = [key \in DOMAIN @ |-> {}]]
    OBVIOUS
  <2>1. Edited(genuine, edit) = OnFirst(p, row)
    BY <1>5 DEF Edited, OnFirst
  <2>2. Raw(row) = Raw(first)
    BY <1>1 DEF Raw
  <2> QED BY <1>1, <2>1, <2>2, FirstRowChanged
<1>6. CASE edit = "eligible"
  <2> PICK row : row = [first EXCEPT !.delta = [p1 \in DOMAIN @ |-> TRUE]]
    OBVIOUS
  <2>1. Edited(genuine, edit) = OnFirst(p, row)
    BY <1>6 DEF Edited, OnFirst
  <2>2. Raw(row) = Raw(first)
    BY <1>1 DEF Raw
  <2> QED BY <1>1, <2>1, <2>2, FirstRowChanged
<1>7. CASE edit = "all_pass"
  <2> PICK report : report = Edited(genuine, edit)
    OBVIOUS
  <2> PICK outcome : outcome = [genuine.outcome EXCEPT !.failures = {}]
    OBVIOUS
  <2> PICK second : second = [outcome EXCEPT !.all_pass = TRUE]
    OBVIOUS
  <2>1. report = [[genuine EXCEPT !.outcome = outcome] EXCEPT !.outcome.all_pass = TRUE]
    BY <1>7 DEF Edited
  <2>2. /\ DOMAIN report = Fields /\ report = [field \in DOMAIN report |-> report[field]]
        /\ report.sources = genuine.sources /\ report.study = genuine.study
        /\ report.rows = genuine.rows
    BY <1>2, <2>1, ZenonT(40) DEF Fields
  <2> QED BY <1>2, <2>2 DEF SameRaw
<1>8. CASE edit = "pending"
  <2> PICK report : report = Edited(genuine, edit)
    OBVIOUS
  <2> PICK block : block = LifecycleBlock("remediation", TRUE)
    OBVIOUS
  <2>1. report = [genuine EXCEPT !.lifecycle = block]
    BY <1>8 DEF Edited
  <2>2. /\ DOMAIN report = Fields /\ report = [field \in DOMAIN report |-> report[field]]
        /\ report.sources = genuine.sources /\ report.study = genuine.study
        /\ report.rows = genuine.rows
    BY <1>2, <2>1 DEF Fields
  <2> QED BY <1>2, <2>2 DEF SameRaw
<1>9. CASE edit = "recount"
  <2> PICK report : report = Edited(genuine, edit)
    OBVIOUS
  <2>1. report = [genuine EXCEPT !.accounting.exceptions = 0]
    BY <1>9 DEF Edited
  <2>2. /\ DOMAIN report = Fields /\ report = [field \in DOMAIN report |-> report[field]]
        /\ report.sources = genuine.sources /\ report.study = genuine.study
        /\ report.rows = genuine.rows
    BY <1>2, <2>1 DEF Fields
  <2> QED BY <1>2, <2>2 DEF SameRaw
<1> QED
  BY <1>3, <1>4, <1>5, <1>6, <1>7, <1>8, <1>9 DEF Edits


LEMMA FirstRowReplaced ==
    ASSUME NEW p \in Payloads, NEW row
    PROVE  /\ row \in Range(OnFirst(p, row).rows)
           /\ OnFirst(p, row).rows[1] = row
<1> PICK genuine : genuine = Genuine(p)
  OBVIOUS
<1> PICK rows : rows = genuine.rows
  OBVIOUS
<1>1. "rows" \in DOMAIN genuine /\ 1 \in DOMAIN rows
  BY GenuineFields, GenuineRows, PayloadShape DEF Fields
<1>2. OnFirst(p, row) = [genuine EXCEPT !.rows = [rows EXCEPT ![1] = row]]
  BY DEF OnFirst
<1>3. OnFirst(p, row).rows = [rows EXCEPT ![1] = row]
  BY <1>1, <1>2
<1> QED
  BY <1>1, <1>3 DEF Range

\* A failure that is dropped leaves a solve that is absent without a reason.
LEMMA DropIsSeen ==
    ASSUME NEW p \in Payloads, NEW present,
           VerifiedReport(Edited(Genuine(p), "drop_failure"), present)
    PROVE  SameRaw(Edited(Genuine(p), "drop_failure"), p)
<1> PICK case : case = CaseAt(p.stage, 1)
  OBVIOUS
<1> PICK first : first = Genuine(p).rows[1]
  OBVIOUS
<1> PICK row : row = [first EXCEPT !.failures = <<>>]
  OBVIOUS
<1>1. Edited(Genuine(p), "drop_failure") = OnFirst(p, row)
  BY DEF Edited, OnFirst
<1>2. first = RowAt(p, 1) /\ {"name", "solves", "failures", "problems"} \subseteq DOMAIN first
  BY FirstRow
<1>3. /\ Collection(case, first.solves, first.failures) /\ CaseNamed(first.name) = case
      /\ first = EvaluateCase(case, first.solves, first.failures)
  BY <1>2, PayloadShape, RowFields
<1>4. /\ row.name = first.name /\ row.solves = first.solves
      /\ row.failures = <<>> /\ row.problems = first.problems
  BY <1>2
<1>5. DOMAIN first.failures = {}
  <2> SUFFICES ASSUME NEW key \in DOMAIN first.failures PROVE FALSE
    OBVIOUS
  <2>1. key \in RequiredKeys(case) /\ key \notin DOMAIN first.solves
    BY <1>3 DEF Collection
  <2>2. first.problems = RawSolveProblems(case, first.solves, first.failures)
    BY <1>3, RowDomain
  <2>3. first.problems[key] = {"solver_exception"}
    BY <2>1, <2>2 DEF RawSolveProblems
  <2>4. row.problems = RawSolveProblems(CaseNamed(row.name), row.solves, row.failures)
    <3>1. ContextHolds(OnFirst(p, row))
      BY <1>1 DEF VerifiedReport
    <3> QED BY <3>1, FirstRowReplaced DEF ContextHolds
  <2>5. row.problems = RawSolveProblems(case, first.solves, <<>>)
    BY <1>3, <1>4, <2>4
  <2>6. row.problems[key] = {"solve_absent"}
    BY <2>1, <2>5 DEF RawSolveProblems
  <2> QED BY <1>4, <2>3, <2>6
<1>6. first.failures = <<>>
  BY <1>3, <1>5 DEF Collection
<1>7. Raw(row) = Raw(RowAt(p, 1))
  BY <1>2, <1>4, <1>6 DEF Raw
<1>8. SameRaw(OnFirst(p, row), p)
  BY <1>7, FirstRowChanged
<1> QED
  BY <1>1, <1>8

\* The criticality of a failure follows from its key.
LEMMA RelabelIsSeen ==
    ASSUME NEW p \in Payloads, NEW present,
           VerifiedReport(Edited(Genuine(p), "relabel"), present)
    PROVE  SameRaw(Edited(Genuine(p), "relabel"), p)
<1> PICK case : case = CaseAt(p.stage, 1)
  OBVIOUS
<1> PICK first : first = Genuine(p).rows[1]
  OBVIOUS
<1> PICK failures : failures = [key \in DOMAIN first.failures |-> "delta_only"]
  OBVIOUS
<1> PICK row : row = [first EXCEPT !.failures = failures]
  OBVIOUS
<1>1. Edited(Genuine(p), "relabel") = OnFirst(p, row)
  BY DEF Edited, OnFirst
<1>2. first = RowAt(p, 1) /\ {"name", "solves", "failures", "problems"} \subseteq DOMAIN first
  BY FirstRow
<1>3. Collection(case, first.solves, first.failures) /\ CaseNamed(first.name) = case
  BY <1>2, PayloadShape, RowFields
<1>4. row.name = first.name /\ row.solves = first.solves /\ row.failures = failures
  BY <1>2
<1>5. RebuildableRow(row, CaseNamed(row.name))
  <2>1. \A r \in Range(OnFirst(p, row).rows) : RebuildableRow(r, CaseNamed(r.name))
    BY <1>1 DEF VerifiedReport
  <2> QED BY <2>1, FirstRowReplaced
<1>6. \A key \in DOMAIN failures : failures[key] = SolveCriticality(case, key)
  BY <1>3, <1>4, <1>5 DEF RebuildableRow
<1>7. failures = first.failures
  <2>1. DOMAIN failures = DOMAIN first.failures
    OBVIOUS
  <2>2. first.failures = [key \in DOMAIN first.failures |-> SolveCriticality(case, key)]
    BY <1>3 DEF Collection
  <2> QED BY <1>6, <2>1, <2>2
<1>8. Raw(row) = Raw(RowAt(p, 1))
  BY <1>2, <1>4, <1>7 DEF Raw
<1>9. SameRaw(OnFirst(p, row), p)
  BY <1>8, FirstRowChanged
<1> QED
  BY <1>1, <1>9

\* Only what nobody touched verifies, and only against the sources it names.
LEMMA OnlyGenuine ==
    ASSUME NEW p \in Payloads, p.edit = "none" \/ Content(p) # Genuine(p),
           NEW present, VerifiedReport(Content(p), present)
    PROVE  p.edit = "none" /\ p.sources = present
<1>1. p.edit \in Edits \cup {"none"}
  BY DEF Payloads
<1>2. SameRaw(Edited(Genuine(p), p.edit), p)
  BY <1>1, EditKeepsRaw, DropIsSeen, RelabelIsSeen DEF Content
<1>3. Content(p) = Genuine(p) /\ p.sources = present
  BY <1>2, VerifiedIsGenuine DEF Content
<1> QED
  BY <1>3


-----------------------------------------------------------------------------
(* What a stage publishes is accepted: the accounting.                      *)

AllKeys == Grids \X ({"base", "control"} \cup VolatilityRoles)

LEMMA FewAreFinite == ASSUME NEW a, NEW b, NEW c, NEW d PROVE IsFiniteSet({a, b, c, d})
<1>1. IsFiniteSet({a}) /\ IsFiniteSet({b}) /\ IsFiniteSet({c}) /\ IsFiniteSet({d})
  BY FS_Singleton
<1>2. IsFiniteSet({a} \cup {b}) /\ IsFiniteSet({c} \cup {d})
  BY <1>1, FS_Union
<1>3. IsFiniteSet(({a} \cup {b}) \cup ({c} \cup {d}))
  BY <1>2, FS_Union
<1>4. ({a} \cup {b}) \cup ({c} \cup {d}) = {a, b, c, d}
  OBVIOUS
<1> QED
  BY <1>3, <1>4

LEMMA KeysAreFinite == IsFiniteSet(AllKeys)
<1>1. IsFiniteSet(Grids)
  BY FewAreFinite DEF Grids
<1>2. VolatilityRoles = {Down[1], Down[2], Down[4], Down[4]} \cup {Up[1], Up[2], Up[4], Up[4]}
  BY DEF VolatilityRoles, Rungs
<1>3. IsFiniteSet({Down[1], Down[2], Down[4], Down[4]}) /\ IsFiniteSet({Up[1], Up[2], Up[4], Up[4]})
  BY FewAreFinite
<1>4. IsFiniteSet(VolatilityRoles)
  BY <1>2, <1>3, FS_Union
<1>5. {"base", "control"} = {"base", "base", "control", "control"}
  OBVIOUS
<1>6. IsFiniteSet({"base", "control"})
  BY <1>5, FewAreFinite
<1>7. IsFiniteSet({"base", "control"} \cup VolatilityRoles)
  BY <1>4, <1>6, FS_Union
<1> QED
  BY <1>1, <1>7, FS_Product DEF AllKeys

LEMMA PlanInKeys == ASSUME NEW case PROVE RequiredKeys(case) \subseteq AllKeys
<1> SUFFICES ASSUME NEW key \in RequiredKeys(case) PROVE key \in AllKeys
  OBVIOUS
<1>1. Down[1] \in VolatilityRoles /\ Up[1] \in VolatilityRoles
  BY DEF VolatilityRoles, Rungs
<1>2. CASE key \in {<<grid, "base">> : grid \in {"probe", "candidate", "reference"}}
  BY <1>2 DEF AllKeys, Grids
<1>3. CASE key \in {<<"candidate", role>> : role \in VolatilityRoles}
  BY <1>3 DEF AllKeys, Grids
<1>4. CASE key \in {<<"reference", Down[1]>>, <<"reference", Up[1]>>}
  BY <1>1, <1>4 DEF AllKeys, Grids
<1>5. CASE key \in (IF case.american THEN {<<"candidate", "control">>} ELSE {})
  BY <1>5 DEF AllKeys, Grids
<1>6. CASE key \in (IF case.name \in AnchorCases THEN {<<"anchor", "base">>} ELSE {})
  BY <1>6 DEF AllKeys, Grids
<1> QED
  BY <1>2, <1>3, <1>4, <1>5, <1>6 DEF RequiredKeys

LEMMA StageIsFinite ==
    ASSUME NEW p \in Payloads
    PROVE  IsFiniteSet(Range(StageCases(p.stage)))
<1> PICK names : names = StageCases(p.stage)
  OBVIOUS
<1> PICK n \in Nat : n = Len(p.done)
  BY PayloadShape
<1>1. DOMAIN names = 1..n
  BY PayloadShape
<1>2. names \in Seq({case.name : case \in Cases})
  BY PayloadShape, LabelReportAssumption
<1>3. names \in Surjection(1..n, Range(names))
  BY <1>1, <1>2 DEF Surjection, Range
<1>4. IsFiniteSet(1..n)
  BY FS_Interval
<1> QED
  BY <1>3, <1>4, FS_Surjection

LEMMA PlanIsFinite ==
    ASSUME NEW names, IsFiniteSet(names)
    PROVE  IsFiniteSet(Planned(names))
<1>1. Planned(names) \subseteq names \X AllKeys
  BY PlanInKeys DEF Planned
<1>2. IsFiniteSet(names \X AllKeys)
  BY KeysAreFinite, FS_Product
<1> QED
  BY <1>1, <1>2, FS_Subset


SolvesIn(rows) == UNION {{row.name} \X DOMAIN row.solves : row \in Range(rows)}
FailuresIn(rows) == UNION {{row.name} \X DOMAIN row.failures : row \in Range(rows)}
AttemptsIn(rows) == UNION {{row.name} \X row.plan : row \in Range(rows)}

LEMMA Accounts ==
    ASSUME NEW p \in Payloads
    PROVE  LET rows == Genuine(p).rows
           IN  /\ AttemptsIn(rows) = Planned(Range(StageCases(p.stage)))
               /\ Names(Range(rows)) = Range(StageCases(p.stage))
               /\ SolvesIn(rows) \cup FailuresIn(rows) = AttemptsIn(rows)
               /\ SolvesIn(rows) \cap FailuresIn(rows) = {}
<1> PICK rows : rows = Genuine(p).rows
  OBVIOUS
<1> PICK names : names = StageCases(p.stage)
  OBVIOUS
<1>1. DOMAIN rows = DOMAIN p.done /\ DOMAIN names = DOMAIN p.done
  BY GenuineRows, PayloadShape
<1>2. \A i \in DOMAIN p.done :
        LET row == rows[i]
            case == CaseAt(p.stage, i)
        IN  /\ row.name = names[i] /\ row.plan = RequiredKeys(case)
            /\ CaseNamed(names[i]) = case
            /\ DOMAIN row.solves \cup DOMAIN row.failures = RequiredKeys(case)
            /\ DOMAIN row.solves \cap DOMAIN row.failures = {}
  <2> SUFFICES ASSUME NEW i \in DOMAIN p.done
               PROVE  LET row == rows[i]
                          case == CaseAt(p.stage, i)
                      IN  /\ row.name = names[i] /\ row.plan = RequiredKeys(case)
                          /\ CaseNamed(names[i]) = case
                          /\ DOMAIN row.solves \cup DOMAIN row.failures = RequiredKeys(case)
                          /\ DOMAIN row.solves \cap DOMAIN row.failures = {}
    OBVIOUS
  <2> PICK row : row = rows[i]
    OBVIOUS
  <2> PICK case : case = CaseAt(p.stage, i)
    OBVIOUS
  <2>1. row = RowAt(p, i)
    BY GenuineRows
  <2>2. /\ row.name = case.name /\ CaseNamed(row.name) = case
        /\ Collection(case, row.solves, row.failures)
        /\ row = EvaluateCase(case, row.solves, row.failures)
    BY <2>1, RowFields
  <2>3. row.plan = RequiredKeys(case)
    <3>1. EvaluateCase(case, row.solves, row.failures).plan = RequiredKeys(case)
      BY DEF EvaluateCase
    <3> QED BY <2>2, <3>1
  <2>4. case.name = names[i]
    BY PayloadShape
  <2> QED BY <2>2, <2>3, <2>4 DEF Collection
<1>3. \A i, j \in DOMAIN p.done : names[i] = names[j] => i = j
  BY <1>1, PayloadShape, LabelReportAssumption
<1>4. AttemptsIn(rows) = Planned(Range(names))
  BY <1>1, <1>2 DEF AttemptsIn, Planned, Range
<1>5. Names(Range(rows)) = Range(names)
  BY <1>1, <1>2 DEF Names, Range
<1>6. SolvesIn(rows) \cup FailuresIn(rows) = AttemptsIn(rows)
  <2>1. \A i \in DOMAIN p.done :
          ({rows[i].name} \X DOMAIN rows[i].solves) \cup ({rows[i].name} \X DOMAIN rows[i].failures)
            = {rows[i].name} \X rows[i].plan
    BY <1>2
  <2> QED BY <1>1, <2>1 DEF SolvesIn, FailuresIn, AttemptsIn, Range
<1>7. SolvesIn(rows) \cap FailuresIn(rows) = {}
  <2> SUFFICES ASSUME NEW x \in SolvesIn(rows), x \in FailuresIn(rows) PROVE FALSE
    OBVIOUS
  <2> PICK i \in DOMAIN p.done : x \in {rows[i].name} \X DOMAIN rows[i].solves
    BY <1>1 DEF SolvesIn, Range
  <2> PICK j \in DOMAIN p.done : x \in {rows[j].name} \X DOMAIN rows[j].failures
    BY <1>1 DEF FailuresIn, Range
  <2>1. x[1] = names[i] /\ x[1] = names[j]
    BY <1>2
  <2>2. i = j
    BY <1>3, <2>1
  <2>3. x[2] \in DOMAIN rows[i].solves \cap DOMAIN rows[i].failures
    BY <2>2
  <2> QED BY <1>2, <2>3
<1> QED
  BY <1>4, <1>5, <1>6, <1>7

LEMMA AccountingIs ==
    ASSUME NEW p \in Payloads
    PROVE  LET accounting == Genuine(p).accounting
               rows == Genuine(p).rows
           IN  /\ Reconciles(accounting)
               /\ AccountingSchema(accounting)
               /\ accounting.by_criticality = ByCriticality(rows)
<1> PICK rows : rows = Genuine(p).rows
  OBVIOUS
<1> PICK planned : planned = Planned(Range(StageCases(p.stage)))
  OBVIOUS
<1> PICK solved : solved = SolvesIn(rows)
  OBVIOUS
<1> PICK failed : failed = FailuresIn(rows)
  OBVIOUS
<1> PICK kinds : kinds = ByCriticality(rows)
  OBVIOUS
<1>1. Genuine(p).accounting = SolveAccounting(rows, p.stage)
  <2>1. \A r : BuildReport(p.stage, p.sources, r).accounting = SolveAccounting(r, p.stage)
    BY DEF BuildReport
  <2> QED BY <2>1, GenuineFields
<1>2. /\ AttemptsIn(rows) = planned /\ solved \cup failed = planned /\ solved \cap failed = {}
      /\ Names(Range(rows)) = Range(StageCases(p.stage))
  BY Accounts
<1>3. SolveAccounting(rows, p.stage) =
        [planned |-> Cardinality(planned), attempted |-> Cardinality(planned),
         completed |-> Cardinality(solved), exceptions |-> Cardinality(failed),
         by_criticality |-> kinds]
  BY <1>2 DEF SolveAccounting, AttemptsIn, SolvesIn, FailuresIn
<1>4. IsFiniteSet(planned)
  BY StageIsFinite, PlanIsFinite
<1>5. IsFiniteSet(solved) /\ IsFiniteSet(failed)
  <2>1. solved \subseteq planned /\ failed \subseteq planned
    BY <1>2
  <2> QED BY <1>4, <2>1, FS_Subset
<1>6. /\ Cardinality(planned) \in Nat /\ Cardinality(solved) \in Nat /\ Cardinality(failed) \in Nat
  BY <1>4, <1>5, FS_CardinalityType
<1>7. Cardinality(planned) = Cardinality(solved) + Cardinality(failed)
  <2> PICK whole : whole = solved \cup failed
    OBVIOUS
  <2> PICK shared : shared = solved \cap failed
    OBVIOUS
  <2>1. Cardinality(whole) = Cardinality(solved) + Cardinality(failed) - Cardinality(shared)
    BY <1>5, FS_Union
  <2>2. whole = planned /\ shared = {}
    BY <1>2
  <2>3. Cardinality({}) = 0
    BY FS_EmptySet
  <2>4. Cardinality(planned) = Cardinality(solved) + Cardinality(failed) - 0
    BY <2>1, <2>2, <2>3
  <2> QED BY <1>6, <2>4
<1>8. DOMAIN kinds = Criticalities /\ \A c \in Criticalities : kinds[c] \in Nat
  <2>1. Planned(Names(Range(rows))) = planned
    BY <1>2
  <2> SUFFICES ASSUME NEW c \in Criticalities PROVE kinds[c] \in Nat
    BY DEF ByCriticality
  <2> PICK these : these = {solve \in planned : SolveCriticality(CaseNamed(solve[1]), solve[2]) = c}
    OBVIOUS
  <2>2. kinds[c] = Cardinality(these)
    BY <2>1 DEF ByCriticality
  <2>3. these \subseteq planned
    OBVIOUS
  <2>4. IsFiniteSet(these)
    BY <1>4, <2>3, FS_Subset
  <2> QED BY <2>2, <2>4, FS_CardinalityType
<1> PICK accounting : accounting = SolveAccounting(rows, p.stage)
  OBVIOUS
<1>9. /\ accounting.planned = Cardinality(planned) /\ accounting.attempted = Cardinality(planned)
      /\ accounting.completed = Cardinality(solved) /\ accounting.exceptions = Cardinality(failed)
      /\ accounting.by_criticality = kinds
  BY <1>3
<1>10. Reconciles(accounting)
  BY <1>7, <1>9 DEF Reconciles
<1>11. AccountingSchema(accounting)
  BY <1>6, <1>8, <1>9 DEF AccountingSchema, Counts
<1> QED
  BY <1>1, <1>9, <1>10, <1>11


-----------------------------------------------------------------------------
(* What a stage publishes is accepted: the schema of a case.                *)

LEMMA SolveIsPublished ==
    ASSUME NEW key, NEW solve \in SolvesOf(key)
    PROVE  SolveSchema(solve) /\ DOMAIN solve.bumped = BumpedKeys(key)
<1>1. /\ solve.status \in SolverStatuses /\ solve.regime \in ExerciseStates
      /\ solve.price \in Int /\ solve.residual \in Int /\ solve.step \in Nat
      /\ (solve.delta = NoValue \/ solve.delta \in Int)
      /\ (solve.gamma = NoValue \/ solve.gamma \in Int)
      /\ solve.node \in BOOLEAN /\ solve.bumpsNode \in BOOLEAN /\ solve.greek \in BOOLEAN
      /\ solve.bumped \in [BumpedKeys(key) -> Int]
  BY DEF SolvesOf
<1>2. BumpedKeys(key) \subseteq SpotBumpKeys
  BY DEF BumpedKeys, SpotBumpKeys
<1>3. MaybeNumbers(solve, {"delta", "gamma"})
  BY <1>1 DEF MaybeNumbers
<1>4. Flags(solve, {"node", "bumpsNode", "greek"})
  BY <1>1 DEF Flags
<1> QED
  BY <1>1, <1>2, <1>3, <1>4 DEF SolveSchema

LEMMA ValidationIsPublished ==
    ASSUME NEW h \in Int, NEW h2 \in Int, NEW h4 \in Int, NEW reference \in Int,
           NEW epsilonSmall \in Int, NEW epsilonLarge \in Int, NEW cap
    PROVE  ValidationSchema(FixedBumpValidation(h, h2, h4, reference, epsilonSmall, epsilonLarge, cap))
<1> PICK fixed : fixed = FixedBumpValidation(h, h2, h4, reference, epsilonSmall, epsilonLarge, cap)
  OBVIOUS
<1> PICK small : small = Size(h - h2)
  OBVIOUS
<1> PICK error : error = Size(h - reference)
  OBVIOUS
<1> PICK flat \in BOOLEAN : flat <=> small <= epsilonSmall /\ Size(h2 - h4) <= epsilonLarge
  OBVIOUS
<1> PICK charge : charge = FixedBumpCharge(flat, small, epsilonSmall)
  OBVIOUS
<1>1. small \in Int /\ error \in Int /\ ChargeTop \in Int /\ ChargeBottom \in Int
  BY LabelRulesAssumption DEF Size
<1>2. charge \in Int
  BY <1>1 DEF FixedBumpCharge
<1>3. ChargeBottom * error + charge \in Int
  BY <1>1, <1>2
<1>4. fixed.flat \in BOOLEAN /\ fixed.invalid \in BOOLEAN /\ fixed.passes \in BOOLEAN
  BY DEF FixedBumpValidation
<1>5. fixed.charge = charge /\ fixed.combined = ChargeBottom * error + charge
  BY DEF FixedBumpValidation
<1> QED
  BY <1>2, <1>3, <1>4, <1>5 DEF ValidationSchema, MaybeNumbers, Flags

LEMMA UnavailableIsPublished == ValidationSchema(Unavailable)
BY DEF Unavailable, ValidationSchema, MaybeNumbers, Flags

LEMMA DeltaIsPublished ==
    ASSUME NEW case, NEW s, NEW f, Collection(case, s, f), NEW supported \in BOOLEAN
    PROVE  ValidationSchema(FixedBumpDelta(s, supported))
<1> DEFINE base == <<"candidate", "base">>
           other == <<"reference", "base">>
<1>1. CASE FixedBumpDelta(s, supported) = Unavailable
  BY <1>1, UnavailableIsPublished
<1>2. CASE FixedBumpDelta(s, supported) # Unavailable
  <2>1. {base, other} \subseteq DOMAIN s
    BY <1>2 DEF FixedBumpDelta
  <2> PICK candidate : candidate = s[base]
    OBVIOUS
  <2> PICK reference : reference = s[other]
    OBVIOUS
  <2>2. candidate \in SolvesOf(base) /\ reference \in SolvesOf(other)
    BY <2>1 DEF Collection
  <2>3. BumpedKeys(base) = Rungs \X {"down", "up"} /\ BumpedKeys(other) = Rungs \X {"down", "up"}
    BY DEF BumpedKeys
  <2>4. /\ candidate.bumped \in [Rungs \X {"down", "up"} -> Int]
        /\ reference.bumped \in [Rungs \X {"down", "up"} -> Int]
        /\ candidate.residual \in Nat
    BY <2>2, <2>3 DEF SolvesOf
  <2>5. \A rung \in Rungs : BumpDelta(candidate, rung) \in Int /\ BumpDelta(reference, rung) \in Int
    BY <2>4 DEF BumpDelta, Centred, Rungs
  <2>6. /\ BumpDelta(candidate, 1) \in Int /\ BumpDelta(candidate, 2) \in Int
        /\ BumpDelta(candidate, 4) \in Int /\ BumpDelta(reference, 1) \in Int
        /\ 12 * candidate.residual \in Int /\ 6 * candidate.residual \in Int
    BY <2>4, <2>5 DEF Rungs
  <2>7. FixedBumpDelta(s, supported) =
          FixedBumpValidation(BumpDelta(candidate, 1), BumpDelta(candidate, 2),
                              BumpDelta(candidate, 4), BumpDelta(reference, 1),
                              12 * candidate.residual, 6 * candidate.residual, 8 * DeltaCap)
    BY <1>2, <2>1 DEF FixedBumpDelta
  <2>8. ValidationSchema(FixedBumpValidation(BumpDelta(candidate, 1), BumpDelta(candidate, 2),
                              BumpDelta(candidate, 4), BumpDelta(reference, 1),
                              12 * candidate.residual, 6 * candidate.residual, 8 * DeltaCap))
    BY <2>6, ValidationIsPublished
  <2> QED BY <2>7, <2>8
<1> QED
  BY <1>1, <1>2

\* One rung of the volatility ladder on one grid.
OnRung(s, grid, rung) == Centred(s[<<grid, Up[rung]>>].price, s[<<grid, Down[rung]>>].price, rung)
ErrorOnRung(s, rung) == (4 \div rung) * (s[<<"candidate", Up[rung]>>].residual
                                         + s[<<"candidate", Down[rung]>>].residual)

LEMMA VegaIsPublished ==
    ASSUME NEW case, NEW s, NEW f, Collection(case, s, f), NEW supported \in BOOLEAN
    PROVE  ValidationSchema(FixedBumpVega(s, supported))
<1>1. CASE FixedBumpVega(s, supported) = Unavailable
  BY <1>1, UnavailableIsPublished
<1>2. CASE FixedBumpVega(s, supported) # Unavailable
  <2>1. VegaKeys \subseteq DOMAIN s
    BY <1>2 DEF FixedBumpVega
  <2>2. \A key \in VegaKeys : s[key].price \in Int /\ s[key].residual \in Int
    BY <2>1 DEF Collection, SolvesOf
  <2>3. \A rung \in Rungs : Up[rung] \in VolatilityRoles /\ Down[rung] \in VolatilityRoles
    BY DEF VolatilityRoles
  <2>4. \A rung \in Rungs : <<"candidate", Up[rung]>> \in VegaKeys
                            /\ <<"candidate", Down[rung]>> \in VegaKeys
    BY <2>3 DEF VegaKeys
  <2>5. <<"reference", Up[1]>> \in VegaKeys /\ <<"reference", Down[1]>> \in VegaKeys
    BY DEF VegaKeys
  <2>6. \A rung \in Rungs : OnRung(s, "candidate", rung) \in Int /\ ErrorOnRung(s, rung) \in Int
    BY <2>2, <2>4 DEF OnRung, ErrorOnRung, Centred, Rungs
  <2>7. OnRung(s, "reference", 1) \in Int
    BY <2>2, <2>5 DEF OnRung, Centred
  <2>8. /\ OnRung(s, "candidate", 1) \in Int /\ OnRung(s, "candidate", 2) \in Int
        /\ OnRung(s, "candidate", 4) \in Int
        /\ ErrorOnRung(s, 1) + ErrorOnRung(s, 2) \in Int
        /\ ErrorOnRung(s, 2) + ErrorOnRung(s, 4) \in Int
    BY <2>6 DEF Rungs
  <2>9. FixedBumpVega(s, supported) =
          FixedBumpValidation(OnRung(s, "candidate", 1), OnRung(s, "candidate", 2),
                              OnRung(s, "candidate", 4), OnRung(s, "reference", 1),
                              ErrorOnRung(s, 1) + ErrorOnRung(s, 2),
                              ErrorOnRung(s, 2) + ErrorOnRung(s, 4), 8 * VegaCap)
    BY <1>2, <2>1 DEF FixedBumpVega, OnRung, ErrorOnRung
  <2>10. ValidationSchema(FixedBumpValidation(OnRung(s, "candidate", 1), OnRung(s, "candidate", 2),
                              OnRung(s, "candidate", 4), OnRung(s, "reference", 1),
                              ErrorOnRung(s, 1) + ErrorOnRung(s, 2),
                              ErrorOnRung(s, 2) + ErrorOnRung(s, 4), 8 * VegaCap))
    BY <2>7, <2>8, ValidationIsPublished
  <2> QED BY <2>9, <2>10
<1> QED
  BY <1>1, <1>2

LEMMA StencilIsPublished ==
    ASSUME NEW case, NEW s, NEW f, Collection(case, s, f), NEW supported \in BOOLEAN
    PROVE  StencilSchema(GridStencil(s, supported))
<1> DEFINE keys == {<<grid, "base">> : grid \in {"probe", "candidate", "reference"}}
<1>1. CASE /\ supported /\ keys \subseteq DOMAIN s
           /\ \A key \in keys : s[key].delta # NoValue
  <2>1. \A key \in keys : s[key].delta \in Int
    BY <1>1 DEF Collection, SolvesOf
  <2> PICK a \in Int : a = s[<<"probe", "base">>].delta
    BY <2>1
  <2> PICK b \in Int : b = s[<<"candidate", "base">>].delta
    BY <2>1
  <2> PICK c \in Int : c = s[<<"reference", "base">>].delta
    BY <2>1
  <2> PICK error : error = Size(3 * b - Extrapolated(b, c))
    OBVIOUS
  <2> PICK ordered \in BOOLEAN : ordered <=> OrderSupported(a, b, c)
    OBVIOUS
  <2>2. error \in Int
    BY DEF Size, Extrapolated
  <2> PICK stencil : stencil = GridStencil(s, supported)
    OBVIOUS
  <2>3. stencil.error = error /\ stencil.ordered \in BOOLEAN /\ stencil.passes \in BOOLEAN
    BY <1>1 DEF GridStencil, OrderSupported
  <2> QED BY <2>2, <2>3 DEF StencilSchema, MaybeNumbers, Flags
<1>2. CASE ~(/\ supported /\ keys \subseteq DOMAIN s
             /\ \A key \in keys : s[key].delta # NoValue)
  <2>1. GridStencil(s, supported) = [error |-> NoValue, ordered |-> FALSE, passes |-> FALSE]
    BY <1>2 DEF GridStencil
  <2> QED BY <2>1 DEF StencilSchema, MaybeNumbers, Flags
<1> QED
  BY <1>1, <1>2


LEMMA SupportIsPublished ==
    ASSUME NEW case, NEW problems
    PROVE  Flags(Support(case, problems), {"price", "delta", "vega", "anchor"})
<1> PICK support : support = Support(case, problems)
  OBVIOUS
<1>1. support.price \in BOOLEAN /\ support.delta \in BOOLEAN /\ support.vega \in BOOLEAN
      /\ support.anchor \in BOOLEAN
  BY DEF Support, AllUsable
<1> QED
  BY <1>1 DEF Flags

LEMMA ChecksArePublished ==
    ASSUME NEW case, NEW s, NEW problems, NEW support
    PROVE  LET checks == GateChecks(case, s, problems, support)
           IN  DOMAIN checks = GatingChecks /\ Flags(checks, GatingChecks)
<1> PICK checks : checks = GateChecks(case, s, problems, support)
  OBVIOUS
<1> PICK a \in BOOLEAN : a <=> support.price /\ <<"candidate", "base">> \in DOMAIN s
  OBVIOUS
<1> PICK shape : shape = ShapeOutcome(case, s, a)
  OBVIOUS
<1>1. /\ shape.american_dominance \in BOOLEAN /\ shape.american_intrinsic_bound \in BOOLEAN
      /\ shape.spot_monotonicity \in BOOLEAN /\ shape.spot_convexity \in BOOLEAN
  BY DEF ShapeOutcome, WithinShape
<1>2. /\ checks.american_dominance = shape.american_dominance
      /\ checks.american_intrinsic_bound = shape.american_intrinsic_bound
      /\ checks.spot_monotonicity = shape.spot_monotonicity
      /\ checks.spot_convexity = shape.spot_convexity
  BY DEF GateChecks
<1>3. /\ checks.returned \in BOOLEAN /\ checks.exact_node \in BOOLEAN /\ checks.identity \in BOOLEAN
      /\ checks.residual_scale \in BOOLEAN /\ checks.price_absolute_error \in BOOLEAN
  BY DEF GateChecks, NoIssue
<1>4. DOMAIN checks = GatingChecks
  BY DEF GateChecks, GatingChecks
<1> QED
  BY <1>1, <1>2, <1>3, <1>4 DEF Flags, GatingChecks

LEMMA DeltaFlags ==
    ASSUME NEW s, NEW support, support.delta \in BOOLEAN,
           NEW fixed, ValidationSchema(fixed), NEW stencil, StencilSchema(stencil),
           <<"candidate", "base">> \in DOMAIN s => s[<<"candidate", "base">>].greek \in BOOLEAN
    PROVE  EligibilitySchema(DeltaEligibility(s, support, fixed, stencil), DeltaPredicates)
<1> PICK delta : delta = DeltaEligibility(s, support, fixed, stencil)
  OBVIOUS
<1>1. fixed.passes \in BOOLEAN /\ fixed.invalid \in BOOLEAN /\ stencil.passes \in BOOLEAN
  BY DEF ValidationSchema, StencilSchema, Flags
<1>2. /\ delta.supporting_solves \in BOOLEAN /\ delta.structural_c1 \in BOOLEAN
      /\ delta.residual_scale \in BOOLEAN /\ delta.fixed_bump \in BOOLEAN
      /\ delta.fixed_bump_residual_scale \in BOOLEAN /\ delta.grid_stencil \in BOOLEAN
  BY <1>1 DEF DeltaEligibility
<1>3. DOMAIN delta = DeltaPredicates
  BY DEF DeltaEligibility, DeltaPredicates
<1> QED
  BY <1>2, <1>3 DEF EligibilitySchema, Flags, DeltaPredicates

LEMMA VegaFlags ==
    ASSUME NEW s, NEW support, NEW fixed, ValidationSchema(fixed)
    PROVE  EligibilitySchema(VegaEligibility(s, support, fixed), VegaPredicates)
<1> PICK vega : vega = VegaEligibility(s, support, fixed)
  OBVIOUS
<1>1. fixed.passes \in BOOLEAN /\ fixed.invalid \in BOOLEAN
  BY DEF ValidationSchema, Flags
<1>2. /\ vega.supporting_solves \in BOOLEAN /\ vega.structural_c1 \in BOOLEAN
      /\ vega.residual_scale \in BOOLEAN /\ vega.numerically_available \in BOOLEAN
      /\ vega.regimes_equal \in BOOLEAN /\ vega.convention \in BOOLEAN
      /\ vega.fixed_bump \in BOOLEAN /\ vega.fixed_bump_residual_scale \in BOOLEAN
  BY <1>1 DEF VegaEligibility
<1>3. DOMAIN vega = VegaPredicates
  BY DEF VegaEligibility, VegaPredicates
<1> QED
  BY <1>2, <1>3 DEF EligibilitySchema, Flags, VegaPredicates

LEMMA PriceErrorIsPublished ==
    ASSUME NEW case, NEW s, NEW f, Collection(case, s, f), NEW support
    PROVE  PriceError(s, support) = NoValue \/ PriceError(s, support) \in Int
<1>1. \A key \in DOMAIN s : s[key].price \in Int
  BY DEF Collection, SolvesOf
<1> QED
  BY <1>1 DEF PriceError, Size

LEMMA CriticalityIsKnown == ASSUME NEW case, NEW key PROVE SolveCriticality(case, key) \in Criticalities
BY DEF SolveCriticality, Criticalities

LEMMA CaseIsPublished ==
    ASSUME NEW case, NEW s, NEW f, Collection(case, s, f)
    PROVE  CaseSchema(EvaluateCase(case, s, f)) /\ RebuildableRow(EvaluateCase(case, s, f), case)
<1> PICK row : row = EvaluateCase(case, s, f)
  OBVIOUS
<1> PICK problems : problems = RawSolveProblems(case, s, f)
  OBVIOUS
<1> PICK support : support = Support(case, problems)
  OBVIOUS
<1> PICK checks : checks = GateChecks(case, s, problems, support)
  OBVIOUS
<1> PICK fixedDelta : fixedDelta = FixedBumpDelta(s, support.price)
  OBVIOUS
<1> PICK fixedVega : fixedVega = FixedBumpVega(s, support.vega)
  OBVIOUS
<1> PICK stencil : stencil = GridStencil(s, support.delta)
  OBVIOUS
<1> PICK delta : delta = DeltaEligibility(s, support, fixedDelta, stencil)
  OBVIOUS
<1> PICK vega : vega = VegaEligibility(s, support, fixedVega)
  OBVIOUS
<1>1. /\ row.solves = s /\ row.failures = f /\ row.plan = RequiredKeys(case)
      /\ row.support = support /\ row.price_error = PriceError(s, support)
      /\ row.fixed_delta = fixedDelta /\ row.fixed_vega = fixedVega /\ row.stencil = stencil
      /\ row.checks = checks /\ row.delta = delta /\ row.vega = vega
      /\ row.gating \in BOOLEAN /\ row.passes \in BOOLEAN
  BY DEF EvaluateCase, AllHold
<1>2. /\ support.price \in BOOLEAN /\ support.delta \in BOOLEAN /\ support.vega \in BOOLEAN
      /\ Flags(support, {"price", "delta", "vega", "anchor"})
  BY SupportIsPublished DEF Flags
<1>3. /\ DOMAIN s \cup DOMAIN f = RequiredKeys(case) /\ DOMAIN s \cap DOMAIN f = {}
      /\ \A key \in DOMAIN s : s[key] \in SolvesOf(key)
      /\ \A key \in DOMAIN f : f[key] = SolveCriticality(case, key)
  BY DEF Collection
<1>4. \A key \in RequiredKeys(case) : key[1] \in Grids
  BY PlanInKeys DEF AllKeys
<1>5. \A key \in DOMAIN s : key[1] \in Grids /\ SolveSchema(s[key])
                            /\ DOMAIN s[key].bumped = BumpedKeys(key)
  BY <1>3, <1>4, SolveIsPublished
<1>6. FailureSchema(f)
  BY <1>3, <1>4, CriticalityIsKnown DEF FailureSchema
<1>7. DOMAIN checks = GatingChecks /\ Flags(checks, GatingChecks)
  BY ChecksArePublished
<1>8. ValidationSchema(fixedDelta) /\ ValidationSchema(fixedVega) /\ StencilSchema(stencil)
  BY <1>2, DeltaIsPublished, VegaIsPublished, StencilIsPublished
<1>9. \A key \in DOMAIN s : s[key].greek \in BOOLEAN
  BY <1>3 DEF SolvesOf
<1>10. EligibilitySchema(delta, DeltaPredicates) /\ EligibilitySchema(vega, VegaPredicates)
  BY <1>2, <1>8, <1>9, DeltaFlags, VegaFlags, SMTT(30)
<1>11. Flags(row, {"gating", "passes"})
  BY <1>1 DEF Flags
<1>12. MaybeNumbers(row, {"price_error"})
  BY <1>1, PriceErrorIsPublished DEF MaybeNumbers
<1>13. CaseSchema(row)
  BY <1>1, <1>2, <1>5, <1>6, <1>7, <1>8, <1>10, <1>11, <1>12 DEF CaseSchema
<1>14. RebuildableRow(row, case)
  BY <1>1, <1>3, <1>5 DEF RebuildableRow
<1> QED
  BY <1>13, <1>14


-----------------------------------------------------------------------------
(* What a stage publishes is accepted while its sources stand.              *)

LEMMA RowsArePublished ==
    ASSUME NEW p \in Payloads
    PROVE  LET rows == Genuine(p).rows
           IN  /\ rows # <<>> /\ Len(rows) = Len(StageCases(p.stage))
               /\ \A i \in DOMAIN rows : rows[i].name = StageCases(p.stage)[i]
               /\ \A row \in Range(rows) :
                    /\ CaseSchema(row) /\ RebuildableRow(row, CaseNamed(row.name))
                    /\ row.problems = RawSolveProblems(CaseNamed(row.name), row.solves, row.failures)
                    /\ DOMAIN row.checks = GatingChecks
<1> PICK rows : rows = Genuine(p).rows
  OBVIOUS
<1> PICK n \in Nat : n = Len(p.done)
  BY PayloadShape
<1>1. DOMAIN p.done = 1..n /\ 1 \in DOMAIN p.done
  BY PayloadShape
<1>2. rows = [i \in 1..n |-> RowAt(p, i)]
  <2>1. Genuine(p).rows = Collected(p.stage, p.done)
    BY DEF Genuine, BuildReport
  <2>2. Collected(p.stage, p.done) = [i \in DOMAIN p.done |-> RowAt(p, i)]
    BY DEF Collected, RowAt, CaseAt
  <2> QED BY <1>1, <2>1, <2>2
<1> PICK S : S = {RowAt(p, i) : i \in 1..n}
  OBVIOUS
<1>3. rows \in [1..n -> S]
  BY <1>2
<1>4. rows \in Seq(S)
  BY <1>3, SeqDef
<1>5. DOMAIN rows = 1..Len(rows) /\ Len(rows) \in Nat
  BY <1>4, LenProperties
<1>6. Len(rows) = n
  BY <1>3, <1>5
<1>7. n = Len(StageCases(p.stage))
  BY DEF Payloads
<1>8. \A i \in 1..n :
        LET row == rows[i]
        IN  /\ row.name = StageCases(p.stage)[i]
            /\ CaseSchema(row) /\ RebuildableRow(row, CaseNamed(row.name))
            /\ row.problems = RawSolveProblems(CaseNamed(row.name), row.solves, row.failures)
            /\ DOMAIN row.checks = GatingChecks
  <2> SUFFICES ASSUME NEW i \in 1..n
               PROVE  LET row == rows[i]
                      IN  /\ row.name = StageCases(p.stage)[i]
                          /\ CaseSchema(row) /\ RebuildableRow(row, CaseNamed(row.name))
                          /\ row.problems = RawSolveProblems(CaseNamed(row.name), row.solves, row.failures)
                          /\ DOMAIN row.checks = GatingChecks
    OBVIOUS
  <2> PICK row : row = RowAt(p, i)
    OBVIOUS
  <2> PICK case : case = CaseAt(p.stage, i)
    OBVIOUS
  <2>1. rows[i] = row
    BY <1>2
  <2>2. /\ row.name = case.name /\ CaseNamed(row.name) = case
        /\ Collection(case, row.solves, row.failures)
        /\ row = EvaluateCase(case, row.solves, row.failures)
    BY <1>1, RowFields
  <2>3. case.name = StageCases(p.stage)[i]
    BY <1>1, PayloadShape
  <2>4. CaseSchema(row) /\ RebuildableRow(row, case)
    BY <2>2, CaseIsPublished
  <2>5. row.problems = RawSolveProblems(case, row.solves, row.failures)
    BY <2>2, RowDomain
  <2>6. DOMAIN row.checks = GatingChecks
    BY <2>4 DEF CaseSchema
  <2> QED BY <2>1, <2>2, <2>3, <2>4, <2>5, <2>6
<1>9. rows # <<>>
  BY <1>1, <1>2
<1>10. \A row \in Range(rows) :
        /\ CaseSchema(row) /\ RebuildableRow(row, CaseNamed(row.name))
        /\ row.problems = RawSolveProblems(CaseNamed(row.name), row.solves, row.failures)
        /\ DOMAIN row.checks = GatingChecks
  BY <1>3, <1>8 DEF Range
<1>11. \A i \in DOMAIN rows : rows[i].name = StageCases(p.stage)[i]
  BY <1>3, <1>8
<1> QED
  BY <1>6, <1>7, <1>9, <1>10, <1>11

LEMMA LifecycleIsPublished ==
    ASSUME NEW stage \in Stages, NEW pass \in BOOLEAN
    PROVE  LifecycleSchema(LifecycleBlock(stage, pass))
<1> PICK block : block = LifecycleBlock(stage, pass)
  OBVIOUS
<1>1. CASE stage = "confirmation"
  <2>1. /\ block.stage = stage /\ block.remediation = "passed" /\ block.confirmation = "run"
        /\ block.selected = IF pass THEN "candidate" ELSE "no_policy_selected"
    BY <1>1 DEF LifecycleBlock
  <2>2. block.terminal \in BOOLEAN /\ block.freezable \in BOOLEAN
    BY DEF LifecycleBlock
  <2> QED BY <2>1, <2>2 DEF LifecycleSchema, Flags, Policies
<1>2. CASE stage = "remediation"
  <2>1. /\ block.stage = stage
        /\ block.remediation = IF pass THEN "passed" ELSE "failed"
        /\ block.confirmation = IF pass THEN "pending" ELSE "not_run"
        /\ block.selected = IF pass THEN NoValue ELSE "no_policy_selected"
    BY <1>2 DEF LifecycleBlock
  <2>2. block.terminal \in BOOLEAN /\ block.freezable \in BOOLEAN
    BY DEF LifecycleBlock
  <2> QED BY <2>1, <2>2 DEF LifecycleSchema, Flags, Policies
<1> QED
  BY <1>1, <1>2 DEF Stages

LEMMA GenuineIsPublished ==
    ASSUME NEW p \in Payloads
    PROVE  ReportSchema(Genuine(p))
<1> PICK report : report = Genuine(p)
  OBVIOUS
<1> PICK rows : rows = Genuine(p).rows
  OBVIOUS
<1> PICK outcome : outcome = StageOutcome(rows)
  OBVIOUS
<1>1. /\ DOMAIN report = Fields /\ report.rows = rows
      /\ report = BuildReport(p.stage, p.sources, rows) /\ p.stage \in Stages
  BY GenuineFields, PayloadShape
<1>2. /\ report.study.stage = p.stage /\ report.study.case_count = Len(rows)
      /\ report.study.gating = Cardinality(outcome.gating)
      /\ report.outcome = outcome
      /\ report.lifecycle = LifecycleBlock(p.stage, outcome.all_pass)
  <2>1. /\ BuildReport(p.stage, p.sources, rows).study.stage = p.stage
        /\ BuildReport(p.stage, p.sources, rows).study.case_count = Len(rows)
        /\ BuildReport(p.stage, p.sources, rows).study.gating = Cardinality(outcome.gating)
        /\ BuildReport(p.stage, p.sources, rows).outcome = outcome
        /\ BuildReport(p.stage, p.sources, rows).lifecycle = LifecycleBlock(p.stage, outcome.all_pass)
    BY DEF BuildReport
  <2> QED BY <1>1, <2>1
<1>3. /\ rows # <<>> /\ Len(rows) = Len(StageCases(p.stage))
      /\ \A row \in Range(rows) : CaseSchema(row) /\ DOMAIN row.checks = GatingChecks
  BY RowsArePublished
<1>4. Len(rows) \in Nat
  BY <1>3, PayloadShape DEF Payloads
<1>5. Cardinality(outcome.gating) \in Nat
  <2>1. outcome.gating = Names(Gating(rows))
    BY DEF StageOutcome
  <2>2. outcome.gating \subseteq Range(StageCases(p.stage))
    <3>1. Names(Range(rows)) = Range(StageCases(p.stage))
      BY Accounts
    <3> QED BY <2>1, <3>1 DEF Gating, Names
  <2> QED BY <2>2, StageIsFinite, FS_Subset, FS_CardinalityType
<1>6. Counts(report.study, {"case_count", "gating"})
  BY <1>2, <1>4, <1>5 DEF Counts
<1>7. outcome.all_pass \in BOOLEAN
  BY DEF StageOutcome
<1>8. LifecycleSchema(report.lifecycle)
  BY <1>1, <1>2, <1>7, LifecycleIsPublished
<1>9. OutcomeSchema(outcome)
  <2>1. outcome.failed_checks = FailedChecks(rows)
    BY DEF StageOutcome
  <2>2. DOMAIN FailedChecks(rows) \subseteq UNION {DOMAIN row.checks : row \in Range(rows)}
    BY DEF FailedChecks
  <2>3. DOMAIN outcome.failed_checks \subseteq GatingChecks
    BY <1>3, <2>1, <2>2
  <2> QED BY <1>7, <2>3 DEF OutcomeSchema, Flags
<1>10. AccountingSchema(report.accounting)
  BY AccountingIs
<1> QED
  BY <1>1, <1>2, <1>3, <1>6, <1>8, <1>9, <1>10 DEF ReportSchema, Fields

LEMMA GenuineVerifies ==
    ASSUME NEW p \in Payloads
    PROVE  VerifiedReport(Genuine(p), p.sources)
<1> PICK report : report = Genuine(p)
  OBVIOUS
<1> PICK rows : rows = Genuine(p).rows
  OBVIOUS
<1>1. SameRaw(report, p)
  <2>1. "none" \in (Edits \cup {"none"}) \ {"drop_failure", "relabel"}
    OBVIOUS
  <2>2. Edited(report, "none") = report
    BY DEF Edited
  <2> QED BY <2>1, <2>2, EditKeepsRaw
<1>2. report.lifecycle.stage = p.stage
  BY LifecycleOf
<1>3. Recompute(report) = report
  BY <1>1, <1>2, RecomputedSame
<1>4. /\ report.sources = p.sources /\ report.study.stage = p.stage /\ report.rows = rows
  BY GenuineFields
<1>5. /\ Len(rows) = Len(StageCases(p.stage))
      /\ \A i \in DOMAIN rows : rows[i].name = StageCases(p.stage)[i]
      /\ \A row \in Range(rows) :
            /\ RebuildableRow(row, CaseNamed(row.name))
            /\ row.problems = RawSolveProblems(CaseNamed(row.name), row.solves, row.failures)
  BY RowsArePublished
<1>6. report.outcome.failed_checks = FailedChecks(rows)
  <2>1. report.outcome = StageOutcome(rows)
    BY DEF Genuine, BuildReport
  <2> QED BY <2>1 DEF StageOutcome
<1>7. Reconciles(report.accounting) /\ report.accounting.by_criticality = ByCriticality(rows)
  BY AccountingIs
<1>8. ContextHolds(report)
  BY <1>4, <1>5, <1>6, <1>7 DEF ContextHolds
<1>9. AgreesWith(report, report)
  BY DEF AgreesWith
<1>10. ReportSchema(report)
  BY GenuineIsPublished
<1> QED
  BY <1>2, <1>3, <1>4, <1>5, <1>7, <1>8, <1>9, <1>10 DEF VerifiedReport



-----------------------------------------------------------------------------
(* The inductive invariant.                                                 *)

\* What may lie on disk: an edit is one that changed the report.
Published == {p \in Payloads : p.edit = "none" \/ Content(p) # Genuine(p)}

\* A run is at rest, or has collected a prefix of its stage's cases, or has
\* built the report that its files are being written from.
RunInv ==
    /\ run \in [pc : {"idle", "solving", "writing"}, stage : Stages \cup {NoValue},
                dir : Directories \cup {NoValue}, done : Seq(Events),
                report : Published \cup {NoValue}, next : 1..Len(Files)]
    /\ run.pc = "idle" => run = Idle
    /\ run.pc # "idle" => run.dir \in Directories
    /\ run.pc = "solving" =>
        /\ run.stage \in Stages /\ run.report = NoValue
        /\ Len(run.done) <= Len(StageCases(run.stage))
        /\ \A i \in DOMAIN run.done : Possible(CaseAt(run.stage, i), run.done[i])
    /\ run.pc = "writing" => run.report \in Published

DiskInv ==
    dirs \in [Directories -> [files : [Range(Files) -> Published \cup {NoValue}], litter : BOOLEAN]]

LabelInv == sources \in Nat /\ RunInv /\ DiskInv /\ FrozenIsFinal


\* verify_stage_report accepts exactly what a stage published, and only while
\* the sources it was built from stand.
LEMMA VerifiesWhenUntouched ==
    ASSUME NEW p \in Published, NEW present
    PROVE  VerifiedReport(Content(p), present) <=> p.edit = "none" /\ p.sources = present
<1>1. p \in Payloads /\ (p.edit = "none" \/ Content(p) # Genuine(p))
  BY DEF Published
<1>2. VerifiedReport(Content(p), present) => p.edit = "none" /\ p.sources = present
  BY <1>1, OnlyGenuine
<1>3. ASSUME p.edit = "none", p.sources = present
      PROVE  VerifiedReport(Content(p), present)
  <2>1. Content(p) = Genuine(p)
    BY <1>3 DEF Content, Edited
  <2> QED BY <1>1, <1>3, <2>1, GenuineVerifies
<1> QED
  BY <1>2, <1>3

\* What require_confirmation_entry lets through.
LEMMA OpenedIsSound ==
    ASSUME NEW p \in Published, NEW present, OpensConfirmation(Content(p), present)
    PROVE  p.edit = "none" /\ p.sources = present /\ p.stage = "remediation" /\ Sound(p)
<1>1. VerifiedReport(Content(p), present) /\ Content(p).lifecycle.confirmation = "pending"
  BY DEF OpensConfirmation
<1>2. p.edit = "none" /\ p.sources = present
  BY <1>1, VerifiesWhenUntouched
<1>3. Content(p) = Genuine(p)
  BY <1>2 DEF Content, Edited
<1>4. p.stage = "remediation" /\ Sound(p)
  BY <1>1, <1>3, LifecycleOf DEF Published
<1> QED
  BY <1>2, <1>4

\* What the freeze tool lets through.
LEMMA FreezableIsOver ==
    ASSUME NEW p \in Published, NEW present, Freezable(Content(p), present)
    PROVE  p.edit = "none" /\ (p.stage = "remediation" => ~Sound(p))
<1>1. VerifiedReport(Content(p), present) /\ Content(p).lifecycle.terminal
  BY DEF Freezable
<1>2. p.edit = "none"
  BY <1>1, VerifiesWhenUntouched
<1>3. Content(p) = Genuine(p)
  BY <1>2 DEF Content, Edited
<1>4. p.stage = "confirmation" \/ ~Sound(p)
  BY <1>1, <1>3, LifecycleOf DEF Published
<1> QED
  BY <1>2, <1>4

LEMMA FileNames ==
    /\ Range(Files) = {"report.json", "cases.csv", "eligibility.csv", "failures.csv"}
    /\ Len(Files) = 4
    /\ \A n \in 1..Len(Files) : Files[n] \in Range(Files)
<1>1. Len(Files) = 4 /\ DOMAIN Files = 1..4
  BY DEF Files
<1>2. Range(Files) = {Files[1], Files[2], Files[3], Files[4]}
  BY <1>1 DEF Range
<1> QED
  BY <1>1, <1>2 DEF Files

LEMMA ReportsArePublished ==
    ASSUME DiskInv
    PROVE  /\ \A dir \in Directories, file \in Range(Files) :
                 dirs[dir].files[file] \in Published \cup {NoValue}
           /\ Reports \subseteq Published
<1>1. \A dir \in Directories, file \in Range(Files) :
         dirs[dir].files[file] \in Published \cup {NoValue}
  BY DEF DiskInv
<1>2. "report.json" \in Range(Files)
  BY FileNames
<1> QED
  BY <1>1, <1>2 DEF Reports

LEMMA IdleIsTyped ==
    /\ Idle \in [pc : {"idle", "solving", "writing"}, stage : Stages \cup {NoValue},
                 dir : Directories \cup {NoValue}, done : Seq(Events),
                 report : Published \cup {NoValue}, next : 1..Len(Files)]
    /\ Idle.pc = "idle"
<1>1. <<>> \in Seq(Events)
  OBVIOUS
<1> QED
  BY <1>1, FileNames DEF Idle

LEMMA InitHolds == Init => LabelInv
<1> SUFFICES ASSUME Init PROVE LabelInv
  OBVIOUS
<1>1. RunInv
  BY IdleIsTyped DEF Init, RunInv
<1>2. DiskInv
  BY DEF Init, DiskInv, NoFiles
<1> QED
  BY <1>1, <1>2 DEF Init, LabelInv, FrozenIsFinal


\* A snapshot is judged by what it holds.
LEMMA SnapshotKept ==
    ASSUME FrozenIsFinal, UNCHANGED snapshot
    PROVE  FrozenIsFinal'
BY DEF FrozenIsFinal

LEMMA AtRest ==
    ASSUME run' = Idle
    PROVE  RunInv'
BY IdleIsTyped DEF RunInv

LEMMA FileReplaced ==
    ASSUME DiskInv, NEW dir \in Directories, NEW file \in Range(Files), NEW p \in Published,
           dirs' = [dirs EXCEPT ![dir].files[file] = p]
    PROVE  DiskInv'
BY DEF DiskInv

LEMMA StartHolds ==
    ASSUME LabelInv, NEW stage \in Stages, NEW dir \in Directories,
           NEW previous \in Directories \cup {NoValue}, Start(stage, dir, previous)
    PROVE  LabelInv'
<1>1. run' = [Idle EXCEPT !.pc = "solving", !.stage = stage, !.dir = dir]
  BY DEF Start
<1>2. /\ run' = [pc |-> "solving", stage |-> stage, dir |-> dir, done |-> <<>>,
                 report |-> NoValue, next |-> 1]
  BY <1>1 DEF Idle
<1>3. <<>> \in Seq(Events) /\ Len(<<>>) = 0 /\ DOMAIN <<>> = {} /\ 1 \in 1..Len(Files)
  BY FileNames
<1>4. Len(StageCases(stage)) \in Nat
  BY LabelReportAssumption
<1>5. RunInv'
  BY <1>2, <1>3, <1>4 DEF RunInv
<1>6. DiskInv' /\ sources' \in Nat /\ FrozenIsFinal'
  BY SnapshotKept DEF LabelInv, Start, DiskInv
<1> QED
  BY <1>5, <1>6 DEF LabelInv

\* A run that is solving, one case further.
LEMMA CollectHolds ==
    ASSUME LabelInv, NEW disturbance \in Events, Collect(disturbance)
    PROVE  LabelInv'
<1> PICK stage : stage = run.stage
  OBVIOUS
<1> PICK done : done = run.done
  OBVIOUS
<1>1. /\ run \in [pc : {"idle", "solving", "writing"}, stage : Stages \cup {NoValue},
                  dir : Directories \cup {NoValue}, done : Seq(Events),
                  report : Published \cup {NoValue}, next : 1..Len(Files)]
      /\ run.pc = "solving" /\ run.dir \in Directories
      /\ stage \in Stages /\ run.report = NoValue
      /\ \A i \in DOMAIN done : Possible(CaseAt(stage, i), done[i])
  BY DEF LabelInv, RunInv, Collect
<1>2. run' = [run EXCEPT !.done = Append(@, disturbance)] /\ Len(done) < Len(StageCases(stage))
  BY DEF Collect
<1>3. done \in Seq(Events) /\ Len(StageCases(stage)) \in Nat
  BY <1>1, LabelReportAssumption
<1>4. Possible(CaseAt(stage, Len(done) + 1), disturbance)
  BY DEF Collect, Possible, Events, CaseAt
<1> PICK more : more = Append(done, disturbance)
  OBVIOUS
<1>5. /\ more \in Seq(Events) /\ Len(more) = Len(done) + 1 /\ DOMAIN more = 1..Len(done) + 1
      /\ \A i \in DOMAIN done : more[i] = done[i]
      /\ more[Len(done) + 1] = disturbance /\ DOMAIN done = 1..Len(done) /\ Len(done) \in Nat
  BY <1>3
<1>6. Len(more) <= Len(StageCases(stage))
  BY <1>2, <1>3, <1>5
<1>7. \A i \in DOMAIN more : Possible(CaseAt(stage, i), more[i])
  <2> SUFFICES ASSUME NEW i \in 1..Len(done) + 1 PROVE Possible(CaseAt(stage, i), more[i])
    BY <1>5
  <2>1. i \in 1..Len(done) \/ i = Len(done) + 1
    BY <1>5
  <2> QED BY <2>1, <1>1, <1>4, <1>5
<1>8. run' = [run EXCEPT !.done = more]
  BY <1>2
<1>9. RunInv'
  BY <1>1, <1>5, <1>6, <1>7, <1>8 DEF RunInv
<1>10. DiskInv' /\ sources' \in Nat /\ FrozenIsFinal'
  BY SnapshotKept DEF LabelInv, Collect, DiskInv
<1> QED
  BY <1>9, <1>10 DEF LabelInv

\* Once every case of the stage is collected there is a report to publish.
LEMMA FinishHolds ==
    ASSUME LabelInv, Finish
    PROVE  LabelInv'
<1> PICK payload : payload = [stage |-> run.stage, sources |-> sources, done |-> run.done,
                              edit |-> "none"]
  OBVIOUS
<1>1. /\ run \in [pc : {"idle", "solving", "writing"}, stage : Stages \cup {NoValue},
                  dir : Directories \cup {NoValue}, done : Seq(Events),
                  report : Published \cup {NoValue}, next : 1..Len(Files)]
      /\ run.pc = "solving" /\ run.dir \in Directories /\ run.stage \in Stages
      /\ \A i \in DOMAIN run.done : Possible(CaseAt(run.stage, i), run.done[i])
      /\ sources \in Nat /\ Len(run.done) = Len(StageCases(run.stage))
  BY DEF LabelInv, RunInv, Finish
<1>2. payload \in Published
  BY <1>1 DEF Published, Payloads
<1>3. RunInv'
  <2>1. CASE run' = Idle
    BY <2>1, AtRest
  <2>2. CASE run' = [run EXCEPT !.pc = "writing", !.report = payload]
    BY <1>1, <1>2, <2>2 DEF RunInv
  <2> QED BY <2>1, <2>2 DEF Finish
<1>4. DiskInv' /\ sources' \in Nat /\ FrozenIsFinal'
  BY SnapshotKept DEF LabelInv, Finish, DiskInv
<1> QED
  BY <1>3, <1>4 DEF LabelInv

LEMMA PublishFileHolds ==
    ASSUME LabelInv, PublishFile
    PROVE  LabelInv'
<1> PICK file : file = Files[run.next]
  OBVIOUS
<1>1. /\ run \in [pc : {"idle", "solving", "writing"}, stage : Stages \cup {NoValue},
                  dir : Directories \cup {NoValue}, done : Seq(Events),
                  report : Published \cup {NoValue}, next : 1..Len(Files)]
      /\ run.pc = "writing" /\ run.dir \in Directories /\ run.report \in Published
  BY DEF LabelInv, RunInv, PublishFile
<1>2. file \in Range(Files)
  BY <1>1, FileNames
<1>3. RunInv'
  <2>1. CASE run' = Idle
    BY <2>1, AtRest
  <2>2. CASE run' = [run EXCEPT !.next = @ + 1] /\ run.next # Len(Files)
    <3>1. run.next + 1 \in 1..Len(Files)
      BY <1>1, <2>2, FileNames
    <3> QED BY <1>1, <2>2, <3>1 DEF RunInv
  <2> QED BY <2>1, <2>2 DEF PublishFile, AfterFile
<1>4. DiskInv'
  <2>1. CASE dirs' = dirs
    BY <2>1 DEF LabelInv, DiskInv
  <2>2. CASE dirs' = [dirs EXCEPT ![run.dir].files[file] = run.report]
    BY <1>1, <1>2, <2>2, FileReplaced DEF LabelInv
  <2> QED BY <2>1, <2>2 DEF PublishFile
<1>5. sources' \in Nat /\ FrozenIsFinal'
  BY SnapshotKept DEF LabelInv, PublishFile
<1> QED
  BY <1>3, <1>4, <1>5 DEF LabelInv

LEMMA KillHolds ==
    ASSUME LabelInv, NEW litter \in BOOLEAN, Kill(litter)
    PROVE  LabelInv'
<1>1. run.dir \in Directories /\ dirs[run.dir].litter \in BOOLEAN
  BY DEF LabelInv, RunInv, DiskInv, Kill
<1>2. dirs' = [dirs EXCEPT ![run.dir].litter = @ \/ litter]
  BY DEF Kill
<1>3. (dirs[run.dir].litter \/ litter) \in BOOLEAN
  OBVIOUS
<1>4. DiskInv'
  BY <1>1, <1>2, <1>3 DEF LabelInv, DiskInv
<1>5. RunInv' /\ sources' \in Nat /\ FrozenIsFinal'
  BY SnapshotKept, AtRest DEF LabelInv, Kill
<1> QED
  BY <1>4, <1>5 DEF LabelInv

LEMMA EditSourcesHolds ==
    ASSUME LabelInv, EditSources
    PROVE  LabelInv'
<1>1. sources' \in Nat
  BY DEF LabelInv, EditSources
<1>2. RunInv' /\ DiskInv'
  BY DEF LabelInv, EditSources, RunInv, DiskInv
<1> QED
  BY <1>1, <1>2, SnapshotKept DEF LabelInv, EditSources

\* An edit that changed nothing is no edit.
LEMMA EditReportHolds ==
    ASSUME LabelInv, NEW dir \in Directories, EditReport(dir)
    PROVE  LabelInv'
<1>1. PICK payload : payload = dirs[dir].files["report.json"]
  OBVIOUS
<1>2. payload \in Published /\ payload.edit = "none" /\ payload \in Payloads
  <2>1. "report.json" \in Range(Files)
    BY FileNames
  <2> QED BY <1>1, <2>1, ReportsArePublished DEF LabelInv, EditReport, Published
<1>3. PICK edit \in Edits :
            /\ Edited(Genuine(payload), edit) # Genuine(payload)
            /\ dirs' = [dirs EXCEPT ![dir].files["report.json"].edit = edit]
  BY <1>1 DEF EditReport
<1>4. PICK edited : edited = [payload EXCEPT !.edit = edit]
  OBVIOUS
<1>5. /\ edited \in Payloads /\ edited.edit = edit /\ edited.stage = payload.stage
      /\ edited.sources = payload.sources /\ edited.done = payload.done
  BY <1>2, <1>4 DEF Payloads
<1>6. Genuine(edited) = Genuine(payload)
  BY <1>5 DEF Genuine
<1>7. edited \in Published
  BY <1>3, <1>5, <1>6 DEF Published, Content
<1>8. dirs' = [dirs EXCEPT ![dir].files["report.json"] = edited]
  BY <1>1, <1>3, <1>4
<1>9. DiskInv'
  <2>1. "report.json" \in Range(Files)
    BY FileNames
  <2> QED BY <1>7, <1>8, <2>1, FileReplaced DEF LabelInv
<1>10. RunInv' /\ sources' \in Nat /\ FrozenIsFinal'
  BY SnapshotKept DEF LabelInv, EditReport, RunInv
<1> QED
  BY <1>9, <1>10 DEF LabelInv

LEMMA ExtractHolds ==
    ASSUME LabelInv, NEW dir \in Directories, Extract(dir)
    PROVE  LabelInv'
<1> PICK payload : payload = dirs[dir].files["report.json"]
  OBVIOUS
<1>1. payload \in Published /\ Freezable(Content(payload), sources) /\ snapshot' = payload
  <2>1. "report.json" \in Range(Files)
    BY FileNames
  <2> QED BY <2>1, ReportsArePublished DEF LabelInv, Extract
<1>2. payload.edit = "none" /\ (payload.stage = "remediation" => ~Sound(payload))
  BY <1>1, FreezableIsOver
<1>3. payload.stage = "remediation" =>
         \E i \in DOMAIN payload.done : TouchesPrice("remediation", i, payload.done[i])
  BY <1>2 DEF Sound
<1>4. FrozenIsFinal'
  BY <1>1, <1>2, <1>3 DEF FrozenIsFinal
<1>5. RunInv' /\ DiskInv' /\ sources' \in Nat
  BY DEF LabelInv, Extract, RunInv, DiskInv
<1> QED
  BY <1>4, <1>5 DEF LabelInv


\* A step of nothing.
LEMMA StutterHolds ==
    ASSUME LabelInv, UNCHANGED vars
    PROVE  LabelInv'
<1>1. RunInv' /\ DiskInv' /\ sources' \in Nat /\ FrozenIsFinal'
  BY SnapshotKept DEF LabelInv, vars, RunInv, DiskInv
<1> QED
  BY <1>1 DEF LabelInv

LEMMA StepHolds == LabelInv /\ [Next]_vars => LabelInv'
<1> SUFFICES ASSUME LabelInv, [Next]_vars
             PROVE  LabelInv'
  OBVIOUS
<1>1. CASE \E stage \in Stages, dir \in Directories, previous \in Directories \cup {NoValue} :
              Start(stage, dir, previous)
  BY <1>1, StartHolds
<1>2. CASE \E disturbance \in Disturbances \cup {Clean} : Collect(disturbance)
  BY <1>2, CollectHolds DEF Events
<1>3. CASE Finish
  BY <1>3, FinishHolds
<1>4. CASE PublishFile
  BY <1>4, PublishFileHolds
<1>5. CASE \E litter \in BOOLEAN : Kill(litter)
  BY <1>5, KillHolds
<1>6. CASE EditSources
  BY <1>6, EditSourcesHolds
<1>7. CASE \E dir \in Directories : EditReport(dir)
  BY <1>7, EditReportHolds
<1>8. CASE \E dir \in Directories : Extract(dir)
  BY <1>8, ExtractHolds
<1>9. CASE UNCHANGED vars
  BY <1>9, StutterHolds
<1> QED
  BY <1>1, <1>2, <1>3, <1>4, <1>5, <1>6, <1>7, <1>8, <1>9 DEF Next

\* Whatever is killed, disturbed or edited, what is on disk is the report of a
\* stage whose every case was collected, as it was built or with one change.
THEOREM LabelInvariance == LabelSpec => []LabelInv
BY InitHolds, StepHolds, PTL DEF LabelSpec

-----------------------------------------------------------------------------
(* What the runs check, for every value of the constants.                   *)

LEMMA BuiltIsPublished ==
    ASSUME LabelInv, NEW p \in Built
    PROVE  p \in Payloads
BY DEF Built, LabelInv, RunInv, Published

\* A row of a report, and what its case's solves and failures were.
LEMMA RowsOf ==
    ASSUME NEW p \in Payloads, NEW row \in Range(Genuine(p).rows)
    PROVE  LET case == CaseNamed(row.name)
           IN  /\ row.gating <=> case.classification = "regular"
               /\ row.passes <=> Gate(case, row.solves, row.failures)
               /\ row = EvaluateCase(case, row.solves, row.failures)
               /\ Collection(case, row.solves, row.failures)
<1>1. PICK i \in DOMAIN p.done : row = RowAt(p, i)
  BY GenuineRows DEF Range
<1> QED
  BY <1>1, RowFields

\* The gate of a regular case is decided by its price-critical solves alone.
THEOREM GreeksNeverVeto == LabelSpec => []GreekFailuresNeverVeto
<1>1. LabelInv => GreekFailuresNeverVeto
  <2> SUFFICES ASSUME LabelInv, NEW p \in Built, NEW row \in Range(Genuine(p).rows), row.gating
               PROVE  LET Only(f) == [key \in DOMAIN f \cap PriceKeys |-> f[key]]
                      IN  row.passes = EvaluateCase(CaseNamed(row.name), Only(row.solves),
                                                    Only(row.failures)).passes
    BY DEF GreekFailuresNeverVeto
  <2> PICK case : case = CaseNamed(row.name)
    OBVIOUS
  <2> PICK s : s = row.solves
    OBVIOUS
  <2> PICK f : f = row.failures
    OBVIOUS
  <2> PICK t : t = [key \in DOMAIN s \cap PriceKeys |-> s[key]]
    OBVIOUS
  <2> PICK g : g = [key \in DOMAIN f \cap PriceKeys |-> f[key]]
    OBVIOUS
  <2>1. case.classification = "regular" /\ (row.passes <=> Gate(case, s, f))
    BY BuiltIsPublished, RowsOf
  <2>2. row.passes \in BOOLEAN
    <3>1. row.passes = Gate(case, s, f)
      BY BuiltIsPublished, RowsOf DEF Gate
    <3>2. Gate(case, s, f) \in BOOLEAN
      BY DEF Gate, EvaluateCase, AllHold
    <3> QED BY <3>1, <3>2
  <2>3. SamePrices(s, f, t, g)
    <3>1. <<"candidate", "base">> \in PriceKeys
      BY DEF PriceKeys
    <3> QED BY <3>1 DEF SamePrices
  <2>4. Gate(case, s, f) <=> Gate(case, t, g)
    BY <2>1, <2>3, GateReadsPrices
  <2>5. Gate(case, t, g) \in BOOLEAN
    BY DEF Gate, EvaluateCase, AllHold
  <2>6. row.passes = Gate(case, t, g)
    BY <2>1, <2>2, <2>4, <2>5
  <2> QED
    BY <2>6 DEF Gate
<1> QED
  BY <1>1, LabelInvariance, PTL

\* A policy is selected by a sound confirmation and by nothing else, and a
\* confirmation is pending after a sound remediation and after nothing else.
THEOREM SelectionIsDecided == LabelSpec => []SelectionIsExact
<1>1. LabelInv => SelectionIsExact
  <2> SUFFICES ASSUME LabelInv, NEW p \in Built
               PROVE  LET sound == \A i \in DOMAIN p.done : ~TouchesPrice(p.stage, i, p.done[i])
                          lifecycle == Genuine(p).lifecycle
                      IN  /\ lifecycle.selected = "candidate" <=> p.stage = "confirmation" /\ sound
                          /\ lifecycle.confirmation = "pending" <=> p.stage = "remediation" /\ sound
    BY DEF SelectionIsExact
  <2> QED
    BY BuiltIsPublished, LifecycleOf DEF Sound
<1> QED
  BY <1>1, LabelInvariance, PTL

\* A delta published as eligible is within its cap of the reference, the
\* movement between its two smallest bumps charged to it.
THEOREM EligibleDeltasCovered == LabelSpec => []EligibleGreeksCovered
<1>1. LabelInv => EligibleGreeksCovered
  <2> SUFFICES ASSUME LabelInv, NEW p \in Built, NEW row \in Range(Genuine(p).rows),
                      AllHold(row.delta)
               PROVE  LET candidate == row.solves[<<"candidate", "base">>]
                          reference == row.solves[<<"reference", "base">>]
                      IN  Size(BumpDelta(candidate, 1) - BumpDelta(reference, 1))
                          + Size(BumpDelta(candidate, 1) - BumpDelta(candidate, 2)) <= 8 * DeltaCap
    BY DEF EligibleGreeksCovered
  <2> PICK case : case = CaseNamed(row.name)
    OBVIOUS
  <2> PICK s : s = row.solves
    OBVIOUS
  <2> PICK f : f = row.failures
    OBVIOUS
  <2>1. row = EvaluateCase(case, s, f) /\ Collection(case, s, f)
    BY BuiltIsPublished, RowsOf
  <2>2. AllHold(EvaluateCase(case, s, f).delta)
    BY <2>1
  <2> QED
    BY <2>1, <2>2, DeltaCovered
<1> QED
  BY <1>1, LabelInvariance, PTL

\* Only an untouched report of a stage that ended the study is ever frozen.
THEOREM FrozenForGood == LabelSpec => []FrozenIsFinal
BY LabelInvariance, PTL DEF LabelInv

\* A confirmation starts only behind an untouched, sound remediation of the
\* sources that are there.
THEOREM ConfirmationsAreEarned == LabelSpec => ConfirmationIsEarned
<1>1. ASSUME LabelInv, [Next]_vars, run.pc = "idle", run'.stage = "confirmation"
      PROVE  \E payload \in Reports :
                /\ payload.stage = "remediation" /\ payload.edit = "none"
                /\ payload.sources = sources
                /\ \A i \in DOMAIN payload.done : ~TouchesPrice("remediation", i, payload.done[i])
  <2>1. run' # run
    <3>1. run.stage = NoValue
      BY <1>1 DEF LabelInv, RunInv, Idle
    <3>2. NoValue # "confirmation"
      BY MeasuredAssumption DEF Stages
    <3> QED BY <1>1, <3>1, <3>2
  <2>2. PICK stage \in Stages, dir \in Directories, previous \in Directories \cup {NoValue} :
               Start(stage, dir, previous)
    BY <1>1, <2>1 DEF Next, vars, Collect, Finish, PublishFile, Kill, EditSources, EditReport, Extract
  <2>3. stage = "confirmation"
    <3>1. run' = [Idle EXCEPT !.pc = "solving", !.stage = stage, !.dir = dir]
      BY <2>2 DEF Start
    <3>2. run'.stage = stage
      BY <3>1 DEF Idle
    <3> QED BY <1>1, <3>2
  <2>4. previous \in Directories /\ dirs[previous].files["report.json"] # NoValue
        /\ OpensConfirmation(Content(dirs[previous].files["report.json"]), sources)
    BY <2>2, <2>3 DEF Start
  <2>5. PICK p \in Reports : p = dirs[previous].files["report.json"]
    BY <2>4 DEF Reports
  <2>6. p \in Published /\ OpensConfirmation(Content(p), sources)
    BY <1>1, <2>4, <2>5, ReportsArePublished DEF LabelInv
  <2>7. p.edit = "none" /\ p.sources = sources /\ p.stage = "remediation" /\ Sound(p)
    BY <2>6, OpenedIsSound
  <2> QED
    BY <2>7 DEF Sound
<1>2. LabelInv /\ [Next]_vars =>
        [run.pc = "idle" /\ run'.stage = "confirmation" =>
            \E payload \in Reports :
                /\ payload.stage = "remediation" /\ payload.edit = "none"
                /\ payload.sources = sources
                /\ \A i \in DOMAIN payload.done : ~TouchesPrice("remediation", i, payload.done[i])]_vars
  BY <1>1
<1> QED
  BY <1>2, LabelInvariance, PTL DEF LabelSpec, ConfirmationIsEarned

\* No change to a published report survives the recomputation from its raw
\* solves, and nothing a stage published is refused while the sources stand.
THEOREM GenuineIsWhatVerifies == LabelSpec => OnlyGenuineVerifies
<1>1. LabelInv' =>
        \A payload \in Reports' :
            VerifiedReport(Content(payload), sources')
                <=> payload.edit = "none" /\ payload.sources = sources'
  <2>1. ASSUME LabelInv' PROVE Reports' \subseteq Published
    <3>1. \A dir \in Directories, file \in Range(Files) :
             dirs'[dir].files[file] \in Published \cup {NoValue}
      BY <2>1 DEF LabelInv, DiskInv
    <3>2. "report.json" \in Range(Files)
      BY FileNames
    <3> QED BY <3>1, <3>2 DEF Reports
  <2> QED
    BY <2>1, VerifiesWhenUntouched
<1>2. LabelInv /\ [Next]_vars =>
        [Reports' # Reports \/ sources' # sources =>
            \A payload \in Reports' :
                VerifiedReport(Content(payload), sources')
                    <=> payload.edit = "none" /\ payload.sources = sources']_vars
  BY <1>1, StepHolds
<1> QED
  BY <1>2, LabelInvariance, PTL DEF LabelSpec, OnlyGenuineVerifies
=============================================================================
