------------------------------- MODULE Parity -------------------------------
(***************************************************************************)
(* Put-call parity at one instant (market/parity.py).  A quote is           *)
(*   [expiry, strike, right, bid, ask]                                      *)
(* and a pair of a call and a put of one contract is                        *)
(*   [expiry, strike, mid, lower, upper]                                    *)
(* where mid is twice the midpoint C - P.  Prices and strikes are integers  *)
(* and the least-squares solutions are exact rationals [num, den], so the   *)
(* rounding of the code's floats is left out, and with it the condition     *)
(* numbers, whose diagnostic never makes a fit invalid.                     *)
(***************************************************************************)
EXTENDS Integers, FiniteSets, FiniteSetsExt, Functions

CONSTANTS NoValue, MinimumPairs, MinimumStrikes, MinimumTau

\* Why a fit is degenerate, or why its discount is no rate.
WithholdingReasons == {"insufficient_pairs", "non_positive_weight", "singular_design",
                       "discount_factor_not_positive", "zero_dte", "tau_below_minimum"}

ASSUME ParityAssumption == /\ NoValue \notin WithholdingReasons
                           /\ MinimumPairs \in Nat \ {0}
                           /\ MinimumStrikes \in Nat \ {0}
                           /\ MinimumTau \in Nat

-----------------------------------------------------------------------------
(* Exact rationals in lowest terms, with a positive denominator.            *)

Gcd[a \in Nat, b \in Nat] == IF b = 0 THEN a ELSE Gcd[b, a % b]
Size(n) == IF n < 0 THEN -n ELSE n

Ratio(n, d) == LET g == Gcd[Size(n), Size(d)]
                   s == IF d < 0 THEN -1 ELSE 1
               IN  [num |-> (s * n) \div g, den |-> (s * d) \div g]
Whole(n) == [num |-> n, den |-> 1]
Plus(p, q) == Ratio(p.num * q.den + q.num * p.den, p.den * q.den)
Minus(p, q) == Ratio(p.num * q.den - q.num * p.den, p.den * q.den)
Times(p, q) == Ratio(p.num * q.num, p.den * q.den)
Over(p, q) == Ratio(p.num * q.den, p.den * q.num)
AtMost(p, q) == p.num * q.den <= q.num * p.den
Positive(p) == p.num > 0
Magnitude(p) == [p EXCEPT !.num = Size(@)]
Lowest(S) == CHOOSE p \in S : \A q \in S : AtMost(p, q)
Highest(S) == CHOOSE p \in S : \A q \in S : AtMost(q, p)
Spread(S) == Minus(Highest(S), Lowest(S))

-----------------------------------------------------------------------------
(* Pairs and strike windows.                                                *)

Methods == {"unweighted", "weighted"}

WellFormed(q) == q.right \in {"C", "P"} /\ q.strike > 0 /\ q.bid <= q.ask

Contract(q) == <<q.expiry, q.strike>>

\* build_pairs: NoValue where the code raises, for an ill-formed or a
\* duplicated quote.
BuildPairs(quotes) ==
    LET calls == {k \in DOMAIN quotes : quotes[k].right = "C"}
        puts == DOMAIN quotes \ calls
        Twice(side) == \E i, j \in side : i # j /\ Contract(quotes[i]) = Contract(quotes[j])
        Joined(c, p) ==
            [expiry |-> c.expiry, strike |-> c.strike,
             mid |-> (c.bid + c.ask) - (p.bid + p.ask),
             lower |-> c.bid - p.ask, upper |-> c.ask - p.bid]
    IN  IF (\E k \in DOMAIN quotes : ~WellFormed(quotes[k])) \/ Twice(calls) \/ Twice(puts)
        THEN NoValue
        ELSE {Joined(quotes[ij[1]], quotes[ij[2]]) : ij \in
                 {cp \in calls \X puts : Contract(quotes[cp[1]]) = Contract(quotes[cp[2]])}}

Width(pair) == pair.upper - pair.lower
Expiries(pairs) == {p.expiry : p \in pairs}
Bucket(pairs, expiry) == {p \in pairs : p.expiry = expiry}

\* The strike nearest the forward: the smallest |C - P|, then the lowest.
AnchorStrike(pairs) ==
    (CHOOSE p \in pairs : \A q \in pairs :
        \/ Size(p.mid) < Size(q.mid)
        \/ Size(p.mid) = Size(q.mid) /\ p.strike <= q.strike).strike

\* Half widths are percentages of the anchor.
Window(pairs, anchor, percent) ==
    {p \in pairs : Size(p.strike - anchor) * 100 <= percent * anchor}

-----------------------------------------------------------------------------
(* fit_line: weighted least squares of values over strikes; points are      *)
(* [k, y, w] with integer k and w and rational y.                           *)

SumOf(f(_), S) == FoldSet(LAMBDA p, acc : Plus(f(p), acc), Whole(0), S)

Weight(points) == SumOf(LAMBDA p : Whole(p.w), points)
MeanOf(f(_), points) == Over(SumOf(LAMBDA p : Times(Whole(p.w), f(p)), points), Weight(points))
MeanStrike(points) == MeanOf(LAMBDA p : Whole(p.k), points)

\* The mean of the values, whatever their weights.
MeanValueUnweighted(points) ==
    Over(SumOf(LAMBDA p : p.y, points), Whole(Cardinality(points)))

MeanValue(points) == MeanOf(LAMBDA p : p.y, points)

\* The line through a cloud of points with the given means.
LineAbout(points, mk, my) ==
    LET Centered(p) == Minus(Whole(p.k), mk)
        kk == SumOf(LAMBDA p : Times(Whole(p.w), Times(Centered(p), Centered(p))), points)
        ky == SumOf(LAMBDA p : Times(Whole(p.w), Times(Centered(p), Minus(p.y, my))), points)
        slope == Over(ky, kk)
    IN  IF ~Positive(kk) THEN [singular |-> TRUE]
        ELSE [singular |-> FALSE, slope |-> slope,
              intercept |-> Minus(my, Times(slope, mk))]

Line(points) == LineAbout(points, MeanStrike(points), MeanValue(points))

Fitted(line, strike) == Plus(line.intercept, Times(line.slope, Whole(strike)))

\* Inverse squared widths, over their common denominator; only their ratios count.
BidAskWeight(pairs, p) ==
    LET product == FoldSet(LAMBDA q, acc : Width(q) * acc, 1, pairs \ {p})
    IN  product * product

Points(pairs, method) ==
    {[k |-> p.strike, y |-> Ratio(p.mid, 2),
      w |-> IF method = "weighted" THEN BidAskWeight(pairs, p) ELSE 1] : p \in pairs}

\* Zero exactly when the fitted value is executable.
OutsideSpread(fitted, p) ==
    IF ~AtMost(Whole(p.lower), fitted) THEN Minus(Whole(p.lower), fitted)
    ELSE IF ~AtMost(fitted, Whole(p.upper)) THEN Minus(fitted, Whole(p.upper))
    ELSE Whole(0)

RateWithheld(positive, zeroDte, tau) ==
    IF ~positive THEN "discount_factor_not_positive"
    ELSE IF zeroDte THEN "zero_dte"
    ELSE IF tau <= 0 \/ tau < MinimumTau THEN "tau_below_minimum"
    ELSE NoValue

Degenerate(pairs, why) ==
    [count |-> Cardinality(pairs), line |-> NoValue, discount |-> NoValue,
     forward |-> NoValue, contained |-> NoValue, withheld |-> why, diagnostics |-> {why}]

\* What a fitted line says.  A positive discount is what makes -log(D)/tau a rate.
Interpreted(pairs, line, discount, tau, zeroDte) ==
    LET forward == Over(line.intercept, discount)
        contained == {p \in pairs : OutsideSpread(Fitted(line, p.strike), p) = Whole(0)}
        positive == Positive(discount)
    IN  [count |-> Cardinality(pairs), line |-> line, discount |-> discount,
         forward |-> IF positive THEN forward ELSE NoValue,
         contained |-> Ratio(Cardinality(contained), Cardinality(pairs)),
         withheld |-> RateWithheld(positive, zeroDte, tau),
         diagnostics |-> IF ~positive THEN {"non_negative_slope", "non_positive_discount"}
                         ELSE IF ~Positive(forward) THEN {"non_positive_forward"}
                         ELSE {}]

FitOn(pairs, line, tau, zeroDte) ==
    IF line.singular THEN Degenerate(pairs, "singular_design")
    ELSE Interpreted(pairs, line, Times(Whole(-1), line.slope), tau, zeroDte)

\* fit_parity.
Fit(pairs, method, tau, zeroDte) ==
    IF Cardinality(pairs) < MinimumPairs THEN Degenerate(pairs, "insufficient_pairs")
    ELSE IF method = "weighted" /\ \E p \in pairs : Width(p) <= 0
    THEN Degenerate(pairs, "non_positive_weight")
    ELSE FitOn(pairs, Line(Points(pairs, method)), tau, zeroDte)

Valid(fit) == fit.diagnostics = {}
Interpretable(fit) == fit.withheld = NoValue

-----------------------------------------------------------------------------
(* dispersion_summary over a family of values; undefined ones are dropped.  *)

Ranked(f, n) ==
    CHOOSE v \in Range(f) : /\ Cardinality({i \in DOMAIN f : ~AtMost(v, f[i])}) < n
                            /\ n <= Cardinality({i \in DOMAIN f : AtMost(f[i], v)})

MedianOf(f) ==
    LET n == Cardinality(DOMAIN f)
    IN  IF n % 2 = 1 THEN Ranked(f, (n + 1) \div 2)
        ELSE Times(Ratio(1, 2), Plus(Ranked(f, n \div 2), Ranked(f, n \div 2 + 1)))

Dispersion(f) ==
    LET sample == Restrict(f, {i \in DOMAIN f : f[i] # NoValue})
    IN  IF DOMAIN sample = {} THEN [count |-> 0, median |-> NoValue]
        ELSE [count |-> Cardinality(DOMAIN sample), median |-> MedianOf(sample)]

\* american_carry_residual: spot minus D times the median of (C - P + D K) / D.
CarryResidual(pairs, spot, discount) ==
    LET Forward(p) == Over(Plus(Ratio(p.mid, 2), Times(discount, Whole(p.strike))), discount)
        median == MedianOf([p \in pairs |-> Forward(p)])
        diagnostics ==
            (IF Cardinality(pairs) < MinimumStrikes THEN {"insufficient_pairs"} ELSE {})
            \cup (IF discount = NoValue THEN {"non_positive_discount"}
                  ELSE IF ~Positive(discount) THEN {"non_positive_discount"} ELSE {})
            \cup (IF ~Positive(spot) THEN {"non_positive_spot"} ELSE {})
    IN  [diagnostics |-> diagnostics,
         value |-> IF diagnostics # {} THEN NoValue
                   ELSE Minus(spot, Times(discount, median))]

\* The slope of the implied forwards over the strikes of a window the discount
\* factor was not fitted on.
OutOfWindowSlope(pairs, discount) ==
    IF Cardinality(pairs) < 3 \/ discount = NoValue THEN NoValue
    ELSE IF ~Positive(discount) THEN NoValue
    ELSE LET line == Line({[k |-> p.strike, w |-> 1,
                            y |-> Over(Plus(Ratio(p.mid, 2), Times(discount, Whole(p.strike))),
                                       discount)] : p \in pairs})
         IN  IF line.singular THEN NoValue ELSE line.slope
=============================================================================
