----------------------------- MODULE MarketState -----------------------------
(***************************************************************************)
(* What one session's partitions say (market/reconstruct.py): universes,    *)
(* snapshots, parity fits per expiry, the American diagnostic, and the      *)
(* aggregates that decide the identifiability of every pricing input        *)
(* (market/identifiability.py).                                             *)
(*                                                                          *)
(* A definition row is [key, effective, action, standard, right, strike,    *)
(* expiry, style, multiplier, timed]; a quote row [key, at, bid, ask, core];*)
(* a statistic row [key, type, price, repeat].  An instant of session d is  *)
(* d * Day + i, and a contract of expiry e expires at e * Day + Day - 1.    *)
(***************************************************************************)
EXTENDS Parity, Sequences, SequencesExt

CONSTANTS Day, Sessions, Instants, Percents, SpotVariants, StandardRootOnly, TradableOnly,
          ExDates, Tenors, ContaminationRatio, MinimumContainment, MaximumSpread

ASSUME MarketAssumption == /\ Sessions \subseteq Nat /\ Sessions # {}
                           /\ Instants \subseteq Nat
                           /\ ExDates \subseteq Nat /\ ExDates # {}
                           /\ Percents \in Seq(Nat \ {0}) /\ Percents # <<>>

Widths == Range(Percents)
Widest == Percents[Len(Percents)]
Narrowest == Percents[1]
Baseline == "unweighted"
Instant(session, i) == session * Day + i
ExpiryInstant(expiry) == expiry * Day + Day - 1
Tau(instant, expiry) == ExpiryInstant(expiry) - instant
ZeroDte(expiry, session) == expiry <= session

-----------------------------------------------------------------------------
(* load_definitions, load_snapshot_quotes, assemble_records.                *)

Stamp(row) == IF row.effective = NoValue THEN -1 ELSE row.effective

\* The row of an instrument that is applied last.
LastRow(rows, k) ==
    CHOOSE i \in DOMAIN rows : rows[i].key = k /\ \A j \in DOMAIN rows : rows[j].key = k =>
        Stamp(rows[j]) < Stamp(rows[i]) \/ (Stamp(rows[j]) = Stamp(rows[i]) /\ j <= i)

\* A row of a non-standard root changes nothing when only standard roots count.
Counts(row) == row.action = "D" \/ row.standard \/ ~StandardRootOnly

Populated(rows, field(_)) ==
    IF rows = <<>> THEN Whole(0)
    ELSE Ratio(Cardinality({i \in DOMAIN rows : field(rows[i])}), Len(rows))

LoadDefinitions(rows) ==
    LET applied == SelectSeq(rows, Counts)
        keys == {applied[i].key : i \in DOMAIN applied}
        live == {k \in keys : applied[LastRow(applied, k)].action # "D"}
    IN  [contracts |-> [k \in live |-> applied[LastRow(applied, k)]],
         records |-> Len(rows),
         styled |-> Populated(rows, LAMBDA r : r.style),
         multiplied |-> Populated(rows, LAMBDA r : r.multiplier),
         timed |-> Populated(rows, LAMBDA r : r.timed)]

LoadSnapshot(rows, instant) ==
    LET usable == SelectSeq(rows, LAMBDA r : /\ r.at = instant
                                             /\ TradableOnly => r.core
                                             /\ r.bid # NoValue /\ r.ask # NoValue)
        keys == {usable[i].key : i \in DOMAIN usable}
        Final(k) == usable[Max({i \in DOMAIN usable : usable[i].key = k})]
    IN  [k \in keys |-> [bid |-> Final(k).bid, ask |-> Final(k).ask]]

\* Quotes of known contracts that are not crossed, by instrument.
AssembleRecords(universe, quotes) ==
    LET known == {k \in DOMAIN universe.contracts \cap DOMAIN quotes :
                    quotes[k].bid <= quotes[k].ask}
    IN  [k \in known |->
            [expiry |-> universe.contracts[k].expiry, strike |-> universe.contracts[k].strike,
             right |-> universe.contracts[k].right,
             bid |-> quotes[k].bid, ask |-> quotes[k].ask]]

\* load_sr3_controls: the last settlement of every outright, nearest first.
Settlements(definitions, statistics) ==
    LET outright == {definitions[i].key : i \in {j \in DOMAIN definitions :
                        definitions[j].outright}}
        settled == SelectSeq(statistics, LAMBDA r :
            r.type = "settlement" /\ ~r.repeat /\ r.price # NoValue /\ r.key \in outright)
    IN  [k \in {settled[i].key : i \in DOMAIN settled} |->
            settled[Max({i \in DOMAIN settled : settled[i].key = k})].price]

-----------------------------------------------------------------------------
(* reconstruct_expiries and diagnose_american.                              *)

ReconstructExpiries(pairs, instant, session) ==
    [e \in Expiries(pairs) |->
        LET bucket == Bucket(pairs, e)
            anchor == AnchorStrike(bucket)
        IN  [zeroDte |-> ZeroDte(e, session), tau |-> Tau(instant, e), anchor |-> anchor,
             fits |-> [wm \in Widths \X Methods |->
                 Fit(Window(bucket, anchor, wm[1]), wm[2], Tau(instant, e),
                     ZeroDte(e, session))]]]

SpotOfVariant(quote, variant) ==
    CASE variant = "bid" -> Whole(quote.bid)
      [] variant = "ask" -> Whole(quote.ask)
      [] variant = "mid" -> Ratio(quote.bid + quote.ask, 2)

\* An American expiry is diagnosed with the discount factors of the European
\* expiry of the same date; an unmatched one is left without residuals.
DiagnoseAmerican(american, europeanPairs, european, spot, instant, session) ==
    [e \in Expiries(american) \cap DOMAIN european |->
        LET bucket == Bucket(american, e)
            anchor == AnchorStrike(bucket)
            control == european[e].fits[<<Narrowest, Baseline>>].discount
        IN  [zeroDte |-> ZeroDte(e, session), tau |-> Tau(instant, e),
             residuals |-> [wmv \in Widths \X Methods \X SpotVariants |->
                 CarryResidual(Window(bucket, anchor, wmv[1]), SpotOfVariant(spot, wmv[3]),
                               european[e].fits[<<wmv[1], wmv[2]>>].discount)],
             slope |-> OutOfWindowSlope(Window(bucket, anchor, Widest), control),
             control |-> OutOfWindowSlope(
                 Window(Bucket(europeanPairs, e), european[e].anchor, Widest), control)]]

\* run_snapshot: NoValue where the code raises.
UsableSpot(quotes) ==
    Cardinality(DOMAIN quotes) = 1
    /\ \A k \in DOMAIN quotes : 0 < quotes[k].bid /\ quotes[k].bid <= quotes[k].ask

SnapshotOf(session, instant, spot, european, american, fitted) ==
    [spot |-> spot, european |-> fitted, pairs |-> european,
     american |-> DiagnoseAmerican(american, european, fitted, spot, instant, session)]

TakenFrom(session, instant, underlying, european, american) ==
    IF ~UsableSpot(underlying) \/ european = NoValue \/ american = NoValue THEN NoValue
    ELSE SnapshotOf(session, instant, underlying[CHOOSE k \in DOMAIN underlying : TRUE],
                    european, american, ReconstructExpiries(european, instant, session))

RunSnapshot(session, i, universes, rows) ==
    LET instant == Instant(session, i)
        Pairs(p) == BuildPairs(AssembleRecords(universes[p], LoadSnapshot(rows[p], instant)))
    IN  TakenFrom(session, instant, LoadSnapshot(rows.underlying, instant),
                  Pairs("european"), Pairs("american"))

-----------------------------------------------------------------------------
(* The aggregates of european_sensitivity and american_sensitivity.         *)
(* Outcomes are snapshots by <<session, instant>>; a cell is                *)
(* <<session, instant, expiry>>.                                            *)

EuropeanCells(outcomes) ==
    UNION {{<<a[1], a[2], e>> : e \in DOMAIN outcomes[a].european} : a \in DOMAIN outcomes}
AmericanCells(outcomes) ==
    UNION {{<<a[1], a[2], e>> : e \in DOMAIN outcomes[a].american} : a \in DOMAIN outcomes}
EuropeanOf(outcomes, c) == outcomes[<<c[1], c[2]>>].european[c[3]]
AmericanOf(outcomes, c) == outcomes[<<c[1], c[2]>>].american[c[3]]
Fits(outcomes, c) == EuropeanOf(outcomes, c).fits
Residuals(outcomes, c) == AmericanOf(outcomes, c).residuals

\* Aggregates that forget the exclusion of same-session expiries.
LongerDatedKeepingAll(cells) == cells

\* A same-session expiry measures its own tau: it enters no aggregate.
LongerDated(cells) == {c \in cells : ~ZeroDte(c[3], c[1])}

ValidDiscounts(fits) == {fits[k].discount : k \in {j \in DOMAIN fits : Valid(fits[j])}}
ValidCount(fits) == Cardinality({k \in DOMAIN fits : Valid(fits[k])})

Estimates(outcomes, group) ==
    UNION {{<<d, k>> : k \in {j \in DOMAIN Fits(outcomes, d) : Valid(Fits(outcomes, d)[j])}} :
               d \in group}

\* Ranges of D within a snapshot, and across the snapshots of one session.
DiscountWithin(outcomes) ==
    LET cells == LongerDated(EuropeanCells(outcomes))
        several == {c \in cells : ValidCount(Fits(outcomes, c)) > 1}
    IN  Dispersion([c \in several |-> Spread(ValidDiscounts(Fits(outcomes, c)))])

DiscountAcross(outcomes) ==
    LET cells == LongerDated(EuropeanCells(outcomes))
        Together(c) == {d \in cells : d[1] = c[1] /\ d[3] = c[3]}
        groups == {g \in {Together(c) : c \in cells} : Cardinality(Estimates(outcomes, g)) > 1}
    IN  Dispersion([g \in groups |-> Spread(UNION {ValidDiscounts(Fits(outcomes, d)) : d \in g})])

MidResiduals(residuals) ==
    {residuals[k].value : k \in {j \in DOMAIN residuals :
        j[3] = "mid" /\ residuals[j].diagnostics = {}}}
MidCount(residuals) ==
    Cardinality({j \in DOMAIN residuals : j[3] = "mid" /\ residuals[j].diagnostics = {}})

CarryWithin(outcomes) ==
    LET cells == LongerDated(AmericanCells(outcomes))
        several == {c \in cells : MidCount(Residuals(outcomes, c)) > 1}
    IN  Dispersion([c \in several |-> Spread(MidResiduals(Residuals(outcomes, c)))])

\* The SPY slope is an order of magnitude larger than the European control's.
StrikeDependence(outcomes) ==
    LET cells == LongerDated(AmericanCells(outcomes))
        MedianSlope(slope(_)) == Dispersion([c \in cells |->
            IF slope(c) = NoValue THEN NoValue ELSE Magnitude(slope(c))]).median
        spy == MedianSlope(LAMBDA c : AmericanOf(outcomes, c).slope)
        xsp == MedianSlope(LAMBDA c : AmericanOf(outcomes, c).control)
    IN  /\ spy # NoValue /\ xsp # NoValue
        /\ Positive(xsp) /\ AtMost(Times(Whole(ContaminationRatio), xsp), spy)

\* The step of the median residual between consecutive sessions, and whether it
\* spans the first scheduled ex-date.
Following(s, t) == s < t /\ ~\E r \in Sessions : s < r /\ r < t
CrossesExDate(s, t) == s < Min(ExDates) /\ Min(ExDates) <= t

SessionMedian(outcomes, session, expiry) ==
    LET cells == {c \in LongerDated(AmericanCells(outcomes)) :
                    c[1] = session /\ c[3] = expiry}
        keys == UNION {{<<c, k>> : k \in {j \in DOMAIN Residuals(outcomes, c) :
                    j[3] = "mid" /\ Residuals(outcomes, c)[j].diagnostics = {}}} : c \in cells}
    IN  Dispersion([ck \in keys |-> Residuals(outcomes, ck[1])[ck[2]].value]).median

MedianStep(outcomes, st, e) ==
    LET before == SessionMedian(outcomes, st[1], e)
        after == SessionMedian(outcomes, st[2], e)
    IN  IF NoValue \in {before, after} THEN NoValue ELSE Minus(after, before)

Transitions(outcomes) ==
    LET expiries == {c[3] : c \in AmericanCells(outcomes)}
        observed == {a[1] : a \in DOMAIN outcomes}
        compared == {st \in observed \X observed : Following(st[1], st[2])
                        /\ \E e \in expiries : MedianStep(outcomes, st, e) # NoValue}
    IN  [st \in compared |->
            [crosses |-> CrossesExDate(st[1], st[2]),
             change |-> Dispersion([e \in expiries |-> MedianStep(outcomes, st, e)]).median]]

\* compare_rates: the listed expiry nearest each nominal tenor, by snapshot.
RateTaus(outcomes, a) ==
    {EuropeanOf(outcomes, c).tau : c \in {x \in EuropeanCells(outcomes) :
        <<x[1], x[2]>> = a /\ Interpretable(Fits(outcomes, x)[<<Widest, Baseline>>])}}
Nearest(taus, tenor) ==
    CHOOSE t \in taus : \A u \in taus : \/ Size(t - tenor) < Size(u - tenor)
                                        \/ Size(t - tenor) = Size(u - tenor) /\ t <= u
RateRows(outcomes) ==
    UNION {{[snapshot |-> a, tenor |-> tenor, tau |-> Nearest(RateTaus(outcomes, a), tenor)] :
               tenor \in Tenors} : a \in {b \in DOMAIN outcomes : RateTaus(outcomes, b) # {}}}

-----------------------------------------------------------------------------
(* _measure_facts, ObservedFacts and build_identifiability_matrix.          *)

AllFits(outcomes) == UNION {{<<c, k>> : k \in DOMAIN Fits(outcomes, c)} : c \in EuropeanCells(outcomes)}
FitOf(outcomes, ck) == Fits(outcomes, ck[1])[ck[2]]
Pooled(universes, field(_)) ==
    LET total == SumOf(LAMBDA s : Whole(universes[s].records), DOMAIN universes)
    IN  IF ~Positive(total) THEN Whole(0)
        ELSE Over(SumOf(LAMBDA s : Times(field(universes[s]), Whole(universes[s].records)),
                        DOMAIN universes), total)

\* The two fractions and the containment are over every fit, same-session
\* expiries included; the spreads leave those out.
MeasureFacts(outcomes, universes, probes) ==
    LET valid == {f \in AllFits(outcomes) : Valid(FitOf(outcomes, f))}
    IN  [attempted |-> Cardinality({f \in AllFits(outcomes) : FitOf(outcomes, f).count >= 1}),
         valid |-> Cardinality(valid),
         containment |-> Dispersion([f \in valid |-> FitOf(outcomes, f).contained]).median,
         spread |-> DiscountWithin(outcomes).median,
         intraday |-> DiscountAcross(outcomes).median,
         rates |-> Cardinality({f \in AllFits(outcomes) : Interpretable(FitOf(outcomes, f))}),
         matched |-> Cardinality(AmericanCells(outcomes)),
         residual |-> \E c \in AmericanCells(outcomes) : \E k \in DOMAIN Residuals(outcomes, c) :
                          Residuals(outcomes, c)[k].diagnostics = {},
         contaminated |-> StrikeDependence(outcomes),
         styled |-> Pooled(universes, LAMBDA u : u.styled),
         multiplied |-> Pooled(universes, LAMBDA u : u.multiplied),
         timed |-> Pooled(universes, LAMBDA u : u.timed),
         probes |-> probes]

\* A median that does not exist is a NaN, and meets no criterion.
Robust(facts) ==
    /\ facts.valid > 0 /\ facts.valid = facts.attempted
    /\ facts.containment # NoValue /\ AtMost(MinimumContainment, facts.containment)
    /\ facts.spread # NoValue /\ AtMost(facts.spread, MaximumSpread)

Matrix(facts) ==
    LET Knots == IF Robust(facts) THEN "robustly_inferred"
                 ELSE "pointwise_identified_curve_unconstructed"
        Declared(probe, otherwise) == IF facts.probes[probe] = "present" THEN "directly_observed"
                                      ELSE otherwise
        Populates(fraction) == IF Positive(fraction) THEN "directly_observed"
                               ELSE "external_convention"
    IN  [valuation_time |-> "directly_observed", spy_spot |-> "directly_observed",
         discount_curve |-> Knots, forward_curve |-> Knots,
         discrete_dividend_dates |-> Declared("dividend", "unavailable"),
         discrete_dividend_amounts |-> Declared("dividend", "unavailable"),
         effective_borrow_or_carry |-> Declared("borrow", "jointly_identifiable_only"),
         exercise_style |-> Populates(facts.styled),
         settlement_convention |-> Populates(facts.timed),
         contract_multiplier |-> Populates(facts.multiplied),
         volatility_input |-> "unavailable"]

\* build_verdicts: the answers that turn on the facts.
Verdicts(facts) ==
    [stable |-> Robust(facts),
     executable |-> facts.containment # NoValue /\ AtMost(MinimumContainment, facts.containment),
     residual |-> IF facts.residual THEN "as_a_qualitative_diagnostic_only" ELSE "not_computable"]
=============================================================================
