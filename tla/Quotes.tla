------------------------------- MODULE Quotes -------------------------------
(***************************************************************************)
(* Quote normalization (market/quotes.py) and coverage bookkeeping          *)
(* (market/feasibility.py).  A quote record is                              *)
(*   [key, ts, levels, bid, ask, bidSize, askSize, suspect]                 *)
(* with NoValue for an undefined timestamp or price.  Decoded prices are    *)
(* scaled integers, so the grade non_finite cannot come from an archive.    *)
(* The bit sets of the code are sets of grid slots.                         *)
(***************************************************************************)
EXTENDS Universe, Sequences

CONSTANTS Open, Close, Frequency,   \* the session and its synchronization grid
          Policy                    \* the tradability flags of the configuration

ASSUME WindowAssumption == /\ Open \in Int /\ Close \in Int /\ Open < Close
                           /\ Frequency \in Nat \ {0}

InSession(ts) == Open < ts /\ ts <= Close
SlotCount == (Close - Open) \div Frequency

\* The slot of a session timestamp on the grid, or NoValue.
Slot(ts) == IF InSession(ts) /\ (ts - Open) % Frequency = 0
            THEN (ts - Open) \div Frequency - 1
            ELSE NoValue

Book(q) == <<q.bid, q.ask, q.bidSize, q.askSize>>

\* Precedence: the most fundamental defect first.
Grade(q, previous) ==
    CASE q.bid = NoValue \/ q.ask = NoValue -> "missing"
      [] q.bid # NoValue /\ q.ask # NoValue ->
           (CASE q.bid > q.ask -> "crossed"
              [] q.bid <= q.ask /\ q.bid <= 0 -> "zero_bid"
              [] q.bid = q.ask /\ q.bid > 0 -> "locked"
              [] OTHER -> IF previous = Book(q) THEN "stale" ELSE "ok")

Tradable(q, grade) ==
    /\ grade \in {"ok", "stale"}
    /\ Policy.positiveBid => q.bid > 0
    /\ Policy.positiveSpread => q.ask > q.bid
    /\ Policy.positiveSizes => q.bidSize > 0 /\ q.askSize > 0
    /\ ~(Policy.excludeFlagged /\ q.suspect)
    /\ ~(Policy.excludeStale /\ grade = "stale")

Normalizable(q) == q.levels /\ q.ts # NoValue

Normalize(q, previous) ==
    LET grade == Grade(q, previous)
    IN  [key |-> q.key, ts |-> q.ts, grade |-> grade, suspect |-> q.suspect,
         mid |-> IF q.bid = NoValue \/ q.ask = NoValue THEN NoValue
                 ELSE q.bid + q.ask,       \* twice the mid: prices stay integers
         spread |-> IF q.bid = NoValue \/ q.ask = NoValue THEN NoValue
                    ELSE q.ask - q.bid,
         session |-> InSession(q.ts), core |-> Tradable(q, grade)]

-----------------------------------------------------------------------------
(* PopulationCoverage and QuoteAudit.                                       *)

Primary == "primary"
MultiLeg == "multi_leg"
Unclassified == "unclassified"
Labels == {Primary, MultiLeg, Unclassified}

NoCoverage == [records |-> 0, core |-> 0, raw |-> <<>>, tradable |-> <<>>,
               rawMinutes |-> 0, coreMinutes |-> 0, spreads |-> <<>>]

Mark(slots, key, slot) ==
    [k \in DOMAIN slots \cup {key} |->
        IF k \in DOMAIN slots
        THEN IF k = key THEN slots[k] \cup {slot} ELSE slots[k]
        ELSE {slot}]

Marked(slots, key, slot) == key \in DOMAIN slots /\ slot \in slots[key]

ObserveRecord(c, q) ==
    [c EXCEPT !.records = @ + 1, !.core = @ + (IF q.core THEN 1 ELSE 0)]

\* A second record of one instrument in one minute counts once.
ObserveOnGrid(c, q, slot) ==
    LET seen == [c EXCEPT
            !.raw = Mark(@, q.key, slot),
            !.rawMinutes = @ + (IF Marked(c.raw, q.key, slot) THEN 0 ELSE 1)]
    IN  IF ~q.core THEN seen
        ELSE [seen EXCEPT
            !.tradable = Mark(@, q.key, slot),
            !.coreMinutes = @ + (IF Marked(c.tradable, q.key, slot) THEN 0 ELSE 1),
            !.spreads = Append(@, q.spread)]

NewAudit == [records |-> 0, outside |-> 0, offGrid |-> 0, core |-> 0,
             populations |-> [l \in Labels |-> NoCoverage]]

Observe(audit, q, label) ==
    LET counted == [audit EXCEPT
            !.records = @ + 1,
            !.core = @ + (IF q.core THEN 1 ELSE 0),
            !.populations[label] = ObserveRecord(@, q)]
    IN  IF ~q.session THEN [counted EXCEPT !.outside = @ + 1]
        ELSE IF Slot(q.ts) = NoValue THEN [counted EXCEPT !.offGrid = @ + 1]
        ELSE [counted EXCEPT !.populations[label] = ObserveOnGrid(@, q, Slot(q.ts))]

InstrumentsIn(audit, label) == DOMAIN audit.populations[label].raw

\* Tradable slots of one instrument of the primary population.
PrimarySlots(audit, key) ==
    LET tradable == audit.populations[Primary].tradable
    IN  IF key \in DOMAIN tradable THEN tradable[key] ELSE {}

\* A block of the report: coverage over the declared universe when there is one.
CoverageBlock(slots, minutes, universeSize) ==
    LET contracts == IF universeSize = NoValue THEN Cardinality(DOMAIN slots)
                     ELSE universeSize
        missing == contracts * SlotCount - minutes
    IN  [present |-> minutes, expected |-> contracts * SlotCount,
         missing |-> IF missing < 0 THEN 0 ELSE missing]

-----------------------------------------------------------------------------
(* OptionCoverageAudit and StatisticsAudit.                                 *)

\* A strike is paired when its call and its put are tradable in one minute.
PairedStrikes(contracts, audit) ==
    LET quoted == InstrumentsIn(audit, Primary) \cap DOMAIN contracts
        Minutes(expiry, strike, right) ==
            UNION {PrimarySlots(audit, k) : k \in {j \in quoted :
                /\ contracts[j].expiry = expiry /\ contracts[j].strike = strike
                /\ contracts[j].right = right}}
        expiries == {contracts[k].expiry :
                        k \in {j \in quoted : PrimarySlots(audit, j) # {}}}
    IN  [e \in expiries |->
            Cardinality({s \in {contracts[k].strike : k \in quoted} :
                Minutes(e, s, "C") \cap Minutes(e, s, "P") # {}})]

ExpiriesWithPairs(paired, minimum) ==
    Cardinality({e \in DOMAIN paired : paired[e] >= minimum})

NoStatistics == [records |-> 0, repeats |-> 0, seen |-> {}]

StatisticIdentity(r) == <<r.key, r.type, r.ref, r.value, r.update>>

StatisticStep(audit, r, outright) ==
    LET repeat == \E s \in audit.seen : s.identity = StatisticIdentity(r)
    IN  [records |-> audit.records + 1,
         repeats |-> audit.repeats + (IF repeat THEN 1 ELSE 0),
         seen |-> IF repeat THEN audit.seen
                  ELSE audit.seen \cup {[identity |-> StatisticIdentity(r), type |-> r.type,
                                         key |-> r.key, outright |-> outright]}]

\* Distinct outright instruments with a statistic of one type.
OutrightInstruments(audit, type) ==
    {s.key : s \in {t \in audit.seen : t.type = type /\ t.outright = "outright"}}
=============================================================================
