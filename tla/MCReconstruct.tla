---------------------------- MODULE MCReconstruct ----------------------------
(***************************************************************************)
(* Two sessions of two snapshots.  Expiry 1 is the first session's own day, *)
(* expiry 2 the second's, expiry 4 is longer dated; strikes are 9 to 12.   *)
(* A scenario names the parity values of the European chain, the widths of  *)
(* its quotes, and one flaw.                                                *)
(***************************************************************************)
EXTENDS Reconstruct

MCSessions == {1, 2}
MCInstants == {3, 5}
MCPercents == <<10, 30>>
MCSpotVariants == {"bid", "ask", "mid"}
MCExDates == {2}
MCTenors == {5, 25}
MCContainment == Ratio(9, 10)
MCMaximumSpread == Ratio(1, 4)

Strikes == 9..12
MCExpiries == {1, 2, 4}

\* C - P at the four strikes: on one line, scattered, or rising.
Values == [straight |-> <<1, 0, -1, -2>>, scattered |-> <<3, 0, -1, -1>>,
           rising |-> <<0, 0, 1, 2>>]

\* The elements of a finite set, in some order.
Listing(S) == FoldSet(LAMBDA x, listed : Append(listed, x), <<>>, S)

Scenarios ==
    [values : {"straight", "scattered", "rising"}, width : {<<1, 1, 1, 1>>, <<1, 2, 1, 2>>},
     flaw : {"none"}]
    \cup {[values |-> "straight", width |-> <<1, 2, 1, 2>>, flaw |-> f] :
             f \in {"spot_missing", "twice_listed", "crossed_call", "locked", "no_pairs"}}

KeyOf(e, k, right) == e * 100 + k * 2 + (IF right = "C" THEN 0 ELSE 1)

DefinitionRows(sc) ==
    LET Row(e, k, right, key, standard) ==
            [key |-> key, effective |-> 1, action |-> "A", standard |-> standard,
             right |-> right, strike |-> k, expiry |-> e, style |-> FALSE,
             multiplier |-> (right = "C"), timed |-> FALSE]
        rows == {Row(e, k, r, KeyOf(e, k, r), TRUE) : e \in MCExpiries, k \in Strikes,
                                                     r \in {"C", "P"}}
        others == {Row(4, 9, "C", 997, FALSE)}
            \cup (IF sc.flaw = "twice_listed" THEN {Row(4, 9, "C", 998, TRUE)} ELSE {})
    IN  Listing(rows \cup others)

\* American calls are dearer by one the higher the strike.
QuoteRows(sc, session, american) ==
    LET Half(k) == sc.width[k - 8]
        Call(k, i) == 20 + Values[sc.values][k - 8] + (IF american THEN k - 9 + session ELSE 0)
                         + (IF i = 5 /\ k = 9 THEN 1 ELSE 0)
        Row(e, k, right, i) ==
            LET low == IF right = "C" THEN Call(k, i) ELSE 20
                spread == IF sc.flaw = "locked" /\ k = 10 THEN 0 ELSE Half(k)
            IN  [key |-> KeyOf(e, k, right), at |-> Instant(session, i), core |-> TRUE,
                 bid |-> IF sc.flaw = "crossed_call" /\ right = "C" /\ k = 9
                         THEN low + spread + 1 ELSE low,
                 ask |-> low + spread]
        twice == IF sc.flaw = "twice_listed"
                 THEN {[key |-> 998, at |-> Instant(session, i), core |-> TRUE,
                        bid |-> 20, ask |-> 21] : i \in MCInstants} ELSE {}
        rights == IF sc.flaw = "no_pairs" THEN {"C"} ELSE {"C", "P"}
    IN  Listing({Row(e, k, r, i) : e \in {x \in MCExpiries : x >= session}, k \in Strikes,
                                    r \in rights, i \in MCInstants} \cup twice)

UnderlyingRows(sc, session) ==
    Listing({[key |-> 1, at |-> Instant(session, i), bid |-> 30, ask |-> 32,
               core |-> ~(sc.flaw = "spot_missing" /\ session = 2 /\ i = 5)] : i \in MCInstants})

Outrights == <<[key |-> 1, outright |-> TRUE], [key |-> 2, outright |-> FALSE]>>
StatisticRows == <<[key |-> 1, type |-> "settlement", price |-> 95, repeat |-> FALSE],
                   [key |-> 1, type |-> "settlement", price |-> 96, repeat |-> FALSE],
                   [key |-> 2, type |-> "settlement", price |-> 90, repeat |-> FALSE]>>

Archive(sc) ==
    [slot \in Slots |->
        CASE slot[3] = "statistics" -> StatisticRows
          [] slot[2] = "futures" /\ slot[3] = "definition" -> Outrights
          [] slot[2] = "underlying" -> UnderlyingRows(sc, slot[1])
          [] slot[3] = "definition" /\ slot[2] # "futures" -> DefinitionRows(sc)
          [] OTHER -> QuoteRows(sc, slot[1], slot[2] = "american")]

MCArchives == [sc \in Scenarios |-> Archive(sc)]
MCReingested == {[values |-> "straight", width |-> <<1, 1, 1, 1>>, flaw |-> "none"]}
MCProbes == {[dividend |-> "absent", borrow |-> "present"]}
=============================================================================
