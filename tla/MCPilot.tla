------------------------------- MODULE MCPilot -------------------------------
(***************************************************************************)
(* Instances of Pilot and of its frozen result for TLC: two processes on one*)
(* project directory, with every publication fault (safety) or with none    *)
(* (liveness), running any of twelve studies of four rows each, one for     *)
(* every way a study can end.                                               *)
(***************************************************************************)
EXTENDS PilotFreeze

CONSTANTS o1, o2

TwoOperators == {o1, o2}

NoFaults == {}
AllFaults == {"lost", "late"}
EverythingAlters == Pinned \cup {"partition"}

-----------------------------------------------------------------------------
(* The rows of the two partitions.                                          *)

MakeRow(n, call, spot, strike, scale, european, premium, earliest, volatility) ==
    [id |-> n, stratum |-> "body", rank |-> (3 * n) % 5, call |-> call, spot |-> spot,
     strike |-> strike, upper |-> strike, scale |-> scale, european |-> european,
     american |-> european + premium, premium |-> premium, earliest |-> earliest,
     expiry |-> n, moneyness |-> spot - strike, volatility |-> volatility]

ValidationRows == <<MakeRow(1, TRUE, 20, 20, 1, 3, 0, -1, 3),
                    MakeRow(2, TRUE, 22, 20, 2, 4, 1, 4, 5),
                    MakeRow(3, FALSE, 20, 22, 1, 3, 1, 2, 3),
                    MakeRow(4, FALSE, 24, 20, 2, 1, 0, -1, 7)>>
FinalRows == <<MakeRow(6, FALSE, 20, 22, 1, 3, 2, 1, 4),
               MakeRow(7, TRUE, 22, 20, 2, 5, 0, -1, 6),
               MakeRow(8, TRUE, 18, 20, 1, 1, 0, -1, 2),
               MakeRow(9, FALSE, 21, 20, 2, 1, 1, 3, 5)>>

Curve(slope) == [v \in 0..8 |-> 2 + slope * v]

Loose == [rmse |-> 2, p99 |-> 4, largest |-> 4, bound |-> 0, shape |-> 0]

SmallProtocol ==
    [unit |-> 2, tolerance |-> 1, failuresMax |-> 0,
     edges |-> [expiry |-> <<2, 7>>, moneyness |-> <<0>>, volatility |-> <<4>>],
     spotBump |-> 2, spotDomain |-> <<16, 25>>, moneynessDomain |-> <<-4, 4>>,
     volBump |-> 1, volDomain |-> <<2, 7>>,
     limits |-> [validation_final_entry |-> [Loose EXCEPT !.largest = 3],
                 final_accuracy |-> Loose],
     cases |-> <<ValidationRows[2], ValidationRows[4]>>,
     grids |-> <<[factor |-> 3, intervals |-> 10], [factor |-> 3, intervals |-> 20]>>,
     psorMaximum |-> 5, psorTolerance |-> 1, refinementMax |-> 2, agreementMax |-> 2,
     liftMax |-> 0,
     shapes |-> {"single", "batch"}, depths |-> {8, 16}, referenceDepth |-> 16,
     warmups |-> 1, repetitions |-> 3, minimumSpeedup |-> 10000,
     ivCases |-> <<[curve |-> Curve(1), volatility |-> 3],
                   [curve |-> Curve(2), volatility |-> 6]>>,
     bracket |-> <<0, 8>>, priceTolerance |-> 0, volTolerance |-> 1,
     maximumIterations |-> 4, maximumIvError |-> 1]

PilotProtocol == SmallProtocol

-----------------------------------------------------------------------------
(* The studies: a promising one, and what every other answers differently.  *)

\* An arm that is off by errors[i] at row i, and well shaped around it.
Answers(rows, errors) ==
    [i \in DOMAIN rows |->
        LET centre == rows[i].american + errors[i]
            slope == IF rows[i].call THEN 1 ELSE -1
        IN  [centre |-> centre, down |-> centre - slope, up |-> centre + slope,
             volDown |-> centre - 1, volUp |-> centre + 1]]
Kinked(answers) == [answers EXCEPT ![2].down = @ + 4]

Near == <<1, 1, 0, 2>>
Nearer == <<0, 1, 0, 1>>
Farther == <<1, 2, 1, 0>>
Off == <<3, 0, 0, 0>>

\* A sound solve of a pinned case on a grid; the fine one prices the label.
Solve(c, g, price) ==
    LET case == SmallProtocol.cases[c]
        grid == AlignedGrid(case, SmallProtocol.grids[g])
    IN  [converged |-> TRUE, index |-> grid.index, intervals |-> grid.intervals,
         halves |-> 2, crank |-> 3, linear |-> 0, psor |-> 5, iterations |-> 7, most |-> 2,
         residual |-> 0, price |-> price]
Solves == [c \in 1..2 |->
            <<Solve(c, 1, SmallProtocol.cases[c].american - 1),
              Solve(c, 2, SmallProtocol.cases[c].american)>>]

\* The lattice takes 60, 50 or 45 ticks after the warm-up; an arm takes ticks.
Readings(ticks) ==
    [cell \in Cells |-> [operation \in {"crr", "scratch", "transfer"} |->
        IF operation = "crr" THEN <<99, 60, 50, 45>> ELSE <<50, ticks, ticks, ticks>>]]

Quotes(first, second) == <<[arm \in Arms |-> first], [arm \in Arms |-> second]>>

Promising ==
    [admitted |-> TRUE, validationRows |-> ValidationRows, finalRows |-> FinalRows,
     solves |-> Solves, probes |-> <<[source |-> 4, lifted |-> 4], [source |-> 7, lifted |-> 7]>>,
     validation |-> [scratch |-> Answers(ValidationRows, Near),
                     transfer |-> Answers(ValidationRows, Nearer)],
     final |-> [scratch |-> Answers(FinalRows, Near), transfer |-> Answers(FinalRows, Nearer)],
     readings |-> Readings(5), quotes |-> Quotes(6, 13)]

ValidatedBy(arm, answers) == [Promising EXCEPT !.validation[arm] = answers]

StudiesOfFourRows ==
    [promising |-> Promising,
     slow |-> [Promising EXCEPT !.readings = Readings(6)],
     imprecise |-> [Promising EXCEPT !.quotes = Quotes(6, 4)],
     negative |-> ValidatedBy("transfer", Answers(ValidationRows, Farther)),
     kinked |-> ValidatedBy("scratch", Kinked(Answers(ValidationRows, Near))),
     untaught |-> [Promising EXCEPT !.validation = [arm \in Arms |-> Answers(ValidationRows, Off)]],
     unrepeated |-> [Promising EXCEPT !.final["transfer"] = Answers(FinalRows, Off)],
     unbracketed |-> [Promising EXCEPT !.quotes = Quotes(50, 13)],
     inadmissible |-> [Promising EXCEPT !.admitted = FALSE],
     divergent |-> [Promising EXCEPT !.solves[1][2].price = @ + 3],
     unsolved |-> [Promising EXCEPT !.solves[2][1].converged = FALSE],
     unlifted |-> [Promising EXCEPT !.probes[2].lifted = 8]]

TwelveStudies == StudiesOfFourRows
=============================================================================
