------------------------------ MODULE MCHarvest ------------------------------
(***************************************************************************)
(* Instances of Harvest for TLC: grids of twenty intervals with a buffer of *)
(* two nodes and a window that leave nodes 2..17, an American put leg whose *)
(* exercise region is a prefix of the grid, and a European leg.  Of its 16  *)
(* candidates twelve are asked for: the step 15/11 is rounded down, and its *)
(* product with the last position falls short of 15.                        *)
(***************************************************************************)
EXTENDS HarvestVerify, TLC

MCLegs == {"put_american", "put_european"}
MCStyle == [l \in MCLegs |-> IF l = "put_american" THEN "american" ELSE "european"]
MCWeightings == {<<2, 1, 1>>, <<8, 1, 1>>, <<9, 9, 2>>}
MCWindow == 1..17
MCQuota == [continuation |-> 3, exercise |-> 1, numerically_indifferent |-> 1,
            no_obstacle |-> 12]

\* A put exercised up to node k, indifferent from node j, with some bad prices.
Put(k, j, bad) == [
    state |-> [n \in 0..20 |-> IF n <= k THEN "exercise"
                               ELSE IF n < j THEN "continuation"
                               ELSE "numerically_indifferent"],
    finite |-> 0..20 \ bad]
European(bad) == [state |-> [n \in 0..20 |-> "no_obstacle"], finite |-> 0..20 \ bad]

\* What a European contract never reports, at a node that could be chosen.
Alien == [European({}) EXCEPT !.state[3] = "continuation"]

MCNominal == [l \in MCLegs |-> IF l = "put_american" THEN Put(3, 21, {}) ELSE European({})]
MCReturns == [l \in MCLegs |->
    IF l = "put_american"
    THEN {Put(3, 21, {}), Put(1, 21, {4}), Put(2, 3, {})}
    ELSE {European({}), European({3}), Alien}]

\* Bound: plans of more groups than this are made but not executed, and of the
\* weightings, which assign three groups alike, only one is.
MaxExecuted == 3
Executed == pc = "execute" => Total <= MaxExecuted /\ weights = <<2, 1, 1>>

GroupSymmetry == Permutations(Groups)
=============================================================================
