------------------------------ MODULE MCLabels ------------------------------
(* Three cases: a regular European call, a regular American put with an     *)
(* anchor, and the non-gating stress case.  Their undisturbed solves pass   *)
(* every check: spot slope and volatility slope are constant, the stencil   *)
(* deltas 14, 10, 9 converge with order two.                                *)
EXTENDS LabelPolicy, TLC

MCCases ==
    {[name |-> "calm", classification |-> "regular", american |-> FALSE, call |-> TRUE,
      spot |-> 100, strike |-> 100],
     [name |-> "early", classification |-> "regular", american |-> TRUE, call |-> FALSE,
      spot |-> 100, strike |-> 105],
     [name |-> "stress", classification |-> "stress", american |-> TRUE, call |-> TRUE,
      spot |-> 100, strike |-> 100]}
MCRemediationCases == <<"early", "stress">>
MCConfirmationCases == <<"calm", "early", "stress">>
MCAnchorCases == {"early", "stress"}

VolatilityMove(role) ==
    CASE role = "down_h" -> -3 [] role = "up_h" -> 3 [] role = "down_2h" -> -6
      [] role = "up_2h" -> 6 [] role = "down_4h" -> -12 [] role = "up_4h" -> 12
      [] role = "control" -> -2 [] OTHER -> 0

MCMeasured ==
    [case \in MCCases |->
        LET sign == IF case.call THEN 1 ELSE -1
            slope(grid) == CASE grid = "probe" -> 14 [] grid = "candidate" -> 10 [] OTHER -> 9
        IN  [key \in RequiredKeys(case) |->
            [status |-> "discrete_system_converged", node |-> TRUE, bumpsNode |-> TRUE,
             planned |-> TRUE, finite |-> TRUE, price |-> 200 + VolatilityMove(key[2]),
             delta |-> sign * slope(key[1]), gamma |-> 1, greek |-> TRUE, regime |-> "continuation",
             residual |-> 1, step |-> 1,
             bumped |-> [b \in BumpedKeys(key) |->
                            200 + sign * 10 * b[1] * (IF b[2] = "up" THEN 1 ELSE -1)]]]]

On(grid, role, kind) == [key |-> <<grid, role>>, kind |-> kind]
MCDisturbances ==
    {On("candidate", "base", kind) : kind \in {"raised", "shifted", "no_delta", "wobbly"}}
    \cup {On("reference", "base", kind) : kind \in {"raised", "foreign", "biased"}}
    \cup {On("candidate", "control", "shifted"), On("probe", "base", "raised"),
          On("candidate", "up_h", "unconverged"), On("candidate", "up_h", "overflow"),
          On("anchor", "base", "raised"), On("candidate", "base", "off_node"),
          On("candidate", "base", "residual"), On("candidate", "control", "raised")}
DirectorySymmetry == Permutations(Directories)
=============================================================================
