---------------------------- MODULE MCPublication ----------------------------
(***************************************************************************)
(* The two publications of the repository, instantiated for TLC: a harvest  *)
(* that replaces its files atomically, and a generated dataset written in   *)
(* place.  They share no file and no process, so a behaviour is one of      *)
(* either, chosen at the start.  Two of the three harvests share their rows,*)
(* as two runs of one configuration under different names do.               *)
(***************************************************************************)
EXTENDS Publication, Dataset

CONSTANTS p1, p2, r1, reportA, reportB, reportC, rowsAB, rowsC, g1, g2, g3

VARIABLE published   \* "harvest" or "dataset"

TwoPublishers == {p1, p2}
OneReader == {r1}
SecondOverwrites == {p2}
ThreeHarvests == {[report |-> reportA, rows |-> rowsAB],
                  [report |-> reportB, rows |-> rowsAB],
                  [report |-> reportC, rows |-> rowsC]}

ThreeGenerators == {g1, g2, g3}
LaterOverwrite == {g2, g3}
SpotAndRate == {"spot", "rate"}
SpotOnly == {"spot"}

\* One configuration and four variations of it: another seed, one more test row,
\* an empty domain, and a validation partition the oracle rejects.
Configuration ==
    [wellFormed |-> TRUE, seed |-> 1, rows |-> [s \in Splits |-> 1],
     domain |-> [f \in SpotAndRate |-> IF f = "spot" THEN <<1, 2>> ELSE <<-1, 1>>],
     unpriced |-> {}]
Configurations ==
    {Configuration,
     [Configuration EXCEPT !.seed = 2],
     [Configuration EXCEPT !.rows["interpolation_test"] = 2],
     [Configuration EXCEPT !.domain["spot"] = <<1, 1>>],
     [Configuration EXCEPT !.seed = 3, !.unpriced = {"validation"}]}

MCInit ==
    /\ published \in {"harvest", "dataset"}
    /\ Init
    /\ DatasetInit
    /\ published = "harvest" => document = [g \in Generators |-> Configuration]
    /\ published = "dataset" => harvest = [p \in Publishers |-> CHOOSE h \in Harvests : TRUE]

MCNext ==
    /\ UNCHANGED published
    /\ \/ published = "harvest" /\ Next /\ UNCHANGED datasetVars
       \/ published = "dataset" /\ DatasetNext /\ UNCHANGED vars

MCSpec == MCInit /\ [][MCNext]_<<published, vars, datasetVars>>

\* Two generators at once, two generations during one phase and a partition
\* replaced between hashing and opening are not explored further: the property
\* promises nothing after them.
Undisturbed == ~(overlapped \/ crowded \/ swapped)
=============================================================================
