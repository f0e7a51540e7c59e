----------------------------- MODULE LabelPolicy -----------------------------
(***************************************************************************)
(* The two stages of the second label policy and the freezing of a result:  *)
(* main, run_stage and write_outputs of american/pde_label_policy_v2.py and *)
(* main of scripts/freeze_pde_label_policy_v2_results.py.  One command runs *)
(* at a time; it may be killed between any two writes.  A report on disk is *)
(* kept as what determines it: the stage, the digests of the sources, what  *)
(* went wrong with each case's solves, and how the file was edited since.   *)
(***************************************************************************)
EXTENDS LabelReport

CONSTANTS Directories,
          Disturbances,     \* [key, kind] records: what may go wrong in a case
          Measured,         \* the undisturbed solves of each case
          MaxStarts,
          MaxFaults         \* disturbances, kills, edits of a file or of the sources

VARIABLES sources,      \* version of the executable sources on disk
          run,          \* the command in progress
          dirs,         \* files of each output directory
          snapshot,     \* the frozen result
          starts, faults
vars == <<sources, run, dirs, snapshot, starts, faults>>

Clean == [key |-> NoValue, kind |-> "clean"]
Files == <<"report.json", "cases.csv", "eligibility.csv", "failures.csv">>
NoFiles == [file \in Range(Files) |-> NoValue]
Idle == [pc |-> "idle", stage |-> NoValue, dir |-> NoValue, done |-> <<>>,
         report |-> NoValue, next |-> 1]

-----------------------------------------------------------------------------
(* What a payload stands for.                                               *)

\* A surface solve as it is published for a key of the plan.
SolvesOf(key) ==
    [status : SolverStatuses, node : BOOLEAN, bumpsNode : BOOLEAN, planned : BOOLEAN,
     finite : BOOLEAN, price : Int, delta : Int \cup {NoValue}, gamma : Int \cup {NoValue},
     greek : BOOLEAN, regime : ExerciseStates, residual : Nat, step : Nat,
     bumped : [BumpedKeys(key) -> Int]]

\* Every key of a case's plan was measured; a missing value is nothing else.
ASSUME MeasuredAssumption ==
    /\ NoValue \notin Int /\ NoValue \notin Policies \cup Stages
    /\ NoValue \notin Grids \X ({"base", "control"} \cup VolatilityRoles)
    /\ \A case \in Cases :
        /\ DOMAIN Measured[case] = RequiredKeys(case)
        /\ \A key \in RequiredKeys(case) : Measured[case][key] \in SolvesOf(key)

Kinds == {"raised", "shifted", "residual", "kinked", "foreign", "unconverged", "overflow",
          "no_delta", "off_node", "biased", "wobbly"}

\* A disturbance goes by the solve it hits and what it does to it.
ASSUME DisturbancesAssumption ==
    \A disturbance \in Disturbances :
        /\ disturbance = [key |-> disturbance.key, kind |-> disturbance.kind]
        /\ disturbance.kind \in Kinds

\* A price moved too far, and bumps whose slopes disagree.
Shift == 20
Wobble(b) == CASE b = <<1, "up">> -> 7 [] b = <<2, "up">> -> 8 [] b = <<4, "up">> -> 16
               [] OTHER -> 0
Spoilt(solve, kind) ==
    CASE kind = "shifted" -> [solve EXCEPT !.price = @ + Shift]
      [] kind = "residual" -> [solve EXCEPT !.residual = PriceCap + 1]
      [] kind = "kinked" -> [solve EXCEPT !.greek = FALSE, !.regime = "exercise"]
      [] kind = "foreign" -> [solve EXCEPT !.planned = FALSE]
      [] kind = "unconverged" -> [solve EXCEPT !.status = "psor_iteration_limit_exceeded"]
      [] kind = "overflow" -> [solve EXCEPT !.finite = FALSE]
      [] kind = "no_delta" -> [solve EXCEPT !.delta = NoValue]
      [] kind = "off_node" -> [solve EXCEPT !.node = FALSE]
      [] kind = "biased" -> [solve EXCEPT !.bumped = [b \in DOMAIN @ |-> IF b[2] = "up" THEN @[b] + 7 ELSE @[b]]]
      [] kind = "wobbly" -> [solve EXCEPT !.bumped = [b \in DOMAIN @ |-> @[b] + Wobble(b)]]

\* Undisturbed, a regular case passes; a shift is beyond what any price check allows.
ASSUME UndisturbedAssumption ==
    /\ 2 * PriceCap < Shift
    /\ \A case \in {c \in Cases : c.classification = "regular"} :
        LET candidate == Measured[case][<<"candidate", "base">>]
            control == Measured[case][<<"candidate", "control">>]
        IN  /\ EvaluateCase(case, Measured[case], <<>>).passes
            /\ case.american => ~WithinShape(candidate.price - control.price - Shift,
                                             candidate.residual + control.residual)

\* Every solve of the plan is attempted; one that raises is a failure.
CollectCaseSolves(case, disturbance) ==
    LET clean == Measured[case]
        key == disturbance.key
    IN  CASE disturbance.kind = "clean" -> [solves |-> clean, failures |-> <<>>]
          [] disturbance.kind = "raised" ->
                [solves |-> [k \in DOMAIN clean \ {key} |-> clean[k]],
                 failures |-> [k \in {key} |-> SolveCriticality(case, key)]]
          [] OTHER -> [solves |-> [clean EXCEPT ![key] = Spoilt(@, disturbance.kind)],
                       failures |-> <<>>]

Collected(stage, done) ==
    [i \in DOMAIN done |->
        LET case == CaseNamed(StageCases(stage)[i])
            collected == CollectCaseSolves(case, done[i])
        IN  EvaluateCase(case, collected.solves, collected.failures)]

Genuine(payload) == BuildReport(payload.stage, payload.sources, Collected(payload.stage, payload.done))

\* One published value changed by hand, the raw solve records left alone.
Edits == {"flip_pass", "all_pass", "pending", "drop_failure", "forget_problem",
          "recount", "relabel", "eligible"}

Edited(report, edit) ==
    LET first == report.rows[1]
        failed == DOMAIN first.failures
        OnFirst(row) == [report EXCEPT !.rows[1] = row]
    IN  CASE edit = "none" -> report
          [] edit = "flip_pass" -> OnFirst([first EXCEPT !.passes = ~@])
          [] edit = "all_pass" -> [report EXCEPT !.outcome.failures = {}, !.outcome.all_pass = TRUE]
          [] edit = "pending" -> [report EXCEPT !.lifecycle = LifecycleBlock("remediation", TRUE)]
          [] edit = "drop_failure" -> OnFirst([first EXCEPT !.failures = <<>>])
          [] edit = "forget_problem" -> OnFirst([first EXCEPT !.problems = [key \in DOMAIN @ |-> {}]])
          [] edit = "recount" -> [report EXCEPT !.accounting.exceptions = 0]
          [] edit = "relabel" -> OnFirst([first EXCEPT !.failures = [key \in failed |-> "delta_only"]])
          [] edit = "eligible" -> OnFirst([first EXCEPT !.delta = [p \in DOMAIN @ |-> TRUE]])

Content(payload) == Edited(Genuine(payload), payload.edit)

\* json refuses a value that is not finite, so nothing is published.
Serializable(payload) ==
    \A disturbance \in Range(payload.done) : disturbance.kind # "overflow"

-----------------------------------------------------------------------------
Init ==
    /\ sources = 1 /\ run = Idle /\ snapshot = NoValue
    /\ dirs = [dir \in Directories |-> [files |-> NoFiles, litter |-> FALSE]]
    /\ starts = 0 /\ faults = 0

Fault == faults < MaxFaults /\ faults' = faults + 1

Empty(dir) == dirs[dir] = [files |-> NoFiles, litter |-> FALSE]

\* main: an empty directory, and for a confirmation a remediation report
\* that, recomputed from its raw records, is passed and pending.
Start(stage, dir, previous) ==
    /\ run.pc = "idle" /\ starts < MaxStarts
    /\ Empty(dir)
    /\ IF stage = "confirmation"
       THEN /\ previous # NoValue
            /\ dirs[previous].files["report.json"] # NoValue
            /\ OpensConfirmation(Content(dirs[previous].files["report.json"]), sources)
       ELSE previous = NoValue
    /\ run' = [Idle EXCEPT !.pc = "solving", !.stage = stage, !.dir = dir]
    /\ starts' = starts + 1
    /\ UNCHANGED <<sources, dirs, snapshot, faults>>

\* One case of the stage: every solve of its plan, then evaluate_case.
Collect(disturbance) ==
    LET case == CaseNamed(StageCases(run.stage)[Len(run.done) + 1])
    IN  /\ run.pc = "solving" /\ Len(run.done) < Len(StageCases(run.stage))
        /\ IF disturbance = Clean THEN faults' = faults
           ELSE Fault /\ disturbance.key \in RequiredKeys(case)
        /\ run' = [run EXCEPT !.done = Append(@, disturbance)]
        /\ UNCHANGED <<sources, dirs, snapshot, starts>>

\* build_report digests the sources as they are once every case is solved.
Finish ==
    LET payload == [stage |-> run.stage, sources |-> sources, done |-> run.done, edit |-> "none"]
    IN  /\ run.pc = "solving" /\ Len(run.done) = Len(StageCases(run.stage))
        /\ run' = IF Serializable(payload)
                  THEN [run EXCEPT !.pc = "writing", !.report = payload] ELSE Idle
        /\ UNCHANGED <<sources, dirs, snapshot, starts, faults>>


AfterFile == IF run.next = Len(Files) THEN Idle ELSE [run EXCEPT !.next = @ + 1]

\* write_outputs: the files one at a time, each renamed into place.
PublishFile ==
    LET file == Files[run.next]
    IN  /\ run.pc = "writing"
        /\ IF dirs[run.dir].files[file] # NoValue
           THEN run' = Idle /\ dirs' = dirs
           ELSE /\ dirs' = [dirs EXCEPT ![run.dir].files[file] = run.report]
                /\ run' = AfterFile
        /\ UNCHANGED <<sources, snapshot, starts, faults>>

\* The process dies between two writes, or inside one, when its temporary
\* file stays behind.  Before the first write it leaves nothing at all.
Kill(litter) ==
    /\ run.pc = "writing" /\ Fault
    /\ dirs' = [dirs EXCEPT ![run.dir].litter = @ \/ litter]
    /\ run' = Idle
    /\ UNCHANGED <<sources, snapshot, starts>>

\* While files are written nothing reads the sources.
EditSources ==
    /\ run.pc # "writing"
    /\ Fault /\ sources' = sources + 1
    /\ UNCHANGED <<run, dirs, snapshot, starts>>

EditReport(dir) ==
    LET payload == dirs[dir].files["report.json"]
        report == Genuine(payload)
    IN  /\ run.pc = "idle" /\ Fault
        /\ payload # NoValue /\ payload.edit = "none"
        /\ \E edit \in {e \in Edits : Edited(report, e) # report} :
              dirs' = [dirs EXCEPT ![dir].files["report.json"].edit = edit]
        /\ UNCHANGED <<sources, run, snapshot, starts>>

\* The freeze tool, --extract, with --update when there is a snapshot.
Extract(dir) ==
    LET payload == dirs[dir].files["report.json"]
        report == Content(payload)
    IN  /\ run.pc = "idle" /\ payload \notin {NoValue, snapshot}
        /\ Freezable(report, sources)
        /\ ValidSnapshot(SnapshotOf(report), sources)
        /\ snapshot' = payload
        /\ UNCHANGED <<sources, run, dirs, starts, faults>>

Next ==
    \/ \E stage \in Stages, dir \in Directories, previous \in Directories \cup {NoValue} :
          Start(stage, dir, previous)
    \/ \E disturbance \in Disturbances \cup {Clean} : Collect(disturbance)
    \/ Finish
    \/ PublishFile
    \/ \E litter \in BOOLEAN : Kill(litter)
    \/ EditSources
    \/ \E dir \in Directories : EditReport(dir)
    \/ \E dir \in Directories : Extract(dir)

LabelSpec == Init /\ [][Next]_vars

-----------------------------------------------------------------------------
(* Properties.                                                              *)


\* Every report on disk is whole: one disturbance, or none, per case of the
\* stage it says it is of; a run writes only into the directory it was given.
LabelTypeOK ==
    /\ sources \in 1..MaxFaults + 1 /\ faults \in 0..MaxFaults /\ starts \in 0..MaxStarts
    /\ run.pc \in {"idle", "solving", "writing"} /\ run.next \in 1..Len(Files)
    /\ run.pc # "idle" => /\ run.stage \in Stages /\ run.dir \in Directories
                          /\ Len(run.done) <= Len(StageCases(run.stage))
    /\ \A dir \in Directories, file \in Range(Files) :
          LET payload == dirs[dir].files[file]
          IN  payload # NoValue => /\ payload.stage \in Stages
                                   /\ Len(payload.done) = Len(StageCases(payload.stage))
                                   /\ payload.edit \in Edits \cup {"none"}

Reports == {dirs[dir].files["report.json"] : dir \in Directories} \ {NoValue}
Resting == run.pc = "idle"

\* A report that was just built and is about to be published.
Built == IF run.pc = "writing" /\ run.next = 1 THEN {run.report} ELSE {}

\* verify_stage_report accepts exactly the reports nobody touched: what a
\* stage publishes is always accepted while the sources stand, and no change
\* to one published figure, status or failure survives the recomputation.
OnlyGenuineVerifies ==
    [][Reports' # Reports \/ sources' # sources =>
        \A payload \in Reports' :
            VerifiedReport(Content(payload), sources')
                <=> payload.edit = "none" /\ payload.sources = sources']_vars

\* "passes" says nothing of delta, vega or the anchor: remove every solve and
\* every failure that only those need and no regular case changes its verdict.
PriceKeys == {<<"candidate", "base">>, <<"candidate", "control">>, <<"reference", "base">>}
GreekFailuresNeverVeto ==
    \A payload \in Built :
        \A row \in Range(Genuine(payload).rows) :
            LET Only(f) == [key \in DOMAIN f \cap PriceKeys |-> f[key]]
            IN  row.gating => row.passes = EvaluateCase(CaseNamed(row.name), Only(row.solves),
                                                        Only(row.failures)).passes

\* A policy is selected by a confirmation exactly when no regular case met
\* anything that touches its price: stress cases, probes, volatility bumps,
\* anchors and Greek-only trouble never decide.
TouchesPrice(stage, i, disturbance) ==
    /\ CaseNamed(StageCases(stage)[i]).classification = "regular"
    /\ disturbance.key \in PriceKeys
    /\ disturbance.kind \notin {"kinked", "biased", "wobbly"}
    /\ disturbance.kind = "no_delta" => disturbance.key = <<"candidate", "base">>
SelectionIsExact ==
    \A payload \in Built :
        LET sound == \A i \in DOMAIN payload.done : ~TouchesPrice(payload.stage, i, payload.done[i])
            lifecycle == Genuine(payload).lifecycle
        IN  /\ lifecycle.selected = "candidate" <=> payload.stage = "confirmation" /\ sound
            /\ lifecycle.confirmation = "pending" <=> payload.stage = "remediation" /\ sound

\* An eligible delta is within its cap of the reference even after the
\* movement between its two smallest bumps is added to the difference.
EligibleGreeksCovered ==
    \A payload \in Built :
        \A row \in Range(Genuine(payload).rows) :
            AllHold(row.delta) =>
                LET candidate == row.solves[<<"candidate", "base">>]
                    reference == row.solves[<<"reference", "base">>]
                IN  Size(BumpDelta(candidate, 1) - BumpDelta(reference, 1))
                    + Size(BumpDelta(candidate, 1) - BumpDelta(candidate, 2)) <= 8 * DeltaCap

\* A confirmation starts only behind a remediation that really passed, with
\* the sources that are still there, whatever was edited into its report.
ConfirmationIsEarned ==
    [][run.pc = "idle" /\ run'.stage = "confirmation" =>
        \E payload \in Reports :
            /\ payload.stage = "remediation" /\ payload.edit = "none"
            /\ payload.sources = sources
            /\ \A i \in DOMAIN payload.done : ~TouchesPrice("remediation", i, payload.done[i])]_vars

\* The frozen result is an untouched report of a stage that ended the study:
\* a confirmation, or a remediation that failed.
FrozenIsFinal ==
    snapshot # NoValue =>
        /\ snapshot.edit = "none"
        /\ snapshot.stage = "remediation" =>
              \E i \in DOMAIN snapshot.done : TouchesPrice("remediation", i, snapshot.done[i])

\* The contract's lifecycle table: a confirmation, and a remediation that
\* failed, is freezable.  Every report the freeze tool takes for verified,
\* terminal and freezable yields a snapshot it accepts.
FreezableIsFrozen ==
    Resting => \A payload \in Reports :
        Freezable(Content(payload), sources)
            => ValidSnapshot(SnapshotOf(Content(payload)), sources)
=============================================================================
