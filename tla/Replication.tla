----------------------------- MODULE Replication -----------------------------
(***************************************************************************)
(* The audit-ledger runner of the European replication,                     *)
(* src/scripts/run_european_replication.py.  An operator process executes   *)
(* five stages as child processes, each recorded in the ledger before and   *)
(* after, then (in a later invocation) the locked final evaluation.  The    *)
(* final attempt is reserved in the ledger alone: no lock, no marker file.  *)
(*                                                                          *)
(* A process may be killed while its child lives on, a ledger write may     *)
(* fail before or after os.replace, and commit, recorded outputs or the     *)
(* acceptance configuration may change under the runner.                    *)
(***************************************************************************)
EXTENDS Naturals

CONSTANTS
    Operators,   \* processes that invoke the runner
    Faults,      \* ways a ledger write may go wrong, a subset of {"lost", "late"}
    Alterable    \* what may change: a subset of Inputs

Inputs == {"commit", "outputs", "acceptance"}

ASSUME FaultsAssumption == Faults \subseteq {"lost", "late"}
ASSUME AlterableAssumption == Alterable \subseteq Inputs

VARIABLES
    runDir,      \* runs/<name>/ exists
    ledger,      \* execution.json
    made,        \* stages whose output exists
    merit,       \* whether the two reports meet the gates that were locked
    drift,       \* inputs that changed since they were validated
    pc, mem,     \* each process: next call, in-memory ledger
    child,       \* each process: the stage subprocess it launched
    accesses     \* history: evaluators that opened the locked partition

disk == <<runDir, ledger, made, merit>>
vars == <<disk, drift, pc, mem, child, accesses>>

-----------------------------------------------------------------------------
\* generate_dataset, diagnose_dataset, train_model, constrain_artifact and
\* evaluate_validation are commands 1 to 5; evaluate_locked_final is the sixth.
Validation == 5
Final == 6
Stages == 1..Final

\* "<stage>_started" and "<stage>_completed" are "started" and "completed" with
\* commands = the stage.
Statuses ==
    {"none", "prepared", "started", "completed", "command_failed",
     "execution_failed", "ready_for_final", "validation_gates_failed",
     "final_evaluation_reserved", "final_evaluation_failed",
     "replication_passed", "final_gates_failed"}

Verdicts == {"none", "passed", "failed"}

Ledgers ==
    [status   : Statuses,
     commands : 0..Final,     \* length of the command log
     attempts : 0..1,
     gates    : Verdicts,     \* validation_acceptance
     final    : Verdicts]     \* final_acceptance

NoLedger == [status |-> "none", commands |-> 0, attempts |-> 0,
             gates |-> "none", final |-> "none"]

NoChild == [stage |-> 0, state |-> "none"]
Children == [stage : 0..Final, state : {"none", "running", "reading", "ok", "failed"}]

\* _write_state takes effect ("ok"), raises before os.replace ("lost") or after
\* it, from the fsync of the directory ("late").
Outcomes == {"ok"} \cup Faults
Published(o) == o # "lost"

Locations ==
    {"idle", "reserve", "prepare", "launch", "wait", "collect", "record_gates",
     "verify", "reserve_attempt", "assess", "record_final", "handler"}

Init ==
    /\ runDir = FALSE
    /\ ledger = NoLedger
    /\ made = {}
    /\ merit = [r \in {Validation, Final} |-> FALSE]
    /\ drift = {}
    /\ pc = [p \in Operators |-> "idle"]
    /\ mem = [p \in Operators |-> NoLedger]
    /\ child = [p \in Operators |-> NoChild]
    /\ accesses = 0

Goto(p, l) == pc' = [pc EXCEPT ![p] = l]

Exit(p) == Goto(p, "idle") /\ mem' = [mem EXCEPT ![p] = NoLedger]

\* _write_state of ledger l by p: continue at onOk, or raise to onError.
Write(p, l, onOk, onError) ==
    \E o \in Outcomes :
        /\ ledger' = IF Published(o) THEN l ELSE ledger
        /\ LET next == IF o = "ok" THEN onOk ELSE onError
           IN /\ Goto(p, next)
              /\ mem' = [mem EXCEPT ![p] = IF next = "idle" THEN NoLedger ELSE l]

-----------------------------------------------------------------------------
(* The decisions and records the actions below are made of.  A definition that
   precedes another and is used by no action is a plausible bug of the second:
   the properties must notice when it takes its place. *)

\* mkdir(exist_ok=False) refuses a directory that exists.
RunDirTakenIgnored == FALSE
RunDirTaken == runDir

\* The return code of a stage decides.
SucceededIgnored(c) == TRUE
Succeeded(c) == c.state = "ok"

\* assess_acceptance of report r: exact under the locked configuration, anything
\* if the re-read configuration is no longer the one that was validated.
AssessmentsOfValidation(r) == {merit[Validation]}
Assessments(r) == IF "acceptance" \in drift THEN BOOLEAN ELSE {merit[r]}

\* What the except BaseException blocks relabel the in-memory ledger to.
FailureStatusKept(l) == l.status
FailureStatus(l) ==
    IF l.attempts = 1 THEN "final_evaluation_failed" ELSE "execution_failed"

\* The ledger that final_evaluate accepts.
AdmitsRepeatedly(l) == l.gates = "passed"
Admits(l) == l.status = "ready_for_final" /\ l.attempts = 0

Reserved(l) == [l EXCEPT !.attempts = 1, !.status = "final_evaluation_reserved"]

-----------------------------------------------------------------------------
(* run_to_validation *)

\* Protocol validation, _refuse_existing_outputs and the repository evidence.
StartValidation(p) ==
    /\ pc[p] = "idle"
    /\ child[p] = NoChild
    /\ ~runDir
    /\ made = {}
    /\ Goto(p, "reserve")
    /\ UNCHANGED <<disk, drift, mem, child, accesses>>

\* state_path.parent.mkdir(exist_ok=False)
ReserveRun(p) ==
    /\ pc[p] = "reserve"
    /\ IF RunDirTaken
       THEN Exit(p)
       ELSE /\ Goto(p, "prepare")
            /\ mem' = [mem EXCEPT ![p].status = "prepared"]
    /\ runDir' = TRUE
    /\ UNCHANGED <<ledger, made, merit, drift, child, accesses>>

\* The first ledger write, outside the try block.
WritePrepared(p) ==
    /\ pc[p] = "prepare"
    /\ Write(p, mem[p], "launch", "idle")
    /\ UNCHANGED <<runDir, made, merit, drift, child, accesses>>

\* _record_command, up to the subprocess: append the command, mark the stage
\* started, write; spawning may itself fail.
Launch(p) ==
    /\ pc[p] = "launch"
    /\ LET next == IF mem[p].attempts = 1 THEN Final ELSE mem[p].commands + 1
           started == [mem[p] EXCEPT !.commands = next, !.status = "started"]
       IN \E spawned \in BOOLEAN :
            /\ Write(p, started, IF spawned THEN "wait" ELSE "handler", "handler")
            /\ child' = IF pc'[p] = "wait"
                        THEN [child EXCEPT ![p] = [stage |-> next, state |-> "running"]]
                        ELSE child
    /\ UNCHANGED <<runDir, made, merit, drift, accesses>>

\* _record_command, after the subprocess.  A failed command is recorded and
\* raised; the callers' handlers leave that status alone.
Reap(p) ==
    /\ pc[p] = "wait"
    /\ child[p].state \in {"ok", "failed"}
    /\ child' = [child EXCEPT ![p] = NoChild]
    /\ IF Succeeded(child[p])
       THEN Write(p, [mem[p] EXCEPT !.status = "completed"],
                  CASE mem[p].commands < Validation -> "launch"
                    [] mem[p].commands = Validation -> "collect"
                    [] OTHER -> "assess",
                  "handler")
       ELSE Write(p, [mem[p] EXCEPT !.status = "command_failed"], "idle", "idle")
    /\ UNCHANGED <<runDir, made, merit, drift, accesses>>

\* Ctrl-C while waiting: subprocess.run kills the child and re-raises.
Interrupt(p) ==
    /\ pc[p] = "wait"
    /\ child' = [child EXCEPT ![p] = NoChild]
    /\ Goto(p, "handler")
    /\ UNCHANGED <<disk, drift, mem, accesses>>

\* Lineage and digest checks over the five outputs, then the gates.
CollectOutputs(p) ==
    /\ pc[p] = "collect"
    /\ 1..Validation \subseteq made
    /\ \E passed \in Assessments(Validation) :
         mem' = [mem EXCEPT
                   ![p].gates = IF passed THEN "passed" ELSE "failed",
                   ![p].status = IF passed THEN "ready_for_final"
                                 ELSE "validation_gates_failed"]
    /\ Goto(p, "record_gates")
    /\ UNCHANGED <<disk, drift, child, accesses>>

\* A check, a report field or a file read raises, before or after final.
CheckRaises(p) ==
    /\ pc[p] \in {"collect", "assess"}
    /\ Goto(p, "handler")
    /\ UNCHANGED <<disk, drift, mem, child, accesses>>

RecordGates(p) ==
    /\ pc[p] = "record_gates"
    /\ Write(p, mem[p], "idle",
             IF mem[p].status = "validation_gates_failed" THEN "idle" ELSE "handler")
    /\ UNCHANGED <<runDir, made, merit, drift, child, accesses>>

\* Both except BaseException blocks.
Handler(p) ==
    /\ pc[p] = "handler"
    /\ Write(p, [mem[p] EXCEPT !.status = FailureStatus(mem[p])], "idle", "idle")
    /\ UNCHANGED <<runDir, made, merit, drift, child, accesses>>

-----------------------------------------------------------------------------
(* final_evaluate(confirmed=True) *)

LoadLedger(p) ==
    /\ pc[p] = "idle"
    /\ child[p] = NoChild
    /\ Admits(ledger)
    /\ Final \notin made
    /\ mem' = [mem EXCEPT ![p] = ledger]
    /\ Goto(p, "verify")
    /\ UNCHANGED <<disk, drift, child, accesses>>

\* _verify_repository_unchanged and _verify_recorded_outputs.
VerifyUnchanged(p) ==
    /\ pc[p] = "verify"
    /\ IF drift \cap {"commit", "outputs"} = {}
       THEN Goto(p, "reserve_attempt") /\ UNCHANGED mem
       ELSE Exit(p)
    /\ UNCHANGED <<disk, drift, child, accesses>>

\* The reservation is a plain overwrite of the ledger that was read earlier.
ReserveAttempt(p) ==
    /\ pc[p] = "reserve_attempt"
    /\ Write(p, Reserved(mem[p]), "launch", "idle")
    /\ UNCHANGED <<runDir, made, merit, drift, child, accesses>>

\* Report identity, the re-read gates and the final fingerprint.
AssessFinal(p) ==
    /\ pc[p] = "assess"
    /\ Final \in made
    /\ \E passed \in Assessments(Final) :
         mem' = [mem EXCEPT
                   ![p].final = IF passed THEN "passed" ELSE "failed",
                   ![p].status = IF passed THEN "replication_passed"
                                 ELSE "final_gates_failed"]
    /\ Goto(p, "record_final")
    /\ UNCHANGED <<disk, drift, child, accesses>>

RecordFinal(p) ==
    /\ pc[p] = "record_final"
    /\ Write(p, mem[p], "idle", "handler")
    /\ UNCHANGED <<runDir, made, merit, drift, child, accesses>>

-----------------------------------------------------------------------------
(* The stage subprocesses: they outlive a killed parent *)

\* The final evaluator refuses an existing report before it reads anything;
\* otherwise it opens the locked partition.
EvaluatorStarts(p) ==
    /\ child[p].stage = Final
    /\ child[p].state = "running"
    /\ IF Final \in made
       THEN child' = [child EXCEPT ![p].state = "failed"] /\ UNCHANGED accesses
       ELSE child' = [child EXCEPT ![p].state = "reading"] /\ accesses' = accesses + 1
    /\ UNCHANGED <<disk, drift, pc, mem>>

Working(c) == c.state = (IF c.stage = Final THEN "reading" ELSE "running")

\* The stage needs its predecessors' outputs, and publishes exclusively.
ChildPublishes(p) ==
    LET k == child[p].stage IN
    /\ Working(child[p])
    /\ k # 0
    /\ IF k \in made
       THEN child' = [child EXCEPT ![p].state = "failed"] /\ UNCHANGED <<made, merit>>
       ELSE /\ 1..(IF k = Final THEN Validation ELSE k - 1) \subseteq made
            /\ made' = made \cup {k}
            /\ \/ k \in {Validation, Final}
                    /\ \E m \in BOOLEAN : merit' = [merit EXCEPT ![k] = m]
               \/ k \notin {Validation, Final} /\ UNCHANGED merit
            /\ child' = [child EXCEPT ![p].state = "ok"]
    /\ UNCHANGED <<runDir, ledger, drift, pc, mem, accesses>>

\* Any failure; generation may leave files behind, the others leave none.
ChildFails(p) ==
    /\ Working(child[p])
    /\ child[p].stage # 0
    /\ child' = [child EXCEPT ![p].state = "failed"]
    /\ made' \in {made, made \cup ({child[p].stage} \cap {1})}
    /\ UNCHANGED <<runDir, ledger, merit, drift, pc, mem, accesses>>

\* The exit status of an orphan is lost.
OrphanEnds(p) ==
    /\ pc[p] = "idle"
    /\ child[p].state \in {"ok", "failed"}
    /\ child' = [child EXCEPT ![p] = NoChild]
    /\ UNCHANGED <<disk, drift, pc, mem, accesses>>

-----------------------------------------------------------------------------
(* The environment *)

Crash(p) ==
    /\ pc[p] # "idle"
    /\ Exit(p)
    /\ UNCHANGED <<disk, drift, child, accesses>>

Alter(x) ==
    /\ x \in Alterable \ drift
    /\ x = "outputs" => ledger.gates # "none"
    /\ runDir
    /\ drift' = drift \cup {x}
    /\ UNCHANGED <<disk, pc, mem, child, accesses>>

RunToValidation(p) ==
    \/ StartValidation(p) \/ ReserveRun(p) \/ WritePrepared(p) \/ Launch(p)
    \/ Reap(p) \/ Interrupt(p) \/ CollectOutputs(p) \/ CheckRaises(p)
    \/ RecordGates(p) \/ Handler(p)

FinalEvaluate(p) ==
    \/ LoadLedger(p) \/ VerifyUnchanged(p) \/ ReserveAttempt(p)
    \/ AssessFinal(p) \/ RecordFinal(p)

Child(p) ==
    \/ EvaluatorStarts(p) \/ ChildPublishes(p) \/ ChildFails(p) \/ OrphanEnds(p)

Step(p) == RunToValidation(p) \/ FinalEvaluate(p) \/ Child(p)

Next ==
    \/ \E p \in Operators : Step(p) \/ Crash(p)
    \/ \E x \in Alterable : Alter(x)

Spec == Init /\ [][Next]_vars

\* No process is killed; an invocation and its child run to their end.
UnkilledNext ==
    \/ \E p \in Operators : Step(p)
    \/ \E x \in Alterable : Alter(x)

FairSpec ==
    /\ Init
    /\ [][UnkilledNext]_vars
    /\ \A p \in Operators : WF_vars(pc[p] # "idle" /\ Step(p))

-----------------------------------------------------------------------------
(* Properties *)

TypeOK ==
    /\ runDir \in BOOLEAN
    /\ ledger \in Ledgers
    /\ made \subseteq Stages
    /\ merit \in [{Validation, Final} -> BOOLEAN]
    /\ drift \subseteq Alterable
    /\ pc \in [Operators -> Locations]
    /\ mem \in [Operators -> Ledgers]
    /\ child \in [Operators -> Children]
    /\ accesses \in Nat

Abstract == INSTANCE OneShot WITH
    validated <- ledger.gates = "passed",
    reserved  <- ledger.attempts = 1

\* The locked partition is opened at most once (docstring of final_evaluate).
AtMostOneAccess == accesses <= 1

\* The validation stages run at most once: two processes are never both past the
\* reservation of the run directory, whatever passed the up-front refusal.
Validating(p) ==
    /\ pc[p] \in {"prepare", "launch", "wait", "collect", "record_gates", "handler"}
    /\ mem[p].attempts = 0
OneRun ==
    \A p, q \in Operators : Validating(p) /\ Validating(q) => p = q

\* The command log tells what exists: stage k is only logged once the outputs of
\* all earlier stages are published.
LedgerInOrder == 1..(ledger.commands - 1) \subseteq made

\* A ledger that opens the final evaluation rests on five completed stages and
\* a validation report that meets the gates, unless the acceptance file was
\* edited between its verification and its second reading.
ReadyIsEvidenced ==
    ledger.status = "ready_for_final" =>
        /\ ledger.commands = Validation
        /\ 1..Validation \subseteq made
        /\ ledger.gates = "passed"
        /\ "acceptance" \notin drift => merit[Validation]

\* A replication declared passed has a final report, a reserved attempt, and
\* both reports meet the locked gates, under the same proviso.
PassedIsEarned ==
    ledger.status = "replication_passed" =>
        /\ Final \in made
        /\ ledger.attempts = 1 /\ ledger.commands = Final
        /\ ledger.gates = "passed" /\ ledger.final = "passed"
        /\ "acceptance" \notin drift => merit[Validation] /\ merit[Final]

\* What the ledger declares, the reports on disk bear out.
DeclaredIsEarned == ReadyIsEvidenced /\ PassedIsEarned

Failed == {"command_failed", "execution_failed", "validation_gates_failed",
           "final_evaluation_failed", "final_gates_failed"}

\* A reserved run directory always ends with a ledger at rest on an outcome
\* ("prepared", "started" and "completed" are not), and so does an attempt.
RunSettles ==
    runDir ~> ledger.status \in Failed \cup {"ready_for_final", "replication_passed"}
AttemptSettles ==
    ledger.attempts = 1 ~> ledger.status \in Failed \cup {"replication_passed"}
=============================================================================
