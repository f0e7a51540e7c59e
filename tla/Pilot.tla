-------------------------------- MODULE Pilot --------------------------------
(***************************************************************************)
(* The one-shot runner of the American neural pilot,                        *)
(* src/scripts/run_american_neural_pilot.py: run-to-validation and          *)
(* final-evaluate, invoked any number of times by any number of operator    *)
(* processes that share one project directory.  A process may be killed at  *)
(* any point, every publication on disk may fail, and the inputs that the   *)
(* validation evidence pins may drift under the runner.                     *)
(*                                                                          *)
(* Each process runs straight-line code; pc names the call it is about to   *)
(* make, and one action is one file-system effect with the in-memory work   *)
(* up to it.                                                                *)
(***************************************************************************)
EXTENDS Naturals

CONSTANTS
    Operators,   \* processes that invoke the runner
    Faults,      \* ways a publication may go wrong, a subset of {"lost", "late"}
    Alterable    \* inputs that may change after the ledger pinned them

ASSUME FaultsAssumption == Faults \subseteq {"lost", "late"}

Pinned == {"validation_report", "artifacts", "commit"}

ASSUME AlterableAssumption == Alterable \subseteq Pinned \cup {"partition"}

VARIABLES
    ledgerDir,         \* the parent directory of the execution ledger exists
    ledger,            \* the execution ledger on disk
    output,            \* the output directory exists
    entryReport,       \* entry-failure-report.json exists
    validationReport,  \* validation-report.json: absent, or its final-entry verdict
    marker,            \* locked-final-attempt.consumed exists
    finalReport,       \* final-report.json: absent, or its all-arms verdict
    failureReport,     \* the final-attempt failure report
    drift,             \* inputs that no longer match what was pinned
    pc, mem,           \* each process: next call, in-memory ledger
    stage, observed,   \* each process: failure_stage, observed partition digest
    accesses           \* history: attempts that opened the locked partition

disk == <<ledgerDir, ledger, output, entryReport, validationReport, marker,
          finalReport, failureReport>>
local == <<pc, mem, stage, observed>>
vars == <<disk, drift, local, accesses>>

-----------------------------------------------------------------------------
Statuses ==
    {"none", "validation_reserved", "ready_for_final", "validation_gates_failed",
     "entry_gate_failed", "validation_failed", "final_evaluation_reserved",
     "pilot_final_complete", "pilot_final_gates_failed",
     "final_evaluation_failed_consumed"}

Ledgers ==
    [status     : Statuses,
     attempts   : 0..1,
     consumed   : BOOLEAN,
     validation : {"none", "validation", "entry"},  \* the report it pins
     final      : {"none", "final", "failure"}]     \* the report it pins

NoLedger == [status |-> "none", attempts |-> 0, consumed |-> FALSE,
             validation |-> "none", final |-> "none"]

Verdicts == {"none", "passed", "failed"}
Verdict(passed) == IF passed THEN "passed" ELSE "failed"

EarlyStages == {"reservation", "ledger_reservation", "manifest_identity"}
LateStages == {"partition_read", "model_evaluation", "report_write"}
Stages == EarlyStages \cup {"partition_identity"} \cup LateStages

Digests == {"none", "locked", "altered"}

NoFailure == [stage |-> "none", observed |-> "none"]

\* A publication through write_json_atomic takes effect and returns ("ok"),
\* raises before os.link/os.replace and leaves the target untouched ("lost"),
\* or raises after the target has been published ("late").
Outcomes == {"ok"} \cup Faults
Published(o) == o # "lost"

Locations ==
    {"idle", "val_reserve", "val_ledger_create", "val_output", "val_entry",
     "val_train", "val_ledger", "val_failed", "fin_verify", "fin_mark",
     "fin_ledger", "fin_manifest", "fin_hash", "fin_read", "fin_evaluate",
     "fin_report", "fin_done", "fin_failed", "fin_failed_ledger"}

Init ==
    /\ ledgerDir = FALSE
    /\ ledger = NoLedger
    /\ output = FALSE
    /\ entryReport = FALSE
    /\ validationReport = "none"
    /\ marker = FALSE
    /\ finalReport = "none"
    /\ failureReport = NoFailure
    /\ drift = {}
    /\ pc = [p \in Operators |-> "idle"]
    /\ mem = [p \in Operators |-> NoLedger]
    /\ stage = [p \in Operators |-> "reservation"]
    /\ observed = [p \in Operators |-> "none"]
    /\ accesses = 0

Goto(p, l) == pc' = [pc EXCEPT ![p] = l]

\* The invocation is over: it returned, raised to the shell, or was killed.
Exit(p) ==
    /\ Goto(p, "idle")
    /\ mem' = [mem EXCEPT ![p] = NoLedger]
    /\ stage' = [stage EXCEPT ![p] = "reservation"]
    /\ observed' = [observed EXCEPT ![p] = "none"]

-----------------------------------------------------------------------------
(* The decisions and records the actions below are made of.  A definition that
   precedes another and is used by no action is a plausible bug of the second:
   the properties must notice when it takes its place. *)

\* mkdir(exist_ok=False) refuses a directory that exists.
DirectoryTakenIgnored == FALSE
DirectoryTaken == ledgerDir

\* os.open(O_CREAT | O_EXCL) refuses a marker that exists.
AttemptTakenIgnored == FALSE
AttemptTaken == marker

\* os.link refuses to replace a failure report.
FailureReportTakenIgnored == FALSE
FailureReportTaken == failureReport # NoFailure

\* After a failed entry gate the error is raised, not swallowed.
AfterEntryFailureContinues == "val_train"
AfterEntryFailure == "val_failed"

\* The handler of run_to_validation relabels its in-memory ledger.
FailedValidation(l) ==
    IF entryReport
    THEN [l EXCEPT !.status = "entry_gate_failed", !.validation = "entry"]
    ELSE [l EXCEPT !.status = "validation_failed"]

\* An exception after the marker was created consumes the attempt.
AfterReservationUnrecorded(o) == IF o = "ok" THEN "fin_ledger" ELSE "idle"
AfterReservation(o) == IF o = "ok" THEN "fin_ledger" ELSE "fin_failed"

ReservedUnconsumed(l) == [l EXCEPT !.status = "final_evaluation_reserved"]
Reserved(l) == [l EXCEPT !.attempts = 1, !.consumed = TRUE,
                         !.status = "final_evaluation_reserved"]

FinalStatusUngated(passed) == "pilot_final_complete"
FinalStatus(passed) ==
    IF passed THEN "pilot_final_complete" ELSE "pilot_final_gates_failed"

\* The closure reads failure_stage and observed_partition_sha256 when it runs.
FailureOfInitialStage(s, d) == [stage |-> "reservation", observed |-> d]
FailureOf(s, d) == [stage |-> s, observed |-> d]

FailedFinalCountedAgain(l) ==
    [l EXCEPT !.attempts = @ + 1, !.consumed = TRUE, !.final = "failure",
              !.status = "final_evaluation_failed_consumed"]
FailedFinal(l) == [l EXCEPT !.attempts = 1, !.consumed = TRUE, !.final = "failure",
                            !.status = "final_evaluation_failed_consumed"]

-----------------------------------------------------------------------------
(* run_to_validation *)

\* The up-front refusal, and the identity checks that never touch the final
\* partition.  A refused invocation changes nothing.
StartValidation(p) ==
    /\ pc[p] = "idle"
    /\ ledger = NoLedger
    /\ ~output
    /\ Goto(p, "val_reserve")
    /\ UNCHANGED <<disk, drift, mem, stage, observed, accesses>>

\* ledger_path.parent.mkdir(exist_ok=False): the race is decided here.
ReserveValidation(p) ==
    /\ pc[p] = "val_reserve"
    /\ IF DirectoryTaken
       THEN Exit(p)
       ELSE /\ Goto(p, "val_ledger_create")
            /\ mem' = [mem EXCEPT ![p].status = "validation_reserved"]
            /\ UNCHANGED <<stage, observed>>
    /\ ledgerDir' = TRUE
    /\ UNCHANGED <<ledger, output, entryReport, validationReport, marker,
                   finalReport, failureReport, drift, accesses>>

\* The exclusive first publication of the ledger, outside the try block.
CreateLedger(p) ==
    /\ pc[p] = "val_ledger_create"
    /\ \E o \in Outcomes :
         /\ ledger' = IF Published(o) /\ ledger = NoLedger THEN mem[p] ELSE ledger
         /\ IF o = "ok" /\ ledger = NoLedger
            THEN Goto(p, "val_output") /\ UNCHANGED <<mem, stage, observed>>
            ELSE Exit(p)
    /\ UNCHANGED <<ledgerDir, output, entryReport, validationReport, marker,
                   finalReport, failureReport, drift, accesses>>

\* output_directory.mkdir(exist_ok=False) in execute_validation_run.
CreateOutput(p) ==
    /\ pc[p] = "val_output"
    /\ Goto(p, IF output THEN "val_failed" ELSE "val_entry")
    /\ output' = TRUE
    /\ UNCHANGED <<ledgerDir, ledger, entryReport, validationReport, marker,
                   finalReport, failureReport, drift, mem, stage, observed, accesses>>

EntryGatesPass(p) ==
    /\ pc[p] = "val_entry"
    /\ Goto(p, "val_train")
    /\ UNCHANGED <<disk, drift, mem, stage, observed, accesses>>

\* An entry gate fails: record_entry_failure publishes the report, then the
\* gate's error is raised (or the publication's own error is).
EntryGateFails(p) ==
    /\ pc[p] = "val_entry"
    /\ Goto(p, AfterEntryFailure)
    /\ \E o \in Outcomes : entryReport' = (entryReport \/ Published(o))
    /\ UNCHANGED <<ledgerDir, ledger, output, validationReport, marker,
                   finalReport, failureReport, drift, mem, stage, observed, accesses>>

\* Training, evaluation, timing or an artifact save raises.
ValidationRaises(p) ==
    /\ pc[p] \in {"val_output", "val_entry", "val_train"}
    /\ Goto(p, "val_failed")
    /\ UNCHANGED <<disk, drift, mem, stage, observed, accesses>>

\* Everything ran: publish validation-report.json and set the ledger in memory.
PublishValidation(p) ==
    /\ pc[p] = "val_train"
    /\ \E passed \in BOOLEAN, o \in Outcomes :
         /\ validationReport' =
              IF Published(o) /\ validationReport = "none"
              THEN Verdict(passed) ELSE validationReport
         /\ IF o = "ok" /\ validationReport = "none"
            THEN /\ Goto(p, "val_ledger")
                 /\ mem' = [mem EXCEPT ![p].validation = "validation",
                                       ![p].status = IF passed
                                                     THEN "ready_for_final"
                                                     ELSE "validation_gates_failed"]
            ELSE Goto(p, "val_failed") /\ UNCHANGED mem
    /\ UNCHANGED <<ledgerDir, ledger, output, entryReport, marker, finalReport,
                   failureReport, drift, stage, observed, accesses>>

RecordValidation(p) ==
    /\ pc[p] = "val_ledger"
    /\ \E o \in Outcomes :
         /\ ledger' = IF Published(o) THEN mem[p] ELSE ledger
         /\ IF o = "ok"
            THEN Exit(p)
            ELSE Goto(p, "val_failed") /\ UNCHANGED <<mem, stage, observed>>
    /\ UNCHANGED <<ledgerDir, output, entryReport, validationReport, marker,
                   finalReport, failureReport, drift, accesses>>

\* except BaseException: relabel the in-memory ledger and overwrite the file.
\* What another process has published since is not read again.
ValidationHandler(p) ==
    /\ pc[p] = "val_failed"
    /\ \E o \in Outcomes :
         ledger' = IF Published(o) THEN FailedValidation(mem[p]) ELSE ledger
    /\ Exit(p)
    /\ UNCHANGED <<ledgerDir, output, entryReport, validationReport, marker,
                   finalReport, failureReport, drift, accesses>>

-----------------------------------------------------------------------------
(* final_evaluate(confirmed=True); without the flag it returns at once *)

LoadLedger(p) ==
    /\ pc[p] = "idle"
    /\ ledger.status = "ready_for_final"
    /\ ledger.attempts = 0
    /\ Goto(p, "fin_verify")
    /\ mem' = [mem EXCEPT ![p] = ledger]
    /\ UNCHANGED <<disk, drift, stage, observed, accesses>>

\* Pinned report digest and its strict revalidation, repository commit, and the
\* two artifacts; any difference refuses the attempt and leaves it available.
VerifyPinned(p) ==
    /\ pc[p] = "fin_verify"
    /\ IF /\ mem[p].validation = "validation"
          /\ validationReport = "passed"
          /\ drift \cap Pinned = {}
       THEN Goto(p, "fin_mark") /\ UNCHANGED <<mem, stage, observed>>
       ELSE Exit(p)
    /\ UNCHANGED <<disk, drift, accesses>>

\* O_CREAT|O_EXCL on the marker.  "late": the write or fsync after the creation
\* raises, which the caller turns into a recorded, consumed failure.
ReserveAttempt(p) ==
    /\ pc[p] = "fin_mark"
    /\ IF AttemptTaken
       THEN Exit(p)
       ELSE \E o \in {"ok", "late"} :
              /\ Goto(p, AfterReservation(o))
              /\ UNCHANGED <<mem, stage, observed>>
    /\ marker' = TRUE
    /\ UNCHANGED <<ledgerDir, ledger, output, entryReport, validationReport,
                   finalReport, failureReport, drift, accesses>>

\* The reservation raises without creating the marker (no descriptor left, an
\* interrupt).  The handler then asks whether the marker exists - and cannot
\* tell its own marker from the one of another process.
ReservationRaises(p) ==
    /\ pc[p] = "fin_mark"
    /\ IF marker
       THEN Goto(p, "fin_failed") /\ UNCHANGED <<mem, stage, observed>>
       ELSE Exit(p)
    /\ UNCHANGED <<disk, drift, accesses>>

\* failure_stage = "ledger_reservation"; the ledger records the consumption.
RecordReservation(p) ==
    /\ pc[p] = "fin_ledger"
    /\ mem' = [mem EXCEPT ![p] = Reserved(mem[p])]
    /\ \E o \in Outcomes :
         /\ ledger' = IF Published(o) THEN Reserved(mem[p]) ELSE ledger
         /\ Goto(p, IF o = "ok" THEN "fin_manifest" ELSE "fin_failed")
    /\ stage' = [stage EXCEPT ![p] = "ledger_reservation"]
    /\ UNCHANGED <<ledgerDir, output, entryReport, validationReport, marker,
                   finalReport, failureReport, drift, observed, accesses>>

\* The manifest must declare exactly one final file, with the locked digest.
CheckManifest(p) ==
    /\ pc[p] = "fin_manifest"
    /\ stage' = [stage EXCEPT ![p] = "manifest_identity"]
    /\ \E l \in {"fin_hash", "fin_failed"} : Goto(p, l)
    /\ UNCHANGED <<disk, drift, mem, observed, accesses>>

\* sha256_file(final_path): the first time the locked partition is opened.
HashPartition(p) ==
    /\ pc[p] = "fin_hash"
    /\ accesses' = accesses + 1
    /\ stage' = [stage EXCEPT ![p] = "partition_identity"]
    /\ \/ /\ Goto(p, "fin_failed")           \* the read itself raises
          /\ UNCHANGED observed
       \/ /\ "partition" \in drift
          /\ observed' = [observed EXCEPT ![p] = "altered"]
          /\ Goto(p, "fin_failed")
       \/ /\ "partition" \notin drift
          /\ observed' = [observed EXCEPT ![p] = "locked"]
          /\ Goto(p, "fin_read")
    /\ UNCHANGED <<disk, drift, mem>>

ReadColumns(p) ==
    /\ pc[p] = "fin_read"
    /\ stage' = [stage EXCEPT ![p] = "partition_read"]
    /\ \E l \in {"fin_evaluate", "fin_failed"} : Goto(p, l)
    /\ UNCHANGED <<disk, drift, mem, observed, accesses>>

EvaluateModels(p) ==
    /\ pc[p] = "fin_evaluate"
    /\ stage' = [stage EXCEPT ![p] = "model_evaluation"]
    /\ \E l \in {"fin_report", "fin_failed"} : Goto(p, l)
    /\ UNCHANGED <<disk, drift, mem, observed, accesses>>

\* Exclusive publication of final-report.json, then the ledger in memory.
PublishFinal(p) ==
    /\ pc[p] = "fin_report"
    /\ stage' = [stage EXCEPT ![p] = "report_write"]
    /\ \E passed \in BOOLEAN, o \in Outcomes :
         /\ finalReport' = IF Published(o) /\ finalReport = "none"
                           THEN Verdict(passed) ELSE finalReport
         /\ IF o = "ok" /\ finalReport = "none"
            THEN /\ Goto(p, "fin_done")
                 /\ mem' = [mem EXCEPT ![p].final = "final",
                                       ![p].status = FinalStatus(passed)]
            ELSE Goto(p, "fin_failed") /\ UNCHANGED mem
    /\ UNCHANGED <<ledgerDir, ledger, output, entryReport, validationReport,
                   marker, failureReport, drift, observed, accesses>>

RecordFinal(p) ==
    /\ pc[p] = "fin_done"
    /\ \E o \in Outcomes :
         /\ ledger' = IF Published(o) THEN mem[p] ELSE ledger
         /\ IF o = "ok"
            THEN Exit(p)
            ELSE Goto(p, "fin_failed") /\ UNCHANGED <<mem, stage, observed>>
    /\ UNCHANGED <<ledgerDir, output, entryReport, validationReport, marker,
                   finalReport, failureReport, drift, accesses>>

\* record_consumed_failure, first half: the exclusive failure report.
PublishFailure(p) ==
    /\ pc[p] = "fin_failed"
    /\ \E o \in Outcomes :
         /\ failureReport' =
              IF Published(o) /\ ~FailureReportTaken
              THEN FailureOf(stage[p], observed[p])
              ELSE failureReport
         /\ IF o = "ok" /\ ~FailureReportTaken
            THEN Goto(p, "fin_failed_ledger") /\ UNCHANGED <<mem, stage, observed>>
            ELSE Exit(p)
    /\ UNCHANGED <<ledgerDir, ledger, output, entryReport, validationReport,
                   marker, finalReport, drift, accesses>>

\* record_consumed_failure, second half: the ledger.
RecordFailure(p) ==
    /\ pc[p] = "fin_failed_ledger"
    /\ \E o \in Outcomes :
         ledger' = IF Published(o) THEN FailedFinal(mem[p]) ELSE ledger
    /\ Exit(p)
    /\ UNCHANGED <<ledgerDir, output, entryReport, validationReport, marker,
                   finalReport, failureReport, drift, accesses>>

-----------------------------------------------------------------------------
(* The environment *)

\* SIGKILL or a power cut: files stay, the process's memory is gone.
Crash(p) ==
    /\ pc[p] # "idle"
    /\ Exit(p)
    /\ UNCHANGED <<disk, drift, accesses>>

\* Someone edits an input that the evidence on disk pins.
Alter(x) ==
    /\ x \in Alterable \ drift
    /\ x \in {"validation_report", "artifacts"} => ledger.validation = "validation"
    /\ ledger # NoLedger
    /\ drift' = drift \cup {x}
    /\ UNCHANGED <<disk, local, accesses>>

Validation(p) ==
    \/ StartValidation(p) \/ ReserveValidation(p) \/ CreateLedger(p)
    \/ CreateOutput(p) \/ EntryGatesPass(p) \/ EntryGateFails(p)
    \/ ValidationRaises(p) \/ PublishValidation(p) \/ RecordValidation(p)
    \/ ValidationHandler(p)

FinalEvaluation(p) ==
    \/ LoadLedger(p) \/ VerifyPinned(p) \/ ReserveAttempt(p)
    \/ ReservationRaises(p) \/ RecordReservation(p) \/ CheckManifest(p)
    \/ HashPartition(p) \/ ReadColumns(p) \/ EvaluateModels(p)
    \/ PublishFinal(p) \/ RecordFinal(p) \/ PublishFailure(p) \/ RecordFailure(p)

Step(p) == Validation(p) \/ FinalEvaluation(p)

Next ==
    \/ \E p \in Operators : Step(p) \/ Crash(p)
    \/ \E x \in Alterable : Alter(x)

Spec == Init /\ [][Next]_vars

\* Nobody kills a process, and an invocation that started runs to its end (the
\* runner has no loop, lock or wait).  Operators need not start anything.
UnkilledNext ==
    \/ \E p \in Operators : Step(p)
    \/ \E x \in Alterable : Alter(x)

FairSpec ==
    /\ Init
    /\ [][UnkilledNext]_vars
    /\ \A p \in Operators : WF_vars(pc[p] # "idle" /\ Step(p))

-----------------------------------------------------------------------------
(* Properties *)

TypeOK ==
    /\ ledgerDir \in BOOLEAN
    /\ ledger \in Ledgers
    /\ output \in BOOLEAN
    /\ entryReport \in BOOLEAN
    /\ validationReport \in Verdicts
    /\ marker \in BOOLEAN
    /\ finalReport \in Verdicts
    /\ failureReport \in [stage : Stages \cup {"none"}, observed : Digests]
    /\ drift \subseteq Alterable
    /\ pc \in [Operators -> Locations]
    /\ mem \in [Operators -> Ledgers]
    /\ stage \in [Operators -> Stages]
    /\ observed \in [Operators -> Digests]
    /\ accesses \in Nat

\* The runner keeps the one-shot promise: a passing validation report stands for
\* validated, the O_EXCL marker for the reservation.
Abstract == INSTANCE OneShot WITH
    validated <- validationReport = "passed",
    reserved  <- marker

\* Every behaviour of any number of runner processes, killed and restarted at
\* will, is one of the abstract one-shot experiment.
ImplementsOneShot == Abstract!Spec

\* The locked-final partition is opened by at most one attempt, whoever invokes
\* final-evaluate, however often, and wherever it is killed (final_evaluate).
AtMostOneAccess == accesses <= 1

\* Once the partition has been opened the ledger on disk says that the attempt
\* is consumed.  The only writer that can erase this is the failure handler of
\* run_to_validation, overwriting the file from its own stale memory after a
\* publication that took effect and still raised.
AccessIsRecorded ==
    accesses > 0 =>
        \/ ledger.consumed /\ ledger.attempts = 1
        \/ ledger.status = "validation_failed"

\* A final attempt is only ever reserved on evidence that passed: the marker
\* implies a passing validation report and no entry failure.
ReservedOnPassingEvidence ==
    marker => validationReport = "passed" /\ ~entryReport

\* Every failure report the runner publishes satisfies the relation between
\* failure_stage and observed_partition_sha256 that the freezing script
\* enforces before it accepts the report.
FailureReportAccepted ==
    failureReport # NoFailure =>
        /\ failureReport.stage \in EarlyStages => failureReport.observed = "none"
        /\ failureReport.stage \in LateStages => failureReport.observed = "locked"

\* A ledger that declares the pilot finished pins a final report with the
\* verdict it declares, from a recorded and reserved attempt.
CompletionIsEvidenced ==
    ledger.status \in {"pilot_final_complete", "pilot_final_gates_failed"} =>
        /\ ledger.final = "final"
        /\ finalReport = (IF ledger.status = "pilot_final_complete"
                          THEN "passed" ELSE "failed")
        /\ marker /\ accesses = 1
        /\ ledger.consumed

\* No step reopens the final evaluation after the attempt was taken, and a
\* published final or failure report is never replaced.
NeverReopened ==
    [][marker =>
        /\ ledger'.status = "ready_for_final" => ledger.status = "ready_for_final"
        /\ finalReport # "none" => finalReport' = finalReport
        /\ failureReport # NoFailure => failureReport' = failureReport]_vars

\* The validation half runs at most once: two processes are never inside it
\* past the directory reservation, whatever passed the up-front checks.
Validating(p) ==
    pc[p] \in {"val_ledger_create", "val_output", "val_entry", "val_train",
               "val_ledger", "val_failed"}
OneValidator ==
    \A p, q \in Operators : Validating(p) /\ Validating(q) => p = q

FinalTerminal == {"pilot_final_complete", "pilot_final_gates_failed",
                  "final_evaluation_failed_consumed"}

\* A reserved attempt always ends in a report a reader can freeze, if nobody
\* kills the process and publications work.
ReservedEventuallyReported ==
    marker ~> (finalReport # "none" \/ failureReport # NoFailure)

\* A reserved validation run always settles its ledger on an outcome.
ValidationSettles ==
    ledgerDir ~> ledger.status \notin {"none", "validation_reserved"}

\* A reserved attempt always ends with a ledger that names its outcome.  The
\* exception is a second process whose own reservation raised: it takes the
\* marker it finds for its own, publishes the failure report of the attempt
\* first, and the owner may then be unable to record how the attempt ended.
LedgerEventuallyFinal ==
    marker ~> \/ ledger.status \in FinalTerminal
              \/ failureReport.stage = "reservation"
=============================================================================
