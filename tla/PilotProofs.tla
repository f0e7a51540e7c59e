----------------------------- MODULE PilotProofs -----------------------------
(***************************************************************************)
(* Theorems about Pilot, for every set of operators, every choice of faults *)
(* and every set of inputs that may change.                                 *)
(***************************************************************************)
EXTENDS PilotFreeze, FiniteSetTheorems, WellFoundedInduction, TLAPS

-----------------------------------------------------------------------------
(* The inductive invariant, by what it is about *)

\* Calls made between the reservation of the directory and the publication of
\* the validation outcome on the ledger.
Unready == {"val_ledger_create", "val_output", "val_entry", "val_train", "val_ledger"}

InFinal == {"fin_verify", "fin_mark", "fin_ledger", "fin_manifest", "fin_hash",
            "fin_read", "fin_evaluate", "fin_report", "fin_done", "fin_failed",
            "fin_failed_ledger"}

\* A process that holds the attempt and has not opened the partition yet.
PreAccess == {"fin_ledger", "fin_manifest", "fin_hash"}
PostAccess == {"fin_read", "fin_evaluate", "fin_report", "fin_done"}

Recorded(l) == (l.consumed /\ l.attempts = 1) \/ l.status = "validation_failed"

\* Nothing exists before the directory does.
FreshInv ==
    ~ledgerDir =>
        /\ ledger.status = "none" /\ ~entryReport /\ validationReport = "none" /\ ~marker
        /\ \A p \in Operators : pc[p] \in {"idle", "val_reserve"}

\* While a process is validating, no other is, and no final evaluation can be
\* under way; the reports appear in the order of its calls.
ValidatorInv ==
    /\ OneValidator
    /\ \A p \in Operators :
         /\ pc[p] \in Unready =>
              /\ ledger.status \in {"none", "validation_reserved"}
              /\ ~marker
              /\ ~entryReport
              /\ \A q \in Operators : pc[q] \notin InFinal
         /\ pc[p] \in Unready \ {"val_ledger"} =>
              validationReport = "none" /\ mem[p].status = "validation_reserved"
         /\ pc[p] = "val_ledger" =>
              \/ mem[p].status = "ready_for_final" /\ validationReport = "passed"
              \/ mem[p].status = "validation_gates_failed"

\* Passing evidence precedes the marker.
EvidenceInv ==
    /\ ledger.status = "ready_for_final" => validationReport = "passed" /\ ~entryReport
    /\ validationReport = "passed" => ~entryReport
    /\ \A p \in Operators :
         pc[p] \in InFinal => validationReport = "passed" /\ ~entryReport
    /\ marker => validationReport = "passed" /\ ~entryReport

\* One attempt, held by one process, opens the partition at most once.
AttemptInv ==
    /\ accesses \in {0, 1}
    /\ accesses = 1 => marker
    /\ \A p \in Operators :
         /\ pc[p] \in PreAccess => marker /\ accesses = 0
         /\ pc[p] \in PostAccess => accesses = 1
    /\ \A p, q \in Operators :
         pc[p] \in PreAccess \cup PostAccess /\ pc[q] \in PreAccess \cup PostAccess => p = q
    /\ ~marker => \A p \in Operators : pc[p] \notin {"fin_failed", "fin_failed_ledger"}

\* The ledger records the attempt before the partition is opened.
LedgerInv ==
    /\ accesses > 0 => Recorded(ledger)
    /\ \A p \in Operators :
         /\ pc[p] \in {"fin_manifest", "fin_hash"} => Recorded(ledger)
         /\ pc[p] \in {"fin_manifest", "fin_hash"} \cup PostAccess =>
              mem[p].consumed /\ mem[p].attempts = 1

\* A process about to record its verdict has published the report it declares.
CompletionInv ==
    /\ CompletionIsEvidenced
    /\ \A p \in Operators :
         pc[p] = "fin_done" =>
           /\ mem[p].final = "final"
           /\ \/ mem[p].status = "pilot_final_complete" /\ finalReport = "passed"
              \/ mem[p].status = "pilot_final_gates_failed" /\ finalReport = "failed"

\* What failure_stage and observed_partition_sha256 are at each call.
Accepted(s, d) ==
    /\ s \in EarlyStages => d = "none"
    /\ s \in LateStages => d = "locked"
StageInv ==
    /\ FailureReportAccepted
    /\ \A p \in Operators :
         /\ Accepted(stage[p], observed[p])
         /\ pc[p] \notin PostAccess \cup {"fin_failed", "fin_failed_ledger"} =>
              observed[p] = "none"
         /\ pc[p] \in PostAccess => observed[p] = "locked"

IInv ==
    /\ TypeOK
    /\ FreshInv
    /\ ValidatorInv
    /\ EvidenceInv
    /\ AttemptInv
    /\ LedgerInv
    /\ CompletionInv
    /\ StageInv

-----------------------------------------------------------------------------
(* Type correctness *)

LEMMA NoLedgerType == NoLedger \in Ledgers
BY DEF NoLedger, Ledgers, Statuses

\* What the runner assigns to its in-memory ledger is a ledger.
LEMMA LedgerTypes ==
  ASSUME NEW l \in Ledgers
  PROVE  /\ Reserved(l) \in Ledgers
         /\ FailedFinal(l) \in Ledgers
         /\ FailedValidation(l) \in Ledgers
         /\ [l EXCEPT !.status = "validation_reserved"] \in Ledgers
         /\ \A s \in {"ready_for_final", "validation_gates_failed"} :
              [l EXCEPT !.validation = "validation", !.status = s] \in Ledgers
         /\ \A passed \in BOOLEAN :
              [l EXCEPT !.final = "final", !.status = FinalStatus(passed)] \in Ledgers
<1>0. 1 \in 0..1
  OBVIOUS
<1>1. Reserved(l) \in Ledgers
  BY <1>0 DEF Reserved, Ledgers, Statuses
<1>2. FailedFinal(l) \in Ledgers
  BY <1>0 DEF FailedFinal, Ledgers, Statuses
<1>3. FailedValidation(l) \in Ledgers
  BY DEF FailedValidation, Ledgers, Statuses
<1>4. [l EXCEPT !.status = "validation_reserved"] \in Ledgers
  BY DEF Ledgers, Statuses
<1>5. \A s \in {"ready_for_final", "validation_gates_failed"} :
         [l EXCEPT !.validation = "validation", !.status = s] \in Ledgers
  BY DEF Ledgers, Statuses
<1>6. \A passed \in BOOLEAN :
         [l EXCEPT !.final = "final", !.status = FinalStatus(passed)] \in Ledgers
  BY DEF Ledgers, Statuses, FinalStatus
<1> QED  BY <1>1, <1>2, <1>3, <1>4, <1>5, <1>6

LEMMA TypeInit == Init => TypeOK
<1> SUFFICES ASSUME Init PROVE TypeOK
  OBVIOUS
<1>1. failureReport \in [stage : Stages \cup {"none"}, observed : Digests]
  BY DEF Init, NoFailure, Digests
<1>2. /\ stage \in [Operators -> Stages]
      /\ observed \in [Operators -> Digests]
      /\ pc \in [Operators -> Locations]
  BY DEF Init, Stages, EarlyStages, Digests, Locations
<1> QED
  BY <1>1, <1>2, NoLedgerType DEF Init, TypeOK, Verdicts

\* The two ways a call leaves a process, in terms of types.
LocalOK ==
    /\ pc \in [Operators -> Locations]
    /\ mem \in [Operators -> Ledgers]
    /\ stage \in [Operators -> Stages]
    /\ observed \in [Operators -> Digests]
LEMMA ExitType == ASSUME NEW p \in Operators, LocalOK, Exit(p) PROVE LocalOK'
BY NoLedgerType DEF LocalOK, Exit, Goto, Locations, Stages, EarlyStages, Digests
LEMMA GotoType ==
  ASSUME NEW p \in Operators, NEW l \in Locations, LocalOK, Goto(p, l)
  PROVE  pc' \in [Operators -> Locations]
BY DEF LocalOK, Goto

LEMMA TypeStep == TypeOK /\ [Next]_vars => TypeOK'
<1> SUFFICES ASSUME TypeOK, [Next]_vars PROVE TypeOK'
  OBVIOUS
<1>l. LocalOK
  BY DEF TypeOK, LocalOK
<1>v. /\ \A passed \in BOOLEAN : Verdict(passed) \in Verdicts
      /\ {"ok"} \subseteq Outcomes
  BY DEF Verdict, Verdicts, Outcomes
<1> USE DEF TypeOK, disk, local
<1>1. ASSUME NEW p \in Operators, Validation(p) PROVE TypeOK'
  <2>m. mem[p] \in Ledgers
    OBVIOUS
  <2>x. Exit(p) => LocalOK'
    BY <1>l, ExitType
  <2>1. CASE StartValidation(p)  BY <2>1, <1>l DEF StartValidation, Goto, Locations
  <2>2. CASE ReserveValidation(p)
    BY <2>2, <2>x, <2>m, LedgerTypes DEF ReserveValidation, LocalOK, Goto, Locations
  <2>3. CASE CreateLedger(p)
    BY <2>3, <2>x, <2>m DEF CreateLedger, LocalOK, Goto, Locations
  <2>4. CASE CreateOutput(p)  BY <2>4 DEF CreateOutput, Goto, Locations
  <2>5. CASE EntryGatesPass(p)  BY <2>5 DEF EntryGatesPass, Goto, Locations
  <2>6. CASE EntryGateFails(p)
    BY <2>6 DEF EntryGateFails, AfterEntryFailure, Published, Goto, Locations
  <2>7. CASE ValidationRaises(p)  BY <2>7 DEF ValidationRaises, Goto, Locations
  <2>8. CASE PublishValidation(p)
    <3>1. PICK passed \in BOOLEAN, o \in Outcomes :
            /\ validationReport' = IF Published(o) /\ validationReport = "none"
                                   THEN Verdict(passed) ELSE validationReport
            /\ IF o = "ok" /\ validationReport = "none"
               THEN /\ Goto(p, "val_ledger")
                    /\ mem' = [mem EXCEPT ![p].validation = "validation",
                                          ![p].status = IF passed
                                                        THEN "ready_for_final"
                                                        ELSE "validation_gates_failed"]
               ELSE Goto(p, "val_failed") /\ UNCHANGED mem
      BY <2>8 DEF PublishValidation
    <3>2. validationReport' \in Verdicts
      BY <3>1, <1>v
    <3>3. pc' \in [Operators -> Locations]
      BY <3>1 DEF Goto, Locations
    <3>4. mem' \in [Operators -> Ledgers]
      BY <3>1, <2>m, LedgerTypes
    <3> QED  BY <2>8, <3>2, <3>3, <3>4 DEF PublishValidation
  <2>9. CASE RecordValidation(p)
    BY <2>9, <2>x, <2>m DEF RecordValidation, LocalOK, Goto, Locations
  <2>10. CASE ValidationHandler(p)
    BY <2>10, <2>x, <2>m, LedgerTypes DEF ValidationHandler, LocalOK
  <2> QED  BY <1>1, <2>1, <2>2, <2>3, <2>4, <2>5, <2>6, <2>7, <2>8, <2>9, <2>10
           DEF Validation
<1>2. ASSUME NEW p \in Operators, FinalEvaluation(p) PROVE TypeOK'
  <2>m. mem[p] \in Ledgers
    OBVIOUS
  <2>x. Exit(p) => LocalOK'
    BY <1>l, ExitType
  <2>1. CASE LoadLedger(p)  BY <2>1 DEF LoadLedger, Goto, Locations
  <2>2. CASE VerifyPinned(p)  BY <2>2, <2>x DEF VerifyPinned, LocalOK, Goto, Locations
  <2>3. CASE ReserveAttempt(p)
    BY <2>3, <2>x DEF ReserveAttempt, AfterReservation, LocalOK, Goto, Locations
  <2>4. CASE ReservationRaises(p)
    BY <2>4, <2>x DEF ReservationRaises, LocalOK, Goto, Locations
  <2>5. CASE RecordReservation(p)  BY <2>5, <2>m, LedgerTypes
       DEF RecordReservation, Goto, Locations, Stages, EarlyStages
  <2>6. CASE CheckManifest(p)
    BY <2>6 DEF CheckManifest, Goto, Locations, Stages, EarlyStages
  <2>7. CASE HashPartition(p)  BY <2>7 DEF HashPartition, Goto, Locations, Stages, Digests
  <2>8. CASE ReadColumns(p)  BY <2>8 DEF ReadColumns, Goto, Locations, Stages, LateStages
  <2>9. CASE EvaluateModels(p)
    BY <2>9 DEF EvaluateModels, Goto, Locations, Stages, LateStages
  <2>10. CASE PublishFinal(p)
    <3>1. PICK passed \in BOOLEAN, o \in Outcomes :
            /\ finalReport' = IF Published(o) /\ finalReport = "none"
                              THEN Verdict(passed) ELSE finalReport
            /\ \/ /\ Goto(p, "fin_done")
                  /\ mem' = [mem EXCEPT ![p].final = "final",
                                        ![p].status = FinalStatus(passed)]
               \/ Goto(p, "fin_failed") /\ UNCHANGED mem
      BY <2>10 DEF PublishFinal
    <3>2. finalReport' \in Verdicts
      BY <3>1, <1>v
    <3>3. pc' \in [Operators -> Locations]
      BY <3>1 DEF Goto, Locations
    <3>4. mem' \in [Operators -> Ledgers]
      <4>1. [mem[p] EXCEPT !.final = "final", !.status = FinalStatus(passed)] \in Ledgers
        BY <2>m, LedgerTypes
      <4>2. CASE UNCHANGED mem
        BY <4>2
      <4>3. CASE mem' = [mem EXCEPT ![p].final = "final", ![p].status = FinalStatus(passed)]
        BY <4>1, <4>3
      <4> QED  BY <3>1, <4>2, <4>3
    <3>5. stage' \in [Operators -> Stages]
      BY <2>10 DEF PublishFinal, Stages, LateStages
    <3> QED  BY <2>10, <3>2, <3>3, <3>4, <3>5 DEF PublishFinal
  <2>11. CASE RecordFinal(p)
    BY <2>11, <2>x, <2>m DEF RecordFinal, LocalOK, Goto, Locations
  <2>12. CASE PublishFailure(p)
    <3>1. FailureOf(stage[p], observed[p])
            \in [stage : Stages \cup {"none"}, observed : Digests]
      BY DEF FailureOf
    <3> QED  BY <2>12, <2>x, <3>1 DEF PublishFailure, LocalOK, Goto, Locations
  <2>13. CASE RecordFailure(p)
    BY <2>13, <2>x, <2>m, LedgerTypes DEF RecordFailure, LocalOK
  <2> QED  BY <1>2, <2>1, <2>2, <2>3, <2>4, <2>5, <2>6, <2>7, <2>8, <2>9, <2>10,
              <2>11, <2>12, <2>13
           DEF FinalEvaluation
<1>3. ASSUME NEW p \in Operators, Crash(p) PROVE TypeOK'
  BY <1>3, <1>l, ExitType DEF Crash, LocalOK
<1>4. ASSUME NEW x \in Alterable, Alter(x) PROVE TypeOK'
  BY <1>4 DEF Alter
<1>5. CASE UNCHANGED vars  BY <1>5 DEF vars
<1> QED
  BY <1>1, <1>2, <1>3, <1>4, <1>5 DEF Next, Step

\* Every variable keeps its type, for every set of operators and faults.
THEOREM TypeCorrect == Spec => []TypeOK
BY TypeInit, TypeStep, PTL DEF Spec

-----------------------------------------------------------------------------
(* The invariant is inductive: one lemma for each of its parts *)

\* A directory is made before anything else is written, and never removed.
LEMMA FreshStep ==
  ASSUME IInv, TypeOK', NEW p \in Operators, Step(p) \/ Crash(p)
  PROVE  FreshInv'
<1> USE DEF IInv, TypeOK, disk, local, Goto, Exit, FreshInv
<1>1. CASE StartValidation(p)  BY <1>1 DEF StartValidation, NoLedger
<1>2. CASE ReserveValidation(p)  BY <1>2 DEF ReserveValidation, DirectoryTaken, NoLedger
<1>3. CASE CreateLedger(p)  BY <1>3 DEF CreateLedger, NoLedger
<1>4. CASE CreateOutput(p)  BY <1>4 DEF CreateOutput
<1>5. CASE EntryGatesPass(p)  BY <1>5 DEF EntryGatesPass
<1>6. CASE EntryGateFails(p)  BY <1>6 DEF EntryGateFails, AfterEntryFailure
<1>7. CASE ValidationRaises(p)  BY <1>7 DEF ValidationRaises
<1>8. CASE PublishValidation(p)  BY <1>8 DEF PublishValidation, Verdict
<1>9. CASE RecordValidation(p)  BY <1>9 DEF RecordValidation
<1>10. CASE ValidationHandler(p)  BY <1>10 DEF ValidationHandler, FailedValidation
<1>11. CASE LoadLedger(p)  BY <1>11 DEF LoadLedger
<1>12. CASE VerifyPinned(p)  BY <1>12 DEF VerifyPinned
<1>13. CASE ReserveAttempt(p)  BY <1>13 DEF ReserveAttempt, AttemptTaken, AfterReservation
<1>14. CASE ReservationRaises(p)  BY <1>14 DEF ReservationRaises
<1>15. CASE RecordReservation(p)  BY <1>15 DEF RecordReservation, Reserved
<1>16. CASE CheckManifest(p)  BY <1>16 DEF CheckManifest
<1>17. CASE HashPartition(p)  BY <1>17 DEF HashPartition
<1>18. CASE ReadColumns(p)  BY <1>18 DEF ReadColumns
<1>19. CASE EvaluateModels(p)  BY <1>19 DEF EvaluateModels
<1>20. CASE PublishFinal(p)  BY <1>20 DEF PublishFinal, Verdict, FinalStatus
<1>21. CASE RecordFinal(p)  BY <1>21 DEF RecordFinal
<1>22. CASE PublishFailure(p)  BY <1>22 DEF PublishFailure, FailureReportTaken, FailureOf
<1>23. CASE RecordFailure(p)  BY <1>23 DEF RecordFailure, FailedFinal
<1>24. CASE Crash(p)  BY <1>24 DEF Crash
<1> QED
  BY <1>1, <1>2, <1>3, <1>4, <1>5, <1>6, <1>7, <1>8, <1>9, <1>10, <1>11, <1>12,
     <1>13, <1>14, <1>15, <1>16, <1>17, <1>18, <1>19, <1>20, <1>21, <1>22, <1>23, <1>24
  DEF Step, Validation, FinalEvaluation

\* mkdir(exist_ok=False) admits one validator; nobody can start the final half
\* before that validator has recorded its outcome.
LEMMA ValidatorStep ==
  ASSUME IInv, TypeOK', NEW p \in Operators, Step(p) \/ Crash(p)
  PROVE  ValidatorInv'
<1> USE DEF IInv, TypeOK, disk, local, Goto, Exit, Published, ValidatorInv,
        OneValidator, Validating, Unready, InFinal, FreshInv, EvidenceInv, AttemptInv
<1>1. CASE StartValidation(p)  BY <1>1 DEF StartValidation, NoLedger
<1>2. CASE ReserveValidation(p)
  <2>1. CASE ledgerDir  BY <1>2, <2>1 DEF ReserveValidation, DirectoryTaken, NoLedger
  <2>2. CASE ~ledgerDir
    <3>1. /\ ledger.status = "none" /\ ~marker /\ ~entryReport
          /\ validationReport = "none"
          /\ \A q \in Operators : pc[q] \in {"idle", "val_reserve"}
      BY <2>2
    <3>2. /\ UNCHANGED <<ledger, marker, entryReport, validationReport>>
          /\ pc' = [pc EXCEPT ![p] = "val_ledger_create"]
          /\ mem' = [mem EXCEPT ![p].status = "validation_reserved"]
      BY <1>2, <2>2 DEF ReserveValidation, DirectoryTaken
    <3>3. mem'[p].status = "validation_reserved"
      BY <3>2 DEF Ledgers
    <3> QED  BY <3>1, <3>2, <3>3
  <2> QED  BY <2>1, <2>2
<1>3. CASE CreateLedger(p)  BY <1>3 DEF CreateLedger, NoLedger
<1>4. CASE CreateOutput(p)  BY <1>4 DEF CreateOutput
<1>5. CASE EntryGatesPass(p)  BY <1>5 DEF EntryGatesPass
<1>6. CASE EntryGateFails(p)  BY <1>6 DEF EntryGateFails, AfterEntryFailure
<1>7. CASE ValidationRaises(p)  BY <1>7 DEF ValidationRaises
<1>8. CASE PublishValidation(p)
  <2>1. /\ pc[p] = "val_train"
        /\ UNCHANGED <<ledger, marker, entryReport>>
        /\ \A q \in Operators : q # p => pc'[q] = pc[q] /\ mem'[q] = mem[q]
    BY <1>8 DEF PublishValidation
  <2>2. \A q \in Operators : pc[q] \in Unready => q = p
    BY <2>1
  <2>3. pc'[p] \in {"val_ledger", "val_failed"}
    BY <1>8 DEF PublishValidation
  <2>4. pc'[p] = "val_ledger" =>
          \/ mem'[p].status = "ready_for_final" /\ validationReport' = "passed"
          \/ mem'[p].status = "validation_gates_failed"
    <3>1. mem[p] \in Ledgers
      OBVIOUS
    <3> QED  BY <1>8, <3>1 DEF PublishValidation, Outcomes, Verdict, Ledgers
  <2>5. OneValidator'
    BY <2>1, <2>3
  <2> QED  BY <2>1, <2>2, <2>3, <2>4, <2>5
<1>9. CASE RecordValidation(p)  BY <1>9 DEF RecordValidation
<1>10. CASE ValidationHandler(p)  BY <1>10 DEF ValidationHandler, FailedValidation
<1>11. CASE LoadLedger(p)  BY <1>11 DEF LoadLedger
<1>12. CASE VerifyPinned(p)  BY <1>12 DEF VerifyPinned
<1>13. CASE ReserveAttempt(p)  BY <1>13 DEF ReserveAttempt, AttemptTaken, AfterReservation
<1>14. CASE ReservationRaises(p)  BY <1>14 DEF ReservationRaises
<1>15. CASE RecordReservation(p)  BY <1>15 DEF RecordReservation, Reserved
<1>16. CASE CheckManifest(p)  BY <1>16 DEF CheckManifest
<1>17. CASE HashPartition(p)  BY <1>17 DEF HashPartition
<1>18. CASE ReadColumns(p)  BY <1>18 DEF ReadColumns
<1>19. CASE EvaluateModels(p)  BY <1>19 DEF EvaluateModels
<1>20. CASE PublishFinal(p)  BY <1>20 DEF PublishFinal, Verdict, FinalStatus
<1>21. CASE RecordFinal(p)  BY <1>21 DEF RecordFinal
<1>22. CASE PublishFailure(p)  BY <1>22 DEF PublishFailure, FailureReportTaken, FailureOf
<1>23. CASE RecordFailure(p)  BY <1>23 DEF RecordFailure, FailedFinal
<1>24. CASE Crash(p)  BY <1>24 DEF Crash
<1> QED
  BY <1>1, <1>2, <1>3, <1>4, <1>5, <1>6, <1>7, <1>8, <1>9, <1>10, <1>11, <1>12,
     <1>13, <1>14, <1>15, <1>16, <1>17, <1>18, <1>19, <1>20, <1>21, <1>22, <1>23, <1>24
  DEF Step, Validation, FinalEvaluation

\* Only a validator that published a passing report writes ready_for_final.
LEMMA EvidenceStep ==
  ASSUME IInv, TypeOK', NEW p \in Operators, Step(p) \/ Crash(p)
  PROVE  EvidenceInv'
<1> USE DEF IInv, TypeOK, disk, local, Goto, Exit, Published, EvidenceInv, InFinal,
        ValidatorInv, Unready
<1>1. CASE StartValidation(p)  BY <1>1 DEF StartValidation, NoLedger
<1>2. CASE ReserveValidation(p)  BY <1>2 DEF ReserveValidation, DirectoryTaken, NoLedger
<1>3. CASE CreateLedger(p)  BY <1>3 DEF CreateLedger, NoLedger
<1>4. CASE CreateOutput(p)  BY <1>4 DEF CreateOutput
<1>5. CASE EntryGatesPass(p)  BY <1>5 DEF EntryGatesPass
<1>6. CASE EntryGateFails(p)  BY <1>6 DEF EntryGateFails, AfterEntryFailure
<1>7. CASE ValidationRaises(p)  BY <1>7 DEF ValidationRaises
<1>8. CASE PublishValidation(p)  BY <1>8 DEF PublishValidation, Verdict
<1>9. CASE RecordValidation(p)  BY <1>9 DEF RecordValidation
<1>10. CASE ValidationHandler(p)  BY <1>10 DEF ValidationHandler, FailedValidation
<1>11. CASE LoadLedger(p)  BY <1>11 DEF LoadLedger
<1>12. CASE VerifyPinned(p)  BY <1>12 DEF VerifyPinned
<1>13. CASE ReserveAttempt(p)  BY <1>13 DEF ReserveAttempt, AttemptTaken, AfterReservation
<1>14. CASE ReservationRaises(p)  BY <1>14 DEF ReservationRaises
<1>15. CASE RecordReservation(p)  BY <1>15 DEF RecordReservation, Reserved
<1>16. CASE CheckManifest(p)  BY <1>16 DEF CheckManifest
<1>17. CASE HashPartition(p)  BY <1>17 DEF HashPartition
<1>18. CASE ReadColumns(p)  BY <1>18 DEF ReadColumns
<1>19. CASE EvaluateModels(p)  BY <1>19 DEF EvaluateModels
<1>20. CASE PublishFinal(p)  BY <1>20 DEF PublishFinal, Verdict, FinalStatus
<1>21. CASE RecordFinal(p)  BY <1>21 DEF RecordFinal
<1>22. CASE PublishFailure(p)  BY <1>22 DEF PublishFailure, FailureReportTaken, FailureOf
<1>23. CASE RecordFailure(p)  BY <1>23 DEF RecordFailure, FailedFinal
<1>24. CASE Crash(p)  BY <1>24 DEF Crash
<1> QED
  BY <1>1, <1>2, <1>3, <1>4, <1>5, <1>6, <1>7, <1>8, <1>9, <1>10, <1>11, <1>12,
     <1>13, <1>14, <1>15, <1>16, <1>17, <1>18, <1>19, <1>20, <1>21, <1>22, <1>23, <1>24
  DEF Step, Validation, FinalEvaluation

\* O_EXCL admits one attempt; past the marker the calls of one process follow.
LEMMA AttemptStep ==
  ASSUME IInv, TypeOK', NEW p \in Operators, Step(p) \/ Crash(p)
  PROVE  AttemptInv'
<1> USE DEF IInv, TypeOK, disk, local, Goto, Exit, AttemptInv, PreAccess, PostAccess,
        ValidatorInv, EvidenceInv
<1>1. CASE StartValidation(p)  BY <1>1 DEF StartValidation, NoLedger
<1>2. CASE ReserveValidation(p)  BY <1>2 DEF ReserveValidation, DirectoryTaken, NoLedger
<1>3. CASE CreateLedger(p)  BY <1>3 DEF CreateLedger, NoLedger
<1>4. CASE CreateOutput(p)  BY <1>4 DEF CreateOutput
<1>5. CASE EntryGatesPass(p)  BY <1>5 DEF EntryGatesPass
<1>6. CASE EntryGateFails(p)  BY <1>6 DEF EntryGateFails, AfterEntryFailure
<1>7. CASE ValidationRaises(p)  BY <1>7 DEF ValidationRaises
<1>8. CASE PublishValidation(p)  BY <1>8 DEF PublishValidation, Verdict
<1>9. CASE RecordValidation(p)  BY <1>9 DEF RecordValidation
<1>10. CASE ValidationHandler(p)  BY <1>10 DEF ValidationHandler, FailedValidation
<1>11. CASE LoadLedger(p)  BY <1>11 DEF LoadLedger
<1>12. CASE VerifyPinned(p)  BY <1>12 DEF VerifyPinned
<1>13. CASE ReserveAttempt(p)  BY <1>13 DEF ReserveAttempt, AttemptTaken, AfterReservation
<1>14. CASE ReservationRaises(p)  BY <1>14 DEF ReservationRaises
<1>15. CASE RecordReservation(p)  BY <1>15 DEF RecordReservation, Reserved
<1>16. CASE CheckManifest(p)  BY <1>16 DEF CheckManifest
<1>17. CASE HashPartition(p)  BY <1>17 DEF HashPartition
<1>18. CASE ReadColumns(p)  BY <1>18 DEF ReadColumns
<1>19. CASE EvaluateModels(p)  BY <1>19 DEF EvaluateModels
<1>20. CASE PublishFinal(p)  BY <1>20 DEF PublishFinal, Verdict, FinalStatus
<1>21. CASE RecordFinal(p)  BY <1>21 DEF RecordFinal
<1>22. CASE PublishFailure(p)  BY <1>22 DEF PublishFailure, FailureReportTaken, FailureOf
<1>23. CASE RecordFailure(p)  BY <1>23 DEF RecordFailure, FailedFinal
<1>24. CASE Crash(p)  BY <1>24 DEF Crash
<1> QED
  BY <1>1, <1>2, <1>3, <1>4, <1>5, <1>6, <1>7, <1>8, <1>9, <1>10, <1>11, <1>12,
     <1>13, <1>14, <1>15, <1>16, <1>17, <1>18, <1>19, <1>20, <1>21, <1>22, <1>23, <1>24
  DEF Step, Validation, FinalEvaluation

\* The ledger is written from the memory of the process that holds the attempt,
\* or by the failure handler of a validator.
LEMMA LedgerStep ==
  ASSUME IInv, TypeOK', NEW p \in Operators, Step(p) \/ Crash(p)
  PROVE  LedgerInv'
<1> USE DEF IInv, TypeOK, disk, local, Goto, Exit, Published, LedgerInv, Recorded,
        PreAccess, PostAccess, AttemptInv, ValidatorInv, Unready, InFinal
<1>1. CASE StartValidation(p)  BY <1>1 DEF StartValidation, NoLedger
<1>2. CASE ReserveValidation(p)  BY <1>2 DEF ReserveValidation, DirectoryTaken, NoLedger
<1>3. CASE CreateLedger(p)  BY <1>3 DEF CreateLedger, NoLedger
<1>4. CASE CreateOutput(p)  BY <1>4 DEF CreateOutput
<1>5. CASE EntryGatesPass(p)  BY <1>5 DEF EntryGatesPass
<1>6. CASE EntryGateFails(p)  BY <1>6 DEF EntryGateFails, AfterEntryFailure
<1>7. CASE ValidationRaises(p)  BY <1>7 DEF ValidationRaises
<1>8. CASE PublishValidation(p)  BY <1>8 DEF PublishValidation, Verdict
<1>9. CASE RecordValidation(p)  BY <1>9 DEF RecordValidation
<1>10. CASE ValidationHandler(p)
  <2>1. mem[p] \in Ledgers
    OBVIOUS
  <2>2. ~entryReport => Recorded(FailedValidation(mem[p]))
    BY <2>1 DEF FailedValidation, Ledgers
  <2>3. ledger' = ledger \/ ledger' = FailedValidation(mem[p])
    BY <1>10 DEF ValidationHandler
  <2>4. Recorded(ledger) /\ ~entryReport => Recorded(ledger)'
    BY <2>2, <2>3
  <2>5. /\ UNCHANGED <<accesses, entryReport>>
        /\ \A q \in Operators : q # p => pc'[q] = pc[q] /\ mem'[q] = mem[q]
        /\ pc'[p] = "idle"
    BY <1>10 DEF ValidationHandler
  <2>6. accesses > 0 => ~entryReport
    BY DEF EvidenceInv
  <2>7. \A q \in Operators : pc[q] \in {"fin_manifest", "fin_hash"} => ~entryReport
    BY DEF EvidenceInv
  <2> HIDE DEF Recorded
  <2> QED  BY <2>4, <2>5, <2>6, <2>7
<1>11. CASE LoadLedger(p)  BY <1>11 DEF LoadLedger
<1>12. CASE VerifyPinned(p)  BY <1>12 DEF VerifyPinned
<1>13. CASE ReserveAttempt(p)  BY <1>13 DEF ReserveAttempt, AttemptTaken, AfterReservation
<1>14. CASE ReservationRaises(p)  BY <1>14 DEF ReservationRaises
<1>15. CASE RecordReservation(p)  BY <1>15 DEF RecordReservation, Reserved
<1>16. CASE CheckManifest(p)  BY <1>16 DEF CheckManifest
<1>17. CASE HashPartition(p)  BY <1>17 DEF HashPartition
<1>18. CASE ReadColumns(p)  BY <1>18 DEF ReadColumns
<1>19. CASE EvaluateModels(p)  BY <1>19 DEF EvaluateModels
<1>20. CASE PublishFinal(p)
  <2>1. UNCHANGED <<ledger, accesses>>
    BY <1>20 DEF PublishFinal
  <2>2. \A q \in Operators : q # p => pc'[q] = pc[q]
    BY <1>20 DEF PublishFinal
  <2>3. \A q \in Operators :
          mem'[q].consumed = mem[q].consumed /\ mem'[q].attempts = mem[q].attempts
    <3> TAKE q \in Operators
    <3>1. mem[q] \in Ledgers
      OBVIOUS
    <3>2. \/ UNCHANGED mem
          \/ \E s \in Statuses : mem' = [mem EXCEPT ![p].final = "final", ![p].status = s]
      BY <1>20 DEF PublishFinal, FinalStatus, Statuses
    <3> QED  BY <3>1, <3>2 DEF Ledgers
  <2>4. pc[p] = "fin_report" /\ pc'[p] \in {"fin_done", "fin_failed"}
    BY <1>20 DEF PublishFinal
  <2> QED  BY <2>1, <2>2, <2>3, <2>4
<1>21. CASE RecordFinal(p)  BY <1>21 DEF RecordFinal
<1>22. CASE PublishFailure(p)  BY <1>22 DEF PublishFailure, FailureReportTaken, FailureOf
<1>23. CASE RecordFailure(p)  BY <1>23 DEF RecordFailure, FailedFinal
<1>24. CASE Crash(p)  BY <1>24 DEF Crash
<1> QED
  BY <1>1, <1>2, <1>3, <1>4, <1>5, <1>6, <1>7, <1>8, <1>9, <1>10, <1>11, <1>12,
     <1>13, <1>14, <1>15, <1>16, <1>17, <1>18, <1>19, <1>20, <1>21, <1>22, <1>23, <1>24
  DEF Step, Validation, FinalEvaluation

\* Only RecordFinal writes a completed status, right after its report.
LEMMA CompletionStep ==
  ASSUME IInv, TypeOK', NEW p \in Operators, Step(p) \/ Crash(p)
  PROVE  CompletionInv'
<1> USE DEF IInv, TypeOK, disk, local, Goto, Exit, Published, CompletionInv,
        CompletionIsEvidenced, ValidatorInv, Unready, InFinal, AttemptInv, PreAccess,
        PostAccess, LedgerInv
<1>1. CASE StartValidation(p)  BY <1>1 DEF StartValidation, NoLedger
<1>2. CASE ReserveValidation(p)  BY <1>2 DEF ReserveValidation, DirectoryTaken, NoLedger
<1>3. CASE CreateLedger(p)  BY <1>3 DEF CreateLedger, NoLedger
<1>4. CASE CreateOutput(p)  BY <1>4 DEF CreateOutput
<1>5. CASE EntryGatesPass(p)  BY <1>5 DEF EntryGatesPass
<1>6. CASE EntryGateFails(p)  BY <1>6 DEF EntryGateFails, AfterEntryFailure
<1>7. CASE ValidationRaises(p)  BY <1>7 DEF ValidationRaises
<1>8. CASE PublishValidation(p)  BY <1>8 DEF PublishValidation, Verdict
<1>9. CASE RecordValidation(p)  BY <1>9 DEF RecordValidation
<1>10. CASE ValidationHandler(p)  BY <1>10 DEF ValidationHandler, FailedValidation
<1>11. CASE LoadLedger(p)  BY <1>11 DEF LoadLedger
<1>12. CASE VerifyPinned(p)  BY <1>12 DEF VerifyPinned
<1>13. CASE ReserveAttempt(p)  BY <1>13 DEF ReserveAttempt, AttemptTaken, AfterReservation
<1>14. CASE ReservationRaises(p)  BY <1>14 DEF ReservationRaises
<1>15. CASE RecordReservation(p)  BY <1>15 DEF RecordReservation, Reserved
<1>16. CASE CheckManifest(p)  BY <1>16 DEF CheckManifest
<1>17. CASE HashPartition(p)  BY <1>17 DEF HashPartition
<1>18. CASE ReadColumns(p)  BY <1>18 DEF ReadColumns
<1>19. CASE EvaluateModels(p)  BY <1>19 DEF EvaluateModels
<1>20. CASE PublishFinal(p)
  <2>1. /\ UNCHANGED <<ledger, marker, accesses>>
        /\ finalReport # "none" => UNCHANGED finalReport
    BY <1>20 DEF PublishFinal
  <2>2. CompletionIsEvidenced'
    BY <2>1
  <2>3. \A q \in Operators : pc'[q] = "fin_done" => q = p
    BY <1>20 DEF PublishFinal
  <2>4. pc'[p] = "fin_done" =>
          \E passed \in BOOLEAN :
            /\ finalReport' = Verdict(passed)
            /\ mem' = [mem EXCEPT ![p].final = "final",
                                  ![p].status = FinalStatus(passed)]
    BY <1>20 DEF PublishFinal, Outcomes
  <2>5. mem[p] \in Ledgers
    OBVIOUS
  <2> QED  BY <2>2, <2>3, <2>4, <2>5 DEF Ledgers, Verdict, FinalStatus
<1>21. CASE RecordFinal(p)  BY <1>21 DEF RecordFinal
<1>22. CASE PublishFailure(p)  BY <1>22 DEF PublishFailure, FailureReportTaken, FailureOf
<1>23. CASE RecordFailure(p)  BY <1>23 DEF RecordFailure, FailedFinal
<1>24. CASE Crash(p)  BY <1>24 DEF Crash
<1> QED
  BY <1>1, <1>2, <1>3, <1>4, <1>5, <1>6, <1>7, <1>8, <1>9, <1>10, <1>11, <1>12,
     <1>13, <1>14, <1>15, <1>16, <1>17, <1>18, <1>19, <1>20, <1>21, <1>22, <1>23, <1>24
  DEF Step, Validation, FinalEvaluation

\* The digest is observed exactly when the stage leaves partition_identity.
LEMMA StageStep ==
  ASSUME IInv, TypeOK', NEW p \in Operators, Step(p) \/ Crash(p)
  PROVE  StageInv'
<1> USE DEF IInv, TypeOK, disk, local, Goto, Exit, Published, StageInv,
        FailureReportAccepted, Accepted, PostAccess, EarlyStages, LateStages, NoFailure
<1>1. CASE StartValidation(p)  BY <1>1 DEF StartValidation, NoLedger
<1>2. CASE ReserveValidation(p)  BY <1>2 DEF ReserveValidation, DirectoryTaken, NoLedger
<1>3. CASE CreateLedger(p)  BY <1>3 DEF CreateLedger, NoLedger
<1>4. CASE CreateOutput(p)  BY <1>4 DEF CreateOutput
<1>5. CASE EntryGatesPass(p)  BY <1>5 DEF EntryGatesPass
<1>6. CASE EntryGateFails(p)  BY <1>6 DEF EntryGateFails, AfterEntryFailure
<1>7. CASE ValidationRaises(p)  BY <1>7 DEF ValidationRaises
<1>8. CASE PublishValidation(p)  BY <1>8 DEF PublishValidation, Verdict
<1>9. CASE RecordValidation(p)  BY <1>9 DEF RecordValidation
<1>10. CASE ValidationHandler(p)  BY <1>10 DEF ValidationHandler, FailedValidation
<1>11. CASE LoadLedger(p)  BY <1>11 DEF LoadLedger
<1>12. CASE VerifyPinned(p)  BY <1>12 DEF VerifyPinned
<1>13. CASE ReserveAttempt(p)  BY <1>13 DEF ReserveAttempt, AttemptTaken, AfterReservation
<1>14. CASE ReservationRaises(p)  BY <1>14 DEF ReservationRaises
<1>15. CASE RecordReservation(p)  BY <1>15 DEF RecordReservation, Reserved
<1>16. CASE CheckManifest(p)  BY <1>16 DEF CheckManifest
<1>17. CASE HashPartition(p)  BY <1>17 DEF HashPartition
<1>18. CASE ReadColumns(p)  BY <1>18 DEF ReadColumns
<1>19. CASE EvaluateModels(p)  BY <1>19 DEF EvaluateModels
<1>20. CASE PublishFinal(p)  BY <1>20 DEF PublishFinal, Verdict, FinalStatus
<1>21. CASE RecordFinal(p)  BY <1>21 DEF RecordFinal
<1>22. CASE PublishFailure(p)  BY <1>22 DEF PublishFailure, FailureReportTaken, FailureOf
<1>23. CASE RecordFailure(p)  BY <1>23 DEF RecordFailure, FailedFinal
<1>24. CASE Crash(p)  BY <1>24 DEF Crash
<1> QED
  BY <1>1, <1>2, <1>3, <1>4, <1>5, <1>6, <1>7, <1>8, <1>9, <1>10, <1>11, <1>12,
     <1>13, <1>14, <1>15, <1>16, <1>17, <1>18, <1>19, <1>20, <1>21, <1>22, <1>23, <1>24
  DEF Step, Validation, FinalEvaluation

\* Drift of the inputs, and stuttering, disturb no part.
LEMMA FrameStep ==
  ASSUME IInv, TypeOK', UNCHANGED <<disk, local, accesses>>
  PROVE  IInv'
<1> USE DEF IInv, disk, local
<1>1. FreshInv'  BY DEF FreshInv
<1>2. ValidatorInv'  BY DEF ValidatorInv, OneValidator, Validating
<1>3. EvidenceInv'  BY DEF EvidenceInv
<1>4. AttemptInv'  BY DEF AttemptInv
<1>5. LedgerInv'  BY DEF LedgerInv
<1>6. CompletionInv'  BY DEF CompletionInv, CompletionIsEvidenced
<1>7. StageInv'  BY DEF StageInv, FailureReportAccepted
<1> QED  BY <1>1, <1>2, <1>3, <1>4, <1>5, <1>6, <1>7

LEMMA InvInit == Init => IInv
<1> SUFFICES ASSUME Init PROVE IInv
  OBVIOUS
<1>0. TypeOK
  BY TypeInit
<1>1. FreshInv  BY DEF Init, FreshInv, NoLedger
<1>2. ValidatorInv
  BY DEF Init, ValidatorInv, OneValidator, Validating, Unready
<1>3. EvidenceInv  BY DEF Init, EvidenceInv, InFinal, NoLedger
<1>4. AttemptInv  BY DEF Init, AttemptInv, PreAccess, PostAccess
<1>5. LedgerInv  BY DEF Init, LedgerInv, PostAccess
<1>6. CompletionInv  BY DEF Init, CompletionInv, CompletionIsEvidenced, NoLedger
<1>7. StageInv
  BY DEF Init, StageInv, FailureReportAccepted, Accepted, PostAccess, EarlyStages,
        LateStages
<1> QED  BY <1>0, <1>1, <1>2, <1>3, <1>4, <1>5, <1>6, <1>7 DEF IInv

LEMMA InvStep == IInv /\ [Next]_vars => IInv'
<1> SUFFICES ASSUME IInv, [Next]_vars PROVE IInv'
  OBVIOUS
<1>0. TypeOK'
  BY TypeStep DEF IInv
<1>1. ASSUME NEW p \in Operators, Step(p) \/ Crash(p) PROVE IInv'
  BY <1>0, <1>1, FreshStep, ValidatorStep, EvidenceStep, AttemptStep, LedgerStep,
     CompletionStep, StageStep DEF IInv
<1>2. ASSUME NEW x \in Alterable, Alter(x) PROVE IInv'
  BY <1>0, <1>2, FrameStep DEF Alter
<1>3. CASE UNCHANGED vars  BY <1>0, <1>3, FrameStep DEF vars
<1> QED
  BY <1>1, <1>2, <1>3 DEF Next

\* The strengthening that every safety theorem below rests on.
THEOREM Invariance == Spec => []IInv
BY InvInit, InvStep, PTL DEF Spec

-----------------------------------------------------------------------------
(* What it implies *)

\* However often final-evaluate is invoked, by however many processes, and
\* wherever they are killed, the locked partition is opened at most once.
THEOREM SingleAccess == Spec => []AtMostOneAccess
<1>1. IInv => AtMostOneAccess
  BY DEF IInv, AttemptInv, AtMostOneAccess
<1> QED  BY <1>1, Invariance, PTL

\* An opened partition is on the ledger as a consumed attempt, unless a failed
\* validator overwrote the ledger from its stale memory.
THEOREM RecordedAccess == Spec => []AccessIsRecorded
<1>1. IInv => AccessIsRecorded
  BY DEF IInv, LedgerInv, Recorded, AccessIsRecorded
<1> QED  BY <1>1, Invariance, PTL

\* The attempt is never reserved without a passing validation report.
THEOREM PassingEvidence == Spec => []ReservedOnPassingEvidence
<1>1. IInv => ReservedOnPassingEvidence
  BY DEF IInv, EvidenceInv, ReservedOnPassingEvidence
<1> QED  BY <1>1, Invariance, PTL

\* Past the directory reservation, run_to_validation runs in one process.
THEOREM SingleValidator == Spec => []OneValidator
<1>1. IInv => OneValidator
  BY DEF IInv, ValidatorInv
<1> QED  BY <1>1, Invariance, PTL

\* A ledger that declares completion pins the report it declares.
THEOREM EvidencedCompletion == Spec => []CompletionIsEvidenced
<1>1. IInv => CompletionIsEvidenced
  BY DEF IInv, CompletionInv
<1> QED  BY <1>1, Invariance, PTL

\* Every failure report the runner can publish is one the freezer accepts.
THEOREM AcceptedFailureReport == Spec => []FailureReportAccepted
<1>1. IInv => FailureReportAccepted
  BY DEF IInv, StageInv
<1> QED  BY <1>1, Invariance, PTL

-----------------------------------------------------------------------------
(* Action properties and refinement *)

\* The action under the box of NeverReopened.
StaysClosed ==
    marker =>
        /\ ledger'.status = "ready_for_final" => ledger.status = "ready_for_final"
        /\ finalReport # "none" => finalReport' = finalReport
        /\ failureReport # NoFailure => failureReport' = failureReport

\* Neither a step of a validator nor one of a final evaluation reopens the
\* attempt or replaces a published report.
LEMMA StaysClosedStep == IInv /\ [Next]_vars => StaysClosed
<1> SUFFICES ASSUME IInv, [Next]_vars, marker PROVE StaysClosed
  BY DEF StaysClosed
<1> USE DEF StaysClosed, disk
<1>1. ASSUME NEW p \in Operators, Validation(p) PROVE StaysClosed
  <2>1. CASE RecordValidation(p)
    BY <2>1 DEF RecordValidation, IInv, ValidatorInv, Unready
  <2>2. CASE CreateLedger(p)  BY <2>2 DEF CreateLedger, IInv, ValidatorInv, Unready
  <2>3. CASE ValidationHandler(p)
    <3>1. mem[p] \in Ledgers
      BY DEF IInv, TypeOK
    <3>2. FailedValidation(mem[p]).status # "ready_for_final"
      BY <3>1 DEF FailedValidation, Ledgers
    <3> QED  BY <2>3, <3>2 DEF ValidationHandler
  <2>4. CASE UNCHANGED <<ledger, finalReport, failureReport>>  BY <2>4
  <2> QED
    BY <1>1, <2>1, <2>2, <2>3, <2>4
    DEF Validation, StartValidation, ReserveValidation, CreateOutput, EntryGatesPass,
        EntryGateFails, ValidationRaises, PublishValidation
<1>2. ASSUME NEW p \in Operators, FinalEvaluation(p) PROVE StaysClosed
  <2>m. mem[p] \in Ledgers
    BY DEF IInv, TypeOK
  <2>1. CASE RecordReservation(p)  BY <2>1, <2>m DEF RecordReservation, Reserved, Ledgers
  <2>2. CASE PublishFinal(p)  BY <2>2 DEF PublishFinal
  <2>3. CASE RecordFinal(p)  BY <2>3 DEF RecordFinal, IInv, CompletionInv
  <2>4. CASE PublishFailure(p)  BY <2>4 DEF PublishFailure, FailureReportTaken
  <2>5. CASE RecordFailure(p)  BY <2>5, <2>m DEF RecordFailure, FailedFinal, Ledgers
  <2>6. CASE UNCHANGED <<ledger, finalReport, failureReport>>  BY <2>6
  <2> QED
    BY <1>2, <2>1, <2>2, <2>3, <2>4, <2>5, <2>6
    DEF FinalEvaluation, LoadLedger, VerifyPinned, ReserveAttempt, ReservationRaises,
        CheckManifest, HashPartition, ReadColumns, EvaluateModels
<1>3. CASE UNCHANGED <<ledger, finalReport, failureReport>>  BY <1>3
<1> QED
  BY <1>1, <1>2, <1>3 DEF Next, Step, Crash, Alter, vars

\* No step reopens a taken attempt or replaces a published report.
THEOREM ClosedForGood == Spec => NeverReopened
BY Invariance, StaysClosedStep, PTL DEF Spec, NeverReopened, StaysClosed

\* A step of the runners is a step of the one-shot experiment or a stutter.
LEMMA AbstractStep == IInv /\ IInv' /\ [Next]_vars => [Abstract!Next]_Abstract!vars
<1> SUFFICES ASSUME IInv, IInv', [Next]_vars PROVE [Abstract!Next]_Abstract!vars
  OBVIOUS
<1> USE DEF Abstract!Next, Abstract!vars, disk
<1>1. ASSUME NEW p \in Operators, PublishValidation(p)
      PROVE  [Abstract!Next]_Abstract!vars
  BY <1>1 DEF PublishValidation, Abstract!Validate
<1>2. ASSUME NEW p \in Operators, ReserveAttempt(p)
      PROVE  [Abstract!Next]_Abstract!vars
  BY <1>2 DEF ReserveAttempt, AttemptTaken, IInv, EvidenceInv, Abstract!Reserve
<1>3. ASSUME NEW p \in Operators, HashPartition(p)
      PROVE  [Abstract!Next]_Abstract!vars
  BY <1>3 DEF HashPartition, IInv, AttemptInv, PreAccess, Abstract!Access
<1>4. CASE UNCHANGED <<validationReport, marker, accesses>>  BY <1>4
<1> QED
  BY <1>1, <1>2, <1>3, <1>4
  DEF Next, Step, Validation, FinalEvaluation, StartValidation, ReserveValidation,
      CreateLedger, CreateOutput, EntryGatesPass, EntryGateFails, ValidationRaises,
      RecordValidation, ValidationHandler, LoadLedger, VerifyPinned, ReservationRaises,
      RecordReservation, CheckManifest, ReadColumns, EvaluateModels, PublishFinal,
      RecordFinal, PublishFailure, RecordFailure, Crash, Alter, vars

\* The runner implements the one-shot experiment, for any number of processes.
THEOREM Refinement == Spec => ImplementsOneShot
<1>1. Init => Abstract!Init
  BY DEF Init, Abstract!Init
<1> QED
  BY <1>1, Invariance, AbstractStep, PTL DEF Spec, ImplementsOneShot, Abstract!Spec

-----------------------------------------------------------------------------
(* The frozen result: the runner of PilotFreeze is a runner of Pilot, so all  *)
(* of the above holds of it; what follows relates the reports on disk to the  *)
(* study that is run, and the snapshot to the reports it was made of.         *)

LEMMA FreezeSteps == [FreezeNext]_freezeVars => [Next]_vars
BY DEF FreezeNext, freezeVars, RunnerStep, Freeze

\* Freezing changes nothing that the runner reads, and the study only settles
\* decisions the runner may take either way.
THEOREM FreezingIsReadOnly == FreezeSpec => Spec
<1>1. FreezeInit => Init
  BY DEF FreezeInit
<1> QED  BY <1>1, FreezeSteps, PTL DEF FreezeSpec, Spec

\* Every report on disk is the one the study leads to, and stands for how far the
\* runner got.
ReportsInv ==
    /\ project \in DOMAIN Studies /\ content = Content(Studies[project])
    /\ validationReport # "none" =>
          validationReport = Verdict(content.validated) /\ content.trained
    /\ finalReport # "none" => finalReport = Verdict(content.successful) /\ accesses = 1
    /\ entryReport => ~content.trained
    /\ failureReport # NoFailure => marker
    /\ \A p \in Operators : pc[p] = "val_train" => content.trained

\* The snapshot is a result of the study, and the reports it was made of are still
\* on disk, unchanged.
SnapshotInv ==
    snapshot # NoValue =>
        snapshot \in content.results /\ snapshot.selection \in SelectionsOnDisk

FreezeInv == IInv /\ ReportsInv /\ SnapshotInv

LEMMA VerdictIsGiven == ASSUME NEW passed PROVE Verdict(passed) # "none"
BY DEF Verdict

LEMMA FreezeInvInit == FreezeInit => FreezeInv
<1> SUFFICES ASSUME FreezeInit PROVE FreezeInv
  OBVIOUS
<1>1. IInv
  BY InvInit DEF FreezeInit
<1>2. ReportsInv
  BY DEF FreezeInit, Init, ReportsInv
<1>3. SnapshotInv
  BY DEF FreezeInit, SnapshotInv
<1> QED  BY <1>1, <1>2, <1>3 DEF FreezeInv

\* No step loses a report, reopens the attempt or moves a failure report.
LEMMA ReportsStay ==
  ASSUME IInv, IInv', ReportsInv, [Next]_vars
  PROVE  /\ entryReport => entryReport'
         /\ marker => marker'
         /\ accesses = 1 => accesses' = 1
         /\ failureReport # NoFailure => failureReport' = failureReport
<1>1. accesses \in {0, 1} /\ accesses' \in {0, 1}
  BY DEF IInv, AttemptInv
<1>2. entryReport \in BOOLEAN
  BY DEF IInv, TypeOK
<1>3. ASSUME NEW p \in Operators, EntryGateFails(p)
      PROVE  /\ entryReport => entryReport'
             /\ UNCHANGED <<marker, accesses, failureReport>>
  BY <1>2, <1>3 DEF EntryGateFails
<1>4. ASSUME NEW p \in Operators, ReserveAttempt(p)
      PROVE  marker' /\ UNCHANGED <<entryReport, accesses, failureReport>>
  BY <1>4 DEF ReserveAttempt
<1>5. ASSUME NEW p \in Operators, HashPartition(p)
      PROVE  accesses' = 1 /\ UNCHANGED <<entryReport, marker, failureReport>>
  BY <1>1, <1>5 DEF HashPartition, disk
<1>6. ASSUME NEW p \in Operators, PublishFailure(p)
      PROVE  /\ failureReport # NoFailure => failureReport' = failureReport
             /\ UNCHANGED <<entryReport, marker, accesses>>
  BY <1>6 DEF PublishFailure, FailureReportTaken
<1>7. CASE UNCHANGED <<entryReport, marker, accesses, failureReport>>
  BY <1>7
<1> QED
  BY <1>3, <1>4, <1>5, <1>6, <1>7
  DEF Next, Step, Validation, FinalEvaluation, StartValidation, ReserveValidation,
      CreateLedger, CreateOutput, EntryGatesPass, ValidationRaises, PublishValidation,
      RecordValidation, ValidationHandler, LoadLedger, VerifyPinned, ReservationRaises,
      RecordReservation, CheckManifest, ReadColumns, EvaluateModels, PublishFinal,
      RecordFinal, PublishFailure, RecordFailure, Crash, Alter, vars, disk

\* Each report appears in one action, at a call that only a study of its kind reaches.
LEMMA ReportsAppear ==
  ASSUME IInv, [Next]_vars
  PROVE  /\ validationReport' # validationReport =>
               \E p \in Operators : pc[p] = "val_train"
         /\ finalReport' # finalReport => \E p \in Operators : pc[p] = "fin_report"
         /\ failureReport' # failureReport => \E p \in Operators : pc[p] = "fin_failed"
         /\ \A p \in Operators :
              pc'[p] = "val_train" => pc[p] \in {"val_entry", "val_train"}
<1>0. pc \in [Operators -> Locations]
  BY DEF IInv, TypeOK
<1>1. ASSUME NEW q \in Operators, Validation(q)
      PROVE  \A p \in Operators : pc'[p] = "val_train" => pc[p] \in {"val_entry", "val_train"}
  BY <1>0, <1>1
  DEF Validation, StartValidation, ReserveValidation, CreateLedger, CreateOutput,
      EntryGatesPass, EntryGateFails, AfterEntryFailure, ValidationRaises,
      PublishValidation, RecordValidation, ValidationHandler, Goto, Exit
<1>2. ASSUME NEW q \in Operators, FinalEvaluation(q) \/ Crash(q)
      PROVE  \A p \in Operators : pc'[p] = "val_train" => pc[p] \in {"val_entry", "val_train"}
  BY <1>0, <1>2
  DEF FinalEvaluation, LoadLedger, VerifyPinned, ReserveAttempt, AfterReservation,
      ReservationRaises, RecordReservation, CheckManifest, HashPartition, ReadColumns,
      EvaluateModels, PublishFinal, RecordFinal, PublishFailure, RecordFailure, Crash,
      Goto, Exit
<1>3. \A p \in Operators : pc'[p] = "val_train" => pc[p] \in {"val_entry", "val_train"}
  BY <1>1, <1>2 DEF Next, Step, Alter, vars, local
<1>4. ASSUME NEW p \in Operators, PublishValidation(p)
      PROVE  pc[p] = "val_train" /\ UNCHANGED <<finalReport, failureReport>>
  BY <1>4 DEF PublishValidation
<1>5. ASSUME NEW p \in Operators, PublishFinal(p)
      PROVE  pc[p] = "fin_report" /\ UNCHANGED <<validationReport, failureReport>>
  BY <1>5 DEF PublishFinal
<1>6. ASSUME NEW p \in Operators, PublishFailure(p)
      PROVE  pc[p] = "fin_failed" /\ UNCHANGED <<validationReport, finalReport>>
  BY <1>6 DEF PublishFailure
<1>7. CASE UNCHANGED <<validationReport, finalReport, failureReport>>
  BY <1>3, <1>7
<1> QED
  BY <1>3, <1>4, <1>5, <1>6, <1>7
  DEF Next, Step, Validation, FinalEvaluation, StartValidation, ReserveValidation,
      CreateLedger, CreateOutput, EntryGatesPass, EntryGateFails, ValidationRaises,
      RecordValidation, ValidationHandler, LoadLedger, VerifyPinned, ReserveAttempt,
      ReservationRaises, RecordReservation, CheckManifest, HashPartition, ReadColumns,
      EvaluateModels, RecordFinal, RecordFailure, Crash, Alter, vars, disk

LEMMA ReportsStep ==
  ASSUME IInv, IInv', ReportsInv, RunnerStep
  PROVE  ReportsInv'
<1> USE DEF RunnerStep
<1>0. [Next]_vars
  OBVIOUS
<1>s. UNCHANGED <<project, content>>
  OBVIOUS
<1>1. project' \in DOMAIN Studies /\ content' = Content(Studies[project'])
  BY <1>s DEF ReportsInv
<1>2. \A p \in Operators : pc'[p] = "val_train" => content'.trained
  BY <1>0, <1>s, ReportsAppear DEF ReportsInv, AgreesWithStudy
<1>3. validationReport' # "none" =>
         validationReport' = Verdict(content'.validated) /\ content'.trained
  <2>1. CASE validationReport' = validationReport
    BY <1>s, <2>1 DEF ReportsInv
  <2>2. CASE validationReport' # validationReport
    BY <1>0, <1>s, <2>2, ReportsAppear DEF ReportsInv, AgreesWithStudy
  <2> QED  BY <2>1, <2>2
<1>4. finalReport' # "none" => finalReport' = Verdict(content'.successful) /\ accesses' = 1
  <2>1. CASE finalReport' = finalReport
    BY <1>0, <1>s, <2>1, ReportsStay DEF ReportsInv
  <2>2. CASE finalReport' # finalReport
    <3>1. accesses = 1
      BY <1>0, <2>2, ReportsAppear DEF IInv, AttemptInv, PostAccess
    <3> QED
      BY <1>0, <1>s, <2>2, <3>1, ReportsStay DEF AgreesWithStudy
  <2> QED  BY <2>1, <2>2
<1>5. entryReport' => ~content'.trained
  BY <1>s DEF ReportsInv, AgreesWithStudy
<1>6. failureReport' # NoFailure => marker'
  <2>1. CASE failureReport' = failureReport
    BY <1>0, <2>1, ReportsStay DEF ReportsInv
  <2>2. CASE failureReport' # failureReport
    BY <1>0, <2>2, ReportsAppear, ReportsStay DEF IInv, AttemptInv
  <2> QED  BY <2>1, <2>2
<1> QED
  BY <1>1, <1>2, <1>3, <1>4, <1>5, <1>6 DEF ReportsInv

LEMMA SnapshotStep ==
  ASSUME IInv, IInv', ReportsInv, SnapshotInv, RunnerStep
  PROVE  SnapshotInv'
<1> SUFFICES ASSUME snapshot # NoValue
             PROVE  snapshot \in content.results /\ snapshot.selection \in SelectionsOnDisk'
  BY DEF SnapshotInv, RunnerStep
<1>1. snapshot \in content.results /\ snapshot.selection \in SelectionsOnDisk
  BY DEF SnapshotInv
<1>2. entryReport => entryReport'
  BY ReportsStay DEF RunnerStep
<1>3. /\ validationReport # "none" => validationReport' # "none"
      /\ finalReport # "none" => finalReport' # "none"
  BY VerdictIsGiven DEF RunnerStep, AgreesWithStudy
<1>4. ASSUME NEW selection \in Selections, selection[2] = "failure", selection[3] = failureReport
      PROVE  selection[3] = failureReport'
  <2>1. selection[3] \in [stage : Stages, observed : Digests]
    BY <1>4 DEF Selections, Firsts
  <2>2. selection[3] # NoFailure
    BY <2>1 DEF NoFailure, Stages, EarlyStages, LateStages
  <2> QED  BY <1>4, <2>2, ReportsStay DEF RunnerStep
<1> QED
  BY <1>1, <1>2, <1>3, <1>4 DEF SelectionsOnDisk

LEMMA FreezeInvStep == FreezeInv /\ [FreezeNext]_freezeVars => FreezeInv'
<1> SUFFICES ASSUME FreezeInv, [FreezeNext]_freezeVars PROVE FreezeInv'
  OBVIOUS
<1> USE DEF FreezeInv
<1>0. IInv'
  BY FreezeSteps, InvStep
<1>1. CASE RunnerStep
  BY <1>0, <1>1, ReportsStep, SnapshotStep
<1>2. CASE Freeze
  <2>1. UNCHANGED <<vars, project, content>>
    BY <1>2 DEF Freeze
  <2>2. ReportsInv'
    BY <2>1 DEF ReportsInv, vars, disk, local
  <2>3. SelectionsOnDisk' = SelectionsOnDisk
    BY <2>1 DEF SelectionsOnDisk, vars, disk
  <2>4. SnapshotInv'
    BY <1>2, <2>1, <2>3 DEF Freeze, SnapshotInv
  <2> QED  BY <1>0, <2>2, <2>4
<1>3. CASE UNCHANGED freezeVars
  <2>1. SelectionsOnDisk' = SelectionsOnDisk
    BY <1>3 DEF SelectionsOnDisk, freezeVars, vars, disk
  <2>2. ReportsInv' /\ SnapshotInv'
    BY <1>3, <2>1 DEF ReportsInv, SnapshotInv, freezeVars, vars, disk, local
  <2> QED  BY <1>0, <2>2
<1> QED
  BY <1>1, <1>2, <1>3 DEF FreezeNext

THEOREM FreezeInvariance == FreezeSpec => []FreezeInv
BY FreezeInvInit, FreezeInvStep, PTL DEF FreezeSpec

-----------------------------------------------------------------------------
(* What a frozen result says of the reports it was made of *)

\* What can be read off a report of each kind, whatever its numbers are.
LEMMA ReportKinds ==
  ASSUME NEW study, NEW reports, reports = ReportsOf(study)
  PROVE  /\ reports.entry.kind = "entry"
         /\ reports.validation.kind = "validation"
         /\ reports.final.kind = "final"
         /\ reports.validation.passed \in BOOLEAN
         /\ "passed" \in DOMAIN reports.final.outcome
         /\ AllHold(reports.final.outcome.passed) <=> reports.final.passed
<1>1. reports.entry.kind = "entry"
  BY DEF ReportsOf, Reports, EntryFailureReport
<1>2. reports.validation.kind = "validation" /\ reports.validation.passed \in BOOLEAN
  BY DEF ReportsOf, Reports, ValidationReport, Evaluated, ValidationEvidence
<1>3. ASSUME NEW passed, NEW validation, NEW latency, NEW iv, NEW phase, NEW complete,
             NEW outcome,
             outcome = ClassifyOutcome(passed, validation, latency, iv, phase, complete)
      PROVE  "passed" \in DOMAIN outcome /\ outcome.passed = passed
  BY <1>3 DEF ClassifyOutcome
<1>4. ASSUME NEW validation, NEW models, NEW final, final = FinalEvidence(validation, models)
      PROVE  /\ final.kind = "final"
             /\ "passed" \in DOMAIN final.outcome
             /\ AllHold(final.outcome.passed) <=> final.passed
  <2>1. /\ final.kind = "final"
        /\ final.passed = AllHold(ArmsPassed(models))
        /\ final.outcome = ClassifyOutcome(ArmsPassed(models), validation.models,
                              validation.latency, validation.iv, "final",
                              validation.complete.passed)
    BY <1>4 DEF FinalEvidence
  <2> QED  BY <1>3, <2>1
<1>5. /\ reports.final.kind = "final"
      /\ "passed" \in DOMAIN reports.final.outcome
      /\ AllHold(reports.final.outcome.passed) <=> reports.final.passed
  <2>1. reports.final = FinalReport(study, reports.validation)
    BY DEF ReportsOf, Reports
  <2> QED  BY <1>4, <2>1 DEF FinalReport
<1> QED  BY <1>1, <1>2, <1>5

\* The state that two reports are accepted as evidence of.
LEMMA RawStates ==
  ASSUME NEW validation, NEW final, NEW state, state = RawState(validation, final),
         state # NoValue, validation.kind \in {"entry", "validation"}
  PROVE  /\ state \in {"entry_failure", "validation_terminal",
                       "validation_passed_not_advanced", "final_failed_consumed",
                       "final_complete"}
         /\ state = "entry_failure" <=> validation.kind = "entry"
         /\ state = "validation_terminal" => ~validation.passed
         /\ state = "final_complete" => final # NoValue /\ final.kind # "failure"
<1>1. CASE validation.kind = "entry"
  BY <1>1 DEF RawState
<1>2. CASE validation.kind = "validation"
  BY <1>2 DEF RawState
<1> QED  BY <1>1, <1>2

LEMMA SnapshotFields ==
  ASSUME NEW state, NEW validation, NEW final, NEW snap,
         snap = ExtractSnapshot(state, validation, final)
  PROVE  /\ snap.lifecycle.state = state
         /\ snap.lifecycle.passed => state # "entry_failure" /\ validation.passed
         /\ snap.lifecycle.consumed => final # NoValue
         /\ state = "final_complete" => snap.outcome = final.outcome
<1>1. snap.lifecycle = Lifecycle(state, IF state = "entry_failure" THEN FALSE
                                        ELSE validation.passed, final # NoValue)
  BY DEF ExtractSnapshot
<1>2. state = "final_complete" => snap.outcome = final.outcome
  BY DEF ExtractSnapshot
<1>3. /\ snap.lifecycle.state = state
      /\ snap.lifecycle.passed = (IF state = "entry_failure" THEN FALSE ELSE validation.passed)
      /\ snap.lifecycle.consumed = (final # NoValue)
  BY <1>1 DEF Lifecycle
<1>4. snap.lifecycle.passed => state # "entry_failure" /\ validation.passed
  <2>1. CASE state = "entry_failure"  BY <1>3, <2>1
  <2>2. CASE state # "entry_failure"  BY <1>3, <2>2
  <2> QED  BY <2>1, <2>2
<1> QED  BY <1>2, <1>3, <1>4

LEMMA ContentFields ==
  ASSUME NEW study
  PROVE  LET reports == ReportsOf(study)
             data == Content(study)
         IN  /\ data.trained = Trained(reports)
             /\ data.validated = Validated(reports)
             /\ data.successful = Successful(reports)
             /\ data.results = Results(reports)
BY DEF Content, ContentOf

\* A result is the snapshot of a selection of the study's reports: state is what
\* the two selected reports are evidence of.
MadeOf(reports, result, validation, final, state, snap) ==
    LET selection == result.selection
    IN  /\ selection \in Selectable(reports)
        /\ selection[1] \in Firsts /\ selection[2] \in {"none", "final", "failure"}
        /\ validation = reports[selection[1]] /\ validation.kind = selection[1]
        /\ selection[2] = "none" => final = NoValue
        /\ selection[2] = "final" => final = reports.final
        /\ selection[2] = "failure" => final.kind = "failure"
        /\ state = RawState(validation, final) /\ state # NoValue
        /\ snap = ExtractSnapshot(state, validation, final)
        /\ result.lifecycle = snap.lifecycle
        /\ result.outcome = snap.outcome.outcome
        /\ result.accurate = ("passed" \in DOMAIN snap.outcome /\ AllHold(snap.outcome.passed))

LEMMA ResultIsMade ==
  ASSUME NEW study, NEW reports, reports = ReportsOf(study),
         NEW result \in Content(study).results
  PROVE  \E validation, final, state, snap :
           MadeOf(reports, result, validation, final, state, snap)
<1>1. result \in Results(reports)
  BY ContentFields
<1>2. PICK selection \in Selectable(reports) :
         /\ Frozen(reports, selection) # NoValue
         /\ result = Result(selection, Frozen(reports, selection))
  BY <1>1 DEF Results
<1>3. PICK validation, final, state, snap :
         /\ validation = First(reports, selection) /\ final = Second(reports, selection)
         /\ state = RawState(validation, final) /\ snap = Frozen(reports, selection)
  OBVIOUS
<1>4. selection[1] \in Firsts /\ selection[2] \in {"none", "final", "failure"}
  BY <1>2 DEF Selectable, Selections
<1>5. state # NoValue /\ snap = ExtractSnapshot(state, validation, final)
  BY <1>2, <1>3 DEF Frozen, Freezing, FreezingAs, Admitted
<1>6. /\ result.selection = selection
      /\ result.lifecycle = snap.lifecycle
      /\ result.outcome = snap.outcome.outcome
      /\ result.accurate = ("passed" \in DOMAIN snap.outcome /\ AllHold(snap.outcome.passed))
  BY <1>2, <1>3 DEF Result
<1>7. validation = reports[selection[1]] /\ validation.kind = selection[1]
  BY <1>3, <1>4, ReportKinds DEF First, Firsts
<1>8. /\ selection[2] = "none" => final = NoValue
      /\ selection[2] = "final" => final = reports.final
      /\ selection[2] = "failure" => final.kind = "failure"
  BY <1>3 DEF Second, FailureFile
<1>9. MadeOf(reports, result, validation, final, state, snap)
  BY <1>3, <1>4, <1>5, <1>6, <1>7, <1>8 DEF MadeOf
<1> QED  BY <1>9

\* The files of a result by the state that they are evidence of.
LEMMA MadeByState ==
  ASSUME NEW study, NEW reports, reports = ReportsOf(study), NEW result, NEW validation,
         NEW final, NEW state, NEW snap,
         MadeOf(reports, result, validation, final, state, snap)
  PROVE  LET first == result.selection[1]
             second == result.selection[2]
         IN  /\ result.lifecycle.state = state
             /\ state \in {"entry_failure", "validation_terminal",
                           "validation_passed_not_advanced", "final_failed_consumed",
                           "final_complete"}
             /\ state = "entry_failure" <=> first = "entry"
             /\ state # "entry_failure" =>
                   first = "validation" /\ validation = reports.validation /\ Trained(reports)
             /\ state = "validation_terminal" => ~validation.passed
             /\ state = "final_complete" =>
                   second = "final" /\ final = reports.final /\ Validated(reports)
<1>1. validation.kind \in {"entry", "validation"} /\ validation.kind = result.selection[1]
  BY DEF MadeOf, Firsts
<1>2. state = RawState(validation, final) /\ state # NoValue
  BY DEF MadeOf
<1>3. /\ state \in {"entry_failure", "validation_terminal", "validation_passed_not_advanced",
                    "final_failed_consumed", "final_complete"}
      /\ state = "entry_failure" <=> validation.kind = "entry"
      /\ state = "validation_terminal" => ~validation.passed
      /\ state = "final_complete" => final # NoValue /\ final.kind # "failure"
  BY <1>1, <1>2, RawStates
<1>4. result.lifecycle.state = state
  BY SnapshotFields DEF MadeOf
<1>5. /\ (result.selection[1] = "entry") = ~Trained(reports)
      /\ result.selection[2] # "none" => Validated(reports)
  BY DEF MadeOf, Selectable
<1>6. state # "entry_failure" => validation = reports.validation /\ Trained(reports)
  BY <1>1, <1>3, <1>5 DEF MadeOf, Trained
<1>7. state = "final_complete" =>
         result.selection[2] = "final" /\ final = reports.final /\ Validated(reports)
  BY <1>3, <1>5 DEF MadeOf
<1> QED  BY <1>1, <1>3, <1>4, <1>6, <1>7

\* What a result of a study says is what the study led to, and it says no more
\* than the files it was made of can tell.
LEMMA ResultsTell ==
  ASSUME NEW study, NEW result \in Content(study).results
  PROVE  LET data == Content(study)
             state == result.lifecycle.state
             first == result.selection[1]
             second == result.selection[2]
         IN  /\ result.selection \in Selections
             /\ state = "entry_failure" => first = "entry"
             /\ state = "validation_terminal" => first = "validation" /\ ~data.validated
             /\ result.lifecycle.passed => first = "validation" /\ data.validated
             /\ result.lifecycle.consumed => second # "none"
             /\ state = "final_complete" =>
                   second = "final" /\ (result.accurate <=> data.successful)
<1>1. PICK reports, data : reports = ReportsOf(study) /\ data = Content(study)
  OBVIOUS
<1>2. PICK validation, final, state, snap :
         MadeOf(reports, result, validation, final, state, snap)
  BY <1>1, ResultIsMade
<1>3. /\ result.lifecycle.state = state
      /\ state = "entry_failure" <=> result.selection[1] = "entry"
      /\ state # "entry_failure" => result.selection[1] = "validation"
                                    /\ validation = reports.validation /\ Trained(reports)
      /\ state = "validation_terminal" => ~validation.passed
      /\ state = "final_complete" =>
            result.selection[2] = "final" /\ final = reports.final /\ Validated(reports)
  BY <1>1, <1>2, MadeByState
<1>4. /\ data.validated <=> Trained(reports) /\ reports.validation.passed
      /\ data.successful <=> Validated(reports) /\ reports.final.passed
  BY <1>1, ContentFields DEF Validated, Successful
<1>5. /\ result.lifecycle.passed => state # "entry_failure" /\ validation.passed
      /\ result.lifecycle.consumed => final # NoValue
      /\ state = "final_complete" => snap.outcome = final.outcome
  BY <1>2, SnapshotFields DEF MadeOf
<1>6. result.selection \in Selections
  BY <1>2 DEF MadeOf, Selectable
<1>7. state = "validation_terminal" => result.selection[1] = "validation" /\ ~data.validated
  BY <1>3, <1>4
<1>8. result.lifecycle.passed => result.selection[1] = "validation" /\ data.validated
  BY <1>3, <1>4, <1>5
<1>9. result.lifecycle.consumed => result.selection[2] # "none"
  BY <1>2, <1>5 DEF MadeOf
<1>10. state = "final_complete" =>
          result.selection[2] = "final" /\ (result.accurate <=> data.successful)
  <2> SUFFICES ASSUME state = "final_complete"
               PROVE  result.accurate <=> data.successful
    BY <1>3
  <2>1. snap.outcome = reports.final.outcome
    BY <1>3, <1>5
  <2>2. result.accurate <=> reports.final.passed
    <3>1. "passed" \in DOMAIN reports.final.outcome
          /\ (AllHold(reports.final.outcome.passed) <=> reports.final.passed)
      BY <1>1, ReportKinds
    <3>2. result.accurate = ("passed" \in DOMAIN snap.outcome /\ AllHold(snap.outcome.passed))
      BY <1>2 DEF MadeOf
    <3> QED  BY <2>1, <3>1, <3>2
  <2> QED  BY <1>3, <1>4, <2>2
<1> QED
  BY <1>1, <1>3, <1>6, <1>7, <1>8, <1>9, <1>10

\* A selection with a second report is of a reserved attempt.
LEMMA SecondMeansAttempt ==
  ASSUME FreezeInv, NEW selection \in SelectionsOnDisk, selection[2] # "none"
  PROVE  marker
<1>1. selection \in Selections
  BY DEF SelectionsOnDisk
<1>2. CASE selection[2] = "final"
  <2>1. finalReport # "none"
    BY <1>2 DEF SelectionsOnDisk
  <2> QED  BY <2>1 DEF FreezeInv, ReportsInv, IInv, AttemptInv
<1>3. CASE selection[2] = "failure"
  <2>1. selection[3] \in [stage : Stages, observed : Digests] /\ selection[3] = failureReport
    BY <1>1, <1>3 DEF Selections, Firsts, SelectionsOnDisk
  <2>2. failureReport # NoFailure
    BY <2>1 DEF NoFailure, Stages, EarlyStages, LateStages
  <2> QED  BY <2>2 DEF FreezeInv, ReportsInv
<1> QED
  BY <1>1, <1>2, <1>3 DEF Selections, Firsts

\* Whichever reports the operator freezes, and however many processes the runner
\* is by then and was before, the snapshot says what the project directory says.
THEOREM EarnedSnapshot == FreezeSpec => []SnapshotIsEarned
<1>1. ASSUME FreezeInv, snapshot # NoValue
      PROVE  SnapshotIsEarned
  <2> DEFINE state == snapshot.lifecycle.state
             first == snapshot.selection[1]
             second == snapshot.selection[2]
  <2>1. /\ snapshot.selection \in Selections
        /\ state = "entry_failure" => first = "entry"
        /\ state = "validation_terminal" => first = "validation" /\ ~content.validated
        /\ snapshot.lifecycle.passed => first = "validation" /\ content.validated
        /\ snapshot.lifecycle.consumed => second # "none"
        /\ state = "final_complete" =>
              second = "final" /\ (snapshot.accurate <=> content.successful)
    BY <1>1, ResultsTell DEF FreezeInv, ReportsInv, SnapshotInv
  <2>2. /\ first = "entry" => entryReport
        /\ first = "validation" => validationReport # "none"
        /\ second = "final" => finalReport # "none"
        /\ second = "failure" => snapshot.selection[3] = failureReport
    BY <1>1 DEF FreezeInv, SnapshotInv, SelectionsOnDisk
  <2>3. /\ marker => validationReport = "passed" /\ ~entryReport
        /\ accesses = 1 => marker
    BY <1>1 DEF FreezeInv, IInv, EvidenceInv, AttemptInv
  <2> HIDE DEF state, first, second
  <2>4. state = "entry_failure" => entryReport /\ ~marker /\ validationReport = "none"
    BY <1>1, <2>1, <2>2, <2>3 DEF FreezeInv, ReportsInv
  <2>5. state = "validation_terminal" => validationReport = "failed" /\ ~marker
    BY <1>1, <2>1, <2>2, <2>3 DEF FreezeInv, ReportsInv, Verdict
  <2>6. snapshot.lifecycle.passed => validationReport = "passed" /\ ~entryReport
    BY <1>1, <2>1, <2>2 DEF FreezeInv, ReportsInv, Verdict
  <2>7. snapshot.lifecycle.consumed => marker
    BY <1>1, <2>1, SecondMeansAttempt DEF FreezeInv, SnapshotInv, second
  <2>8. state = "final_complete" =>
           accesses = 1 /\ finalReport = Verdict(snapshot.accurate)
    BY <1>1, <2>1, <2>2 DEF FreezeInv, ReportsInv, Verdict
  <2> QED
    BY <2>4, <2>5, <2>6, <2>7, <2>8 DEF SnapshotIsEarned, state
<1>2. FreezeInv => SnapshotIsEarned
  BY <1>1 DEF SnapshotIsEarned
<1> QED  BY <1>2, FreezeInvariance, PTL

\* The reports on disk, whenever they are looked at, are files that the study can
\* leave, and a failure report among them relates its stage to the digest.
LEMMA DiskIsAllowed ==
  ASSUME FreezeInv, NEW selection \in SelectionsOnDisk
  PROVE  selection \in Selections /\ Allowed(content, selection)
<1>1. /\ selection \in Selections
      /\ selection[1] \in {"entry", "validation"}
      /\ selection[1] = "entry" => entryReport
      /\ selection[1] = "validation" => validationReport # "none"
      /\ selection[2] = "failure" => selection[3] = failureReport
  BY DEF SelectionsOnDisk, Selections, Firsts
<1>2. content.trained \in BOOLEAN
  BY ContentFields DEF FreezeInv, ReportsInv, Trained
<1>3. (selection[1] = "entry") = ~content.trained
  BY <1>1, <1>2 DEF FreezeInv, ReportsInv
<1>4. selection[2] # "none" => content.validated
  <2>1. marker => validationReport = "passed"
    BY DEF FreezeInv, IInv, EvidenceInv
  <2>2. validationReport = "passed" => content.validated
    BY DEF FreezeInv, ReportsInv, Verdict
  <2> QED  BY <2>1, <2>2, SecondMeansAttempt
<1>5. selection[2] = "failure" => IdentityRelated(selection[3])
  <2> SUFFICES ASSUME selection[2] = "failure" PROVE IdentityRelated(failureReport)
    BY <1>1
  <2>1. selection[3] \in [stage : Stages, observed : Digests]
    BY <1>1 DEF Selections, Firsts
  <2>2. failureReport # NoFailure
    BY <1>1, <2>1 DEF NoFailure, Stages, EarlyStages, LateStages
  <2> QED
    BY <2>2 DEF FreezeInv, IInv, StageInv, FailureReportAccepted, IdentityRelated,
                EarlyStages, LateStages
<1> QED  BY <1>1, <1>3, <1>4, <1>5 DEF Allowed

\* If the honest reports of a study freeze, so do the reports on disk, whatever the
\* runners did: no interleaving, kill or late publication leaves a combination that
\* the freezing script refuses.
THEOREM FreezableDisk == FreezeSpec /\ []HonestReportsFreeze => []PublishedIsFreezable
<1>1. FreezeInv /\ HonestReportsFreeze => PublishedIsFreezable
  BY DiskIsAllowed DEF FreezeInv, ReportsInv, HonestReportsFreeze, FilesFreeze,
                       PublishedIsFreezable
<1> QED  BY <1>1, FreezeInvariance, PTL

-----------------------------------------------------------------------------
(* The promise: what the statistics that the outcome is decided by say of the *)
(* rows and the repetitions they were taken over.                             *)

\* A finite set of numbers has a largest one.
LEMMA GreatestExists ==
  ASSUME NEW S \in SUBSET Int, IsFiniteSet(S), S # {}
  PROVE  \E m \in S : \A n \in S : n <= m
<1> DEFINE Above(n) == {k \in S : k > n}
<1>1. PICK R : R = StrictSubsetOrdering(S)
  OBVIOUS
<1>2. PICK F : F = {Above(n) : n \in S}
  OBVIOUS
<1>3. IsWellFoundedOn(R, FiniteSubsetsOf(S))
  BY <1>1, FS_StrictSubsetOrderingWellFounded
<1>4. F \subseteq FiniteSubsetsOf(S) /\ F # {}
  <2>1. ASSUME NEW n \in S PROVE Above(n) \in FiniteSubsetsOf(S)
    <3>1. IsFiniteSet(Above(n))
      BY FS_Subset
    <3> QED  BY <3>1 DEF FiniteSubsetsOf
  <2> QED  BY <1>2, <2>1
<1>5. PICK U \in F : \A V \in F : ~(<<V, U>> \in R)
  BY <1>3, <1>4, WFMin
<1>6. PICK m \in S : U = Above(m)
  BY <1>2, <1>5
<1>7. ASSUME NEW n \in S, n > m PROVE FALSE
  <2>1. Above(n) \in F
    BY <1>2
  <2>2. n \in Int /\ m \in Int
    OBVIOUS
  <2>3. \A k \in Above(n) : k \in S /\ k > m
    <3> SUFFICES ASSUME NEW k \in S, k > n PROVE k > m
      OBVIOUS
    <3>1. k \in Int
      OBVIOUS
    <3> QED  BY <1>7, <2>2, <3>1
  <2>4. n \in Above(m) /\ n \notin Above(n)
    BY <1>7, <2>2
  <2>5. Above(n) \in SUBSET S /\ Above(m) \in SUBSET S
    OBVIOUS
  <2>6. Above(n) \subseteq Above(m)
    BY <2>3
  <2> HIDE DEF Above
  <2>7. <<Above(n), U>> \in R
    BY <1>1, <1>6, <2>4, <2>5, <2>6 DEF StrictSubsetOrdering
  <2> QED  BY <1>5, <2>1, <2>7
<1>8. \A n \in S : n <= m
  <2> SUFFICES ASSUME NEW n \in S PROVE n <= m
    OBVIOUS
  <2>1. n \in Int /\ m \in Int
    OBVIOUS
  <2> QED  BY <1>7, <2>1
<1> QED  BY <1>8

\* What a function takes a finite set to is finite.
LEMMA ImageIsFinite ==
  ASSUME NEW S, IsFiniteSet(S), NEW f \in [S -> Int]
  PROVE  LET T == {f[x] : x \in S} IN IsFiniteSet(T) /\ T \in SUBSET Int
<1>1. PICK T : T = {f[x] : x \in S}
  OBVIOUS
<1>2. f \in Surjection(S, T)
  BY <1>1 DEF Surjection
<1>3. IsFiniteSet(T) /\ T \in SUBSET Int
  BY <1>1, <1>2, FS_Surjection
<1> QED  BY <1>1, <1>3

LEMMA MaxIs ==
  ASSUME NEW S \in SUBSET Int, IsFiniteSet(S), S # {}
  PROVE  Max(S) \in S /\ \A n \in S : n <= Max(S)
<1>1. \E m \in S : \A n \in S : m >= n
  BY GreatestExists
<1> QED  BY <1>1 DEF Max

LEMMA MinIs ==
  ASSUME NEW S \in SUBSET Int, IsFiniteSet(S), S # {}
  PROVE  Min(S) \in S /\ \A n \in S : Min(S) <= n
<1>1. PICK f : f = [n \in S |-> -n]
  OBVIOUS
<1>2. f \in [S -> Int]
  BY <1>1
<1>3. PICK T : T = {f[n] : n \in S}
  OBVIOUS
<1>4. T \in SUBSET Int /\ T # {} /\ IsFiniteSet(T)
  BY <1>2, <1>3, ImageIsFinite
<1>5. PICK k \in T : \A n \in T : n <= k
  BY <1>4, GreatestExists
<1>6. PICK m \in S : k = f[m]
  BY <1>3, <1>5
<1>7. \A n \in S : m <= n
  <2> SUFFICES ASSUME NEW n \in S PROVE m <= n
    OBVIOUS
  <2>1. f[n] <= f[m]
    BY <1>3, <1>5, <1>6
  <2>2. f[n] = -n /\ f[m] = -m /\ n \in Int /\ m \in Int
    BY <1>1
  <2> QED  BY <2>1, <2>2
<1> QED  BY <1>7 DEF Min

\* At least as many of an odd number of values reach their median as do not.
LEMMA MedianIsReached ==
  ASSUME NEW n \in Nat, n % 2 = 1, NEW values \in [1..n -> Int], NEW least \in Int,
         AtRank(values, n \div 2) >= least
  PROVE  2 * Cardinality({i \in 1..n : values[i] >= least}) > n
<1>0. PICK half \in Nat : half = n \div 2 /\ n = 2 * half + 1
  OBVIOUS
<1>i. n \in Int /\ 1 \in Int
  OBVIOUS
<1>1. IsFiniteSet(1..n) /\ Cardinality(1..n) = n
  <2>1. IsFiniteSet(1..n) /\ Cardinality(1..n) = (IF 1 > n THEN 0 ELSE n - 1 + 1)
    BY <1>i, FS_Interval
  <2> QED  BY <1>0, <2>1
<1>2. PICK S : S = {values[i] : i \in 1..n}
  OBVIOUS
<1>3. S \in SUBSET Int /\ S # {} /\ IsFiniteSet(S)
  <2>1. 1 \in 1..n
    BY <1>0
  <2> QED  BY <1>1, <1>2, <2>1, ImageIsFinite
<1> DEFINE UpTo(v) == {i \in 1..n : values[i] <= v}
<1>4. PICK T : T = {v \in S : Cardinality(UpTo(v)) > half}
  OBVIOUS
<1>5. Max(S) \in S /\ \A v \in S : v <= Max(S)
  BY <1>3, MaxIs
<1>6. Max(S) \in T
  <2>1. UpTo(Max(S)) = 1..n
    BY <1>2, <1>5
  <2> HIDE DEF UpTo
  <2>2. Cardinality(UpTo(Max(S))) = n
    BY <1>1, <2>1
  <2>3. Cardinality(UpTo(Max(S))) > half
    BY <1>0, <2>2
  <2> QED  BY <1>4, <1>5, <2>3 DEF UpTo
<1>7. T \subseteq S /\ T \in SUBSET Int /\ T # {} /\ IsFiniteSet(T)
  <2>1. T \subseteq S
    BY <1>4
  <2>2. IsFiniteSet(T)
    BY <1>3, <2>1, FS_Subset
  <2> QED  BY <1>3, <1>6, <2>1, <2>2
<1>8. PICK median : median = Min(T)
  OBVIOUS
<1>9. median \in T /\ median \in Int /\ (\A v \in T : median <= v)
  BY <1>7, <1>8, MinIs
<1>10. median >= least
  <2>1. S = {values[i] : i \in DOMAIN values}
    BY <1>2
  <2>2. \A v \in S : UpTo(v) = {i \in DOMAIN values : values[i] <= v}
    OBVIOUS
  <2>3. AtRank(values, half) = Min(T)
    BY <1>4, <2>1, <2>2 DEF AtRank, Image
  <2> QED  BY <1>0, <1>8, <2>3
<1>11. PICK Low : Low = {i \in 1..n : values[i] < median}
  OBVIOUS
<1>12. Low \subseteq 1..n /\ IsFiniteSet(Low) /\ Cardinality(Low) \in Nat
  <2>1. Low \subseteq 1..n
    BY <1>11
  <2> QED  BY <1>1, <2>1, FS_Subset, FS_CardinalityType
<1>13. Cardinality(Low) <= half
  <2>1. CASE Low = {}
    <3>1. Cardinality(Low) = 0
      BY <2>1, FS_EmptySet
    <3> QED  BY <3>1
  <2>2. CASE Low # {}
    <3>1. PICK below : below = [i \in Low |-> values[i]]
      OBVIOUS
    <3>2. below \in [Low -> Int]
      BY <1>12, <3>1
    <3>3. PICK B : B = {below[i] : i \in Low}
      OBVIOUS
    <3>4. IsFiniteSet(B) /\ B \in SUBSET Int /\ B # {}
      BY <1>12, <2>2, <3>2, <3>3, ImageIsFinite
    <3>5. PICK u \in B : \A v \in B : v <= u
      BY <3>4, GreatestExists
    <3>6. PICK j \in Low : u = values[j]
      BY <3>1, <3>3, <3>5
    <3>7. u \in Int /\ u < median /\ u \in S
      BY <1>2, <1>11, <1>12, <3>4, <3>6
    <3>8. \A i \in Low : values[i] <= u
      BY <3>1, <3>3, <3>5
    <3>9. \A i \in 1..n : values[i] <= u <=> values[i] < median
      <4> SUFFICES ASSUME NEW i \in 1..n PROVE values[i] <= u <=> values[i] < median
        OBVIOUS
      <4>1. values[i] \in Int
        OBVIOUS
      <4>2. values[i] < median => values[i] <= u
        BY <1>11, <3>8
      <4> QED  BY <1>9, <3>7, <4>1, <4>2
    <3>10. UpTo(u) = Low
      BY <1>11, <3>9
    <3>11. u \notin T
      BY <1>9, <3>7
    <3>12. ~(Cardinality(UpTo(u)) > half)
      BY <1>4, <3>7, <3>11
    <3> HIDE DEF UpTo
    <3> QED  BY <1>12, <3>10, <3>12
  <2> QED  BY <2>1, <2>2
<1>14. PICK High : High = {i \in 1..n : values[i] >= least}
  OBVIOUS
<1>15. PICK All : All = 1..n
  OBVIOUS
<1>16. Cardinality(All \ Low) = Cardinality(All) - Cardinality(Low)
  <2>1. All \cap Low = Low /\ IsFiniteSet(All)
    BY <1>1, <1>12, <1>15
  <2>2. Cardinality(All \ Low) = Cardinality(All) - Cardinality(All \cap Low)
    BY <2>1, FS_Difference
  <2> QED  BY <2>1, <2>2
<1>17. High \subseteq All /\ IsFiniteSet(High) /\ Cardinality(High) \in Nat
  <2>1. High \subseteq All
    BY <1>14, <1>15
  <2>2. IsFiniteSet(All)
    BY <1>1, <1>15
  <2> QED  BY <2>1, <2>2, FS_Subset, FS_CardinalityType
<1>18. All \ Low \subseteq High
  <2> SUFFICES ASSUME NEW i \in 1..n, ~(values[i] < median) PROVE values[i] >= least
    BY <1>11, <1>14, <1>15
  <2>1. values[i] \in Int
    OBVIOUS
  <2> QED  BY <1>9, <1>10, <2>1
<1>19. Cardinality(All \ Low) <= Cardinality(High)
  BY <1>17, <1>18, FS_Subset
<1>20. PICK low \in Nat, high \in Nat : low = Cardinality(Low) /\ high = Cardinality(High)
  BY <1>12, <1>17
<1>21. n - low <= high /\ low <= half
  BY <1>1, <1>13, <1>15, <1>16, <1>19, <1>20
<1>22. 2 * high > n
  BY <1>0, <1>21
<1> QED  BY <1>14, <1>20, <1>22

LEMMA NormalisedIsInt ==
  ASSUME NEW row, row.scale \in Nat \ {0}, NEW price \in Int
  PROVE  Normalised(row, price) \in Int
<1>1. PICK scale \in Nat \ {0}, unit \in Nat : scale = row.scale /\ unit = Protocol.unit
  BY ProtocolAssumption
<1>2. unit \div scale \in Int
  OBVIOUS
<1> QED  BY <1>1, <1>2 DEF Normalised

\* The overall slice has every row, and its statistics are those of the errors of
\* the answers.
LEMMA OverallIsOfAllRows ==
  ASSUME NEW rows, NEW answers, NEW stats, IsFiniteSet(DOMAIN rows), DOMAIN rows # {},
         \A i \in DOMAIN rows : rows[i].american \in Int /\ rows[i].scale \in Nat \ {0}
                                /\ answers[i].centre \in Int,
         stats = SlicedMetrics(rows, [i \in DOMAIN rows |-> answers[i].centre])[Overall].normalised
  PROVE  /\ stats.squares = SquaredError(rows, answers)
         /\ \A i \in DOMAIN rows : Missed(rows[i], answers[i].centre) <= stats.largest
         /\ stats.largest \in Int
<1>1. PICK prediction : prediction = [i \in DOMAIN rows |-> answers[i].centre]
  OBVIOUS
<1>2. PICK errors : errors = Errors(rows, prediction, Overall)
  OBVIOUS
<1>3. errors = [i \in DOMAIN rows |-> Size(answers[i].centre - rows[i].american)]
  <2>1. \A i \in DOMAIN rows : InSlice(rows[i], Overall)
    <3>1. Overall[1] = "overall"
      BY DEF Overall
    <3> QED  BY <3>1 DEF InSlice, Binned
  <2>2. {i \in DOMAIN rows : InSlice(rows[i], Overall)} = DOMAIN rows
    BY <2>1
  <2>3. errors = [i \in DOMAIN rows |-> Size(prediction[i] - rows[i].american)]
    BY <1>2, <2>2 DEF Errors
  <2> QED  BY <1>1, <2>3
<1>4. PICK missed : missed = NormalisedErrors(rows, errors)
  OBVIOUS
<1>5. missed = [i \in DOMAIN rows |-> Missed(rows[i], answers[i].centre)]
  BY <1>3, <1>4 DEF NormalisedErrors, Missed
<1>6. missed \in [DOMAIN rows -> Int]
  <2> SUFFICES ASSUME NEW i \in DOMAIN rows PROVE Missed(rows[i], answers[i].centre) \in Int
    BY <1>5
  <2>1. Size(answers[i].centre - rows[i].american) \in Int
    BY DEF Size
  <2> QED  BY <2>1, NormalisedIsInt DEF Missed
<1>7. stats = ErrorStatistics(missed)
  <2>1. Overall \in SliceNames
    BY DEF SliceNames
  <2>2. DOMAIN errors # {}
    BY <1>3
  <2>3. SlicedMetrics(rows, prediction)[Overall].normalised
          = ErrorStatistics(NormalisedErrors(rows, errors))
    BY <1>2, <2>1, <2>2 DEF SlicedMetrics
  <2> QED  BY <1>1, <1>4, <2>3
<1>8. /\ stats.squares = Total([i \in DOMAIN missed |-> missed[i] * missed[i]])
      /\ stats.largest = Max(Image(missed))
  BY <1>7 DEF ErrorStatistics
<1>9. stats.squares = SquaredError(rows, answers)
  <2>1. DOMAIN missed = DOMAIN rows
    BY <1>5
  <2>2. [i \in DOMAIN missed |-> missed[i] * missed[i]]
          = [i \in DOMAIN rows |-> Missed(rows[i], answers[i].centre)
                                   * Missed(rows[i], answers[i].centre)]
    BY <1>5
  <2> QED  BY <1>8, <2>2 DEF SquaredError
<1>10. PICK S : S = {missed[i] : i \in DOMAIN rows}
  OBVIOUS
<1>11. S = Image(missed) /\ S # {} /\ IsFiniteSet(S) /\ S \in SUBSET Int
  BY <1>6, <1>10, ImageIsFinite DEF Image
<1>12. stats.largest \in Int /\ \A v \in S : v <= stats.largest
  BY <1>8, <1>11, MaxIs
<1>13. \A i \in DOMAIN rows : Missed(rows[i], answers[i].centre) <= stats.largest
  BY <1>5, <1>10, <1>12
<1> QED  BY <1>9, <1>12, <1>13

\* An arm that passes its gate keeps the limit on every row.
LEMMA PassedKeepsLimit ==
  ASSUME NEW rows, NEW answers, NEW section \in DOMAIN Protocol.limits, NEW models,
         Answered(rows, answers), models = ModelReports(rows, answers, section),
         NEW arm \in Arms
  PROVE  /\ ArmsPassed(models)[arm] => Within(rows, answers[arm], section)
         /\ models[arm].slices[Overall].normalised.squares = SquaredError(rows, answers[arm])
<1>1. arm \in Models /\ arm # Baseline
  BY DEF Models, Arms, Baseline
<1>2. models[arm] = Entry(rows, answers[arm], section)
  BY <1>1 DEF ModelReports
<1>3. PICK slices : slices = SlicedMetrics(rows, [i \in DOMAIN rows |-> answers[arm][i].centre])
  OBVIOUS
<1>4. PICK stats : stats = slices[Overall].normalised
  OBVIOUS
<1>5. PICK diagnostics : diagnostics = ShapeDiagnostics(rows, answers[arm])
  OBVIOUS
<1>6. /\ models[arm].slices = slices
      /\ models[arm].gate = Gate(GateChecks(stats, diagnostics, section))
  BY <1>2, <1>3, <1>4, <1>5 DEF Entry, ArmEntry
<1>7. /\ stats.squares = SquaredError(rows, answers[arm])
      /\ \A i \in DOMAIN rows : Missed(rows[i], answers[arm][i].centre) <= stats.largest
      /\ stats.largest \in Int
  BY <1>3, <1>4, OverallIsOfAllRows DEF Answered
<1>8. ASSUME ArmsPassed(models)[arm] PROVE Within(rows, answers[arm], section)
  <2>1. PICK checks : checks = GateChecks(stats, diagnostics, section)
    OBVIOUS
  <2>2. AllHold(checks)
    BY <1>6, <1>8, <2>1 DEF ArmsPassed, Gate
  <2>3. /\ "largest" \in DOMAIN checks
        /\ checks["largest"] = (stats.largest <= Protocol.limits[section].largest)
    BY <2>1 DEF GateChecks
  <2>4. stats.largest <= Protocol.limits[section].largest
    BY <2>2, <2>3 DEF AllHold
  <2>5. \A i \in DOMAIN rows : Missed(rows[i], answers[arm][i].centre) \in Int
    <3> SUFFICES ASSUME NEW i \in DOMAIN rows
                 PROVE  Missed(rows[i], answers[arm][i].centre) \in Int
      OBVIOUS
    <3>1. Size(answers[arm][i].centre - rows[i].american) \in Int
      BY DEF Answered, Size
    <3> QED  BY <3>1, NormalisedIsInt DEF Missed, Answered
  <2>6. Protocol.limits[section].largest \in Int
    BY ProtocolAssumption
  <2> SUFFICES ASSUME NEW i \in DOMAIN rows
               PROVE  Missed(rows[i], answers[arm][i].centre) <= Protocol.limits[section].largest
    BY DEF Within
  <2> QED  BY <1>7, <2>4, <2>5, <2>6
<1> QED  BY <1>4, <1>6, <1>7, <1>8

LEMMA QuotientBound ==
  ASSUME NEW a \in Nat, NEW b \in Nat \ {0}, NEW least \in Nat, a \div b >= least
  PROVE  a >= least * b
<1>1. PICK q \in Nat, rest \in Nat : q = a \div b /\ a = b * q + rest
  <2>1. a \div b \in Nat /\ a % b \in Nat /\ a = b * (a \div b) + (a % b)
    OBVIOUS
  <2> QED  BY <2>1
<1>2. b * q >= b * least
  <2>1. PICK extra \in Nat : q = least + extra
    <3>1. q - least \in Nat /\ q = least + (q - least)
      BY <1>1
    <3> QED  BY <3>1
  <2>2. b * q = b * least + b * extra /\ b * extra \in Nat /\ b * least \in Nat
    BY <2>1
  <2> QED  BY <2>2
<1>3. least * b = b * least /\ b * q \in Nat /\ b * least \in Nat
  BY <1>1
<1> QED  BY <1>1, <1>2, <1>3

\* A median speedup that reaches the limit is reached in most repetitions.
LEMMA MedianMeansMost ==
  ASSUME NEW readings, Clocked(readings), NEW cell \in Cells, NEW arm \in Arms, NEW latency,
         latency = RunLatency(readings),
         latency[cell].median[arm] >= Protocol.minimumSpeedup
  PROVE  2 * Cardinality(FastRepetitions(readings[cell]["crr"], readings[cell][arm]))
           > Protocol.repetitions
<1>1. PICK w \in Nat, r \in Nat, least \in Nat :
         w = Protocol.warmups /\ r = Protocol.repetitions /\ least = Protocol.minimumSpeedup
  BY ProtocolAssumption
<1>2. PICK crr \in Seq(Nat \ {0}), neural \in Seq(Nat \ {0}) :
         /\ crr = readings[cell]["crr"] /\ Len(crr) = w + r
         /\ neural = readings[cell][arm] /\ Len(neural) = w + r
  BY <1>1 DEF Clocked
<1>3. PICK c, d : c = SubSeq(crr, w + 1, w + r) /\ d = SubSeq(neural, w + 1, w + r)
  OBVIOUS
<1>4. /\ DOMAIN c = 1..r /\ \A i \in 1..r : c[i] = crr[w + i]
      /\ DOMAIN d = 1..r /\ \A i \in 1..r : d[i] = neural[w + i]
  <2>1. ASSUME NEW s \in Seq(Nat \ {0}), Len(s) = w + r, NEW t, t = SubSeq(s, w + 1, w + r)
        PROVE  DOMAIN t = 1..r /\ \A i \in 1..r : t[i] = s[w + i]
    <3>1. \A i \in (w + 1)..(w + r) : i \in 1..Len(s)
      BY <2>1
    <3>2. t \in Seq(Nat \ {0}) /\ Len(t) = r
      BY <2>1, <3>1
    <3>3. \A i \in 1..r : t[i] = s[w + i]
      BY <2>1, <3>1
    <3> QED  BY <3>2, <3>3
  <2> QED  BY <1>2, <1>3, <2>1
<1>5. \A i \in 1..r : crr[w + i] \in Nat \ {0} /\ neural[w + i] \in Nat \ {0}
  BY <1>2
<1>6. PICK ratios : ratios = Speedups(c, d)
  OBVIOUS
<1>7. ratios = [i \in 1..r |-> (1000 * crr[w + i]) \div neural[w + i]]
  BY <1>4, <1>6 DEF Speedups
<1>8. ratios \in [1..r -> Int]
  <2> SUFFICES ASSUME NEW i \in 1..r PROVE (1000 * crr[w + i]) \div neural[w + i] \in Int
    BY <1>7
  <2>1. PICK x \in Nat, b \in Nat \ {0} : x = crr[w + i] /\ b = neural[w + i]
    BY <1>5
  <2>2. (1000 * x) \div b \in Int
    OBVIOUS
  <2> QED  BY <2>1, <2>2
<1>9. Len(ratios) = r
  BY <1>8
<1>10. latency[cell].median[arm] = AtRank(ratios, r \div 2)
  <2>1. latency[cell].median[arm] = Median(ratios)
    BY <1>1, <1>2, <1>3, <1>6 DEF RunLatency
  <2> QED  BY <1>9, <2>1 DEF Median
<1>11. PICK High : High = {i \in 1..r : ratios[i] >= least}
  OBVIOUS
<1>12. 2 * Cardinality(High) > r
  <2>1. r % 2 = 1
    BY <1>1, ProtocolAssumption
  <2>2. AtRank(ratios, r \div 2) >= least
    BY <1>1, <1>10
  <2>3. 2 * Cardinality({i \in 1..r : ratios[i] >= least}) > r
    <3>1. r \in Nat /\ least \in Int
      OBVIOUS
    <3> QED  BY ONLY <1>8, <2>1, <2>2, <3>1, MedianIsReached
  <2> QED  BY <1>11, <2>3
<1>13. PICK Fast : Fast = FastRepetitions(crr, neural)
  OBVIOUS
<1>14. \A i \in High : w + i \in Fast
  <2> SUFFICES ASSUME NEW i \in 1..r, ratios[i] >= least PROVE w + i \in Fast
    BY <1>11
  <2>1. PICK x \in Nat, b \in Nat \ {0} : x = crr[w + i] /\ b = neural[w + i]
    BY <1>5
  <2>2. PICK a \in Nat : a = 1000 * x
    OBVIOUS
  <2>3. a >= least * b
    <3>1. a \div b >= least
      BY <1>7, <2>1, <2>2
    <3> QED  BY <3>1, QuotientBound
  <2>4. w + i \in (w + 1)..(w + r)
    OBVIOUS
  <2>5. 1000 * crr[w + i] >= Protocol.minimumSpeedup * neural[w + i]
    BY <1>1, <2>1, <2>2, <2>3
  <2>6. w + i \in (Protocol.warmups + 1)..(Protocol.warmups + Protocol.repetitions)
    BY <1>1, <2>4
  <2>7. w + i \in FastRepetitions(crr, neural)
    BY ONLY <2>5, <2>6, Zenon DEF FastRepetitions
  <2> QED  BY <1>13, <2>7
<1>15. IsFiniteSet(Fast) /\ Cardinality(Fast) \in Nat
  <2>1. Fast \in SUBSET ((w + 1)..(w + r))
    BY <1>1, <1>13 DEF FastRepetitions
  <2>2. w + 1 \in Int /\ w + r \in Int
    OBVIOUS
  <2>3. IsFiniteSet((w + 1)..(w + r))
    BY <2>2, FS_Interval
  <2> QED  BY <2>1, <2>3, FS_Subset, FS_CardinalityType
<1>16. Cardinality(High) <= Cardinality(Fast) /\ Cardinality(High) \in Nat
  <2>1. PICK shift : shift = [i \in High |-> w + i]
    OBVIOUS
  <2>2. \A i, j \in High : w + i = w + j => i = j
    BY <1>11
  <2>3. shift \in Injection(High, Fast)
    <3>1. shift \in [High -> Fast]
      BY <1>14, <2>1
    <3>2. \A i, j \in High : shift[i] = shift[j] => i = j
      BY <2>1, <2>2
    <3> QED  BY <3>1, <3>2 DEF Injection, IsInjective
  <2> QED  BY <1>15, <2>3, FS_Injection, FS_CardinalityType
<1>17. PICK high \in Nat, fast \in Nat : high = Cardinality(High) /\ fast = Cardinality(Fast)
  BY <1>15, <1>16
<1>18. 2 * fast > r
  BY <1>12, <1>16, <1>17
<1> QED  BY <1>1, <1>2, <1>13, <1>17, <1>18

\* What an outcome calls promising.
WonBoth(passed, models, latency) ==
    /\ \A arm \in Arms : passed[arm]
    /\ models["transfer"].slices[Overall].normalised.squares
          < models["scratch"].slices[Overall].normalised.squares
    /\ \A s \in ReferenceSpeedups(latency) : s >= Protocol.minimumSpeedup

\* An outcome is "promising" only of a final test in which both arms passed, on a
\* validation that transfer won and that was fast enough.
LEMMA PromisingMeans ==
  ASSUME NEW passed, NEW validation, NEW latency, NEW iv, NEW phase \in {"validation", "final"},
         NEW complete, NEW out,
         out = ClassifyOutcome(passed, validation, latency, iv, phase, complete),
         out.outcome = "promising"
  PROVE  phase = "final" /\ WonBoth(passed, validation, latency)
<1> DEFINE both == \A arm \in Arms : passed[arm]
           none == \A arm \in Arms : ~passed[arm]
           better == validation["transfer"].slices[Overall].normalised.squares
                       < validation["scratch"].slices[Overall].normalised.squares
           fast == \A s \in ReferenceSpeedups(latency) : s >= Protocol.minimumSpeedup
<1>1. none => out.outcome = "failure_to_learn"
  BY DEF ClassifyOutcome
<1>2. ~none /\ ~both => out.outcome = "mixed_accuracy_outcome"
  BY DEF ClassifyOutcome
<1>3. both
  BY <1>1, <1>2
<1>4. both /\ ~none /\ ~complete => out.outcome = "required_evidence_failed"
  BY DEF ClassifyOutcome
<1>5. complete
  BY <1>1, <1>3, <1>4
<1>6. both /\ ~none /\ complete /\ phase = "validation" =>
         out.outcome = "eligible_for_final_evaluation"
  BY DEF ClassifyOutcome
<1>7. phase = "final"
  BY <1>1, <1>3, <1>5, <1>6
<1>8. both /\ ~none /\ complete /\ phase = "final" /\ ~better => out.outcome = "negative_transfer"
  BY DEF ClassifyOutcome
<1>9. better
  BY <1>1, <1>3, <1>5, <1>7, <1>8
<1>10. both /\ ~none /\ complete /\ phase = "final" /\ better /\ ~fast =>
         out.outcome = "accuracy_passed_other_feasibility_gate_failed"
  BY DEF ClassifyOutcome
<1>11. fast
  BY <1>1, <1>3, <1>5, <1>7, <1>9, <1>10
<1> QED  BY <1>3, <1>7, <1>9, <1>11 DEF WonBoth

\* Where a snapshot takes its outcome from.
LEMMA SnapshotOutcomes ==
  ASSUME NEW state, NEW validation, NEW final, NEW snap,
         snap = ExtractSnapshot(state, validation, final),
         state \in {"entry_failure", "validation_terminal", "validation_passed_not_advanced",
                    "final_failed_consumed", "final_complete"},
         snap.outcome.outcome = "promising"
  PROVE  \/ state = "validation_terminal" /\ validation.outcome.outcome = "promising"
         \/ state = "final_complete" /\ final.outcome.outcome = "promising"
<1>1. CASE state = "entry_failure"
  BY <1>1 DEF ExtractSnapshot, EntryOutcome
<1>2. CASE state = "validation_terminal"
  BY <1>2 DEF ExtractSnapshot
<1>3. CASE state = "validation_passed_not_advanced"
  BY <1>3 DEF ExtractSnapshot, NotAdvanced
<1>4. CASE state = "final_failed_consumed"
  BY <1>4 DEF ExtractSnapshot, FailedOutcome
<1>5. CASE state = "final_complete"
  BY <1>5 DEF ExtractSnapshot
<1> QED  BY <1>1, <1>2, <1>3, <1>4, <1>5

\* What the reports of a study are made of.
LEMMA ReportParts ==
  ASSUME NEW study, NEW reports, reports = ReportsOf(study),
         NEW validation, validation = reports.validation,
         NEW models, models = ModelReports(study.validationRows, study.validation,
                                           "validation_final_entry"),
         NEW finals, finals = ModelReports(study.finalRows, study.final, "final_accuracy")
  PROVE  /\ validation.models = models
         /\ validation.latency = RunLatency(study.readings)
         /\ validation.passed => AllHold(ArmsPassed(models))
         /\ \E complete : validation.outcome
              = ClassifyOutcome(ArmsPassed(models), models, validation.latency,
                                validation.iv, "validation", complete)
         /\ \E complete : reports.final.outcome
              = ClassifyOutcome(ArmsPassed(finals), models, validation.latency,
                                validation.iv, "final", complete)
<1>1. validation = ValidationReport(study) /\ reports.final = FinalReport(study, validation)
  BY DEF ReportsOf, Reports
<1>2. PICK pde, latency, iv : /\ latency = RunLatency(study.readings)
                              /\ validation = Evaluated(study, pde, models, latency, iv)
  BY <1>1 DEF ValidationReport
<1>3. PICK complete : validation = ValidationEvidence(study, pde, models, latency, iv, complete)
  BY <1>2 DEF Evaluated
<1>4. /\ validation.models = models
      /\ validation.latency = latency
      /\ validation.iv = iv
      /\ validation.passed = (complete.passed /\ AllHold(ArmsPassed(models)))
      /\ validation.outcome
            = ClassifyOutcome(ArmsPassed(models), models, latency, iv, "validation",
                              complete.passed)
  BY <1>3 DEF ValidationEvidence
<1>5. reports.final.outcome
        = ClassifyOutcome(ArmsPassed(finals), validation.models, validation.latency,
                          validation.iv, "final", validation.complete.passed)
  BY <1>1 DEF FinalReport, FinalEvidence
<1> QED  BY <1>2, <1>4, <1>5

\* A result that says "promising" was made of a final report, and both arms passed
\* both tests.
LEMMA PromisingIsKept ==
  ASSUME NEW name \in DOMAIN Studies, NEW study, study = Studies[name],
         NEW result \in Content(study).results, result.outcome = "promising"
  PROVE  KeepsAccuracy(study) /\ KeepsSpeed(study)
<1>1. PICK reports, data : reports = ReportsOf(study) /\ data = Content(study)
  OBVIOUS
<1>2. PICK first, final, state, snap : MadeOf(reports, result, first, final, state, snap)
  BY <1>1, ResultIsMade
<1>3. PICK validation, models, finals :
         /\ validation = reports.validation
         /\ models = ModelReports(study.validationRows, study.validation,
                                  "validation_final_entry")
         /\ finals = ModelReports(study.finalRows, study.final, "final_accuracy")
  OBVIOUS
<1>4. /\ validation.models = models
      /\ validation.latency = RunLatency(study.readings)
      /\ validation.passed => AllHold(ArmsPassed(models))
  BY <1>1, <1>3, ReportParts
<1>5. PICK c : validation.outcome = ClassifyOutcome(ArmsPassed(models), models,
                                       validation.latency, validation.iv, "validation", c)
  BY <1>1, <1>3, ReportParts
<1>6. PICK d : reports.final.outcome = ClassifyOutcome(ArmsPassed(finals), models,
                                          validation.latency, validation.iv, "final", d)
  BY <1>1, <1>3, ReportParts
<1>7. /\ state \in {"entry_failure", "validation_terminal", "validation_passed_not_advanced",
                    "final_failed_consumed", "final_complete"}
      /\ state # "entry_failure" => first = validation
      /\ state = "final_complete" => final = reports.final /\ Validated(reports)
  BY <1>1, <1>2, <1>3, MadeByState
<1>8. \/ state = "validation_terminal" /\ first.outcome.outcome = "promising"
      \/ state = "final_complete" /\ final.outcome.outcome = "promising"
  BY <1>2, <1>7, SnapshotOutcomes DEF MadeOf
<1>9. ~(state = "validation_terminal" /\ first.outcome.outcome = "promising")
  BY <1>5, <1>7, PromisingMeans
<1>10. Validated(reports) /\ reports.final.outcome.outcome = "promising"
  BY <1>7, <1>8, <1>9
<1>11. /\ \A arm \in Arms : ArmsPassed(finals)[arm]
       /\ models["transfer"].slices[Overall].normalised.squares
             < models["scratch"].slices[Overall].normalised.squares
       /\ \A s \in ReferenceSpeedups(validation.latency) : s >= Protocol.minimumSpeedup
  <2>1. WonBoth(ArmsPassed(finals), models, validation.latency)
    BY <1>6, <1>10, PromisingMeans
  <2> QED  BY <2>1 DEF WonBoth
<1>12. \A arm \in Arms : ArmsPassed(models)[arm]
  BY <1>3, <1>4, <1>10 DEF Validated, AllHold, ArmsPassed
<1>13. /\ Answered(study.validationRows, study.validation)
       /\ Answered(study.finalRows, study.final)
       /\ Clocked(study.readings)
  BY StudiesAssumption
<1>14. "validation_final_entry" \in DOMAIN Protocol.limits /\ "final_accuracy" \in DOMAIN Protocol.limits
  BY ProtocolAssumption
<1>15. KeepsAccuracy(study)
  <2>1. \A arm \in Arms :
           Within(study.validationRows, study.validation[arm], "validation_final_entry")
    BY <1>3, <1>12, <1>13, <1>14, PassedKeepsLimit
  <2>2. \A arm \in Arms : Within(study.finalRows, study.final[arm], "final_accuracy")
    BY <1>3, <1>11, <1>13, <1>14, PassedKeepsLimit
  <2>3. \A arm \in Arms : models[arm].slices[Overall].normalised.squares
                            = SquaredError(study.validationRows, study.validation[arm])
    BY <1>3, <1>13, <1>14, PassedKeepsLimit
  <2>4. SquaredError(study.validationRows, study.validation["transfer"])
          < SquaredError(study.validationRows, study.validation["scratch"])
    BY <1>11, <2>3 DEF Arms
  <2> QED  BY <2>1, <2>2, <2>4 DEF KeepsAccuracy
<1>16. KeepsSpeed(study)
  <2> SUFFICES ASSUME NEW shape \in Protocol.shapes, NEW arm \in Arms
               PROVE  LET readings == study.readings[<<shape, Protocol.referenceDepth>>]
                      IN  2 * Cardinality(FastRepetitions(readings["crr"], readings[arm]))
                            > Protocol.repetitions
    BY DEF KeepsSpeed
  <2>1. PICK cell : cell = <<shape, Protocol.referenceDepth>>
    OBVIOUS
  <2>2. cell \in Cells /\ cell[2] = Protocol.referenceDepth
    BY <2>1, ProtocolAssumption DEF Cells
  <2>3. DOMAIN validation.latency = Cells
    BY <1>4 DEF RunLatency
  <2>4. validation.latency[cell].median[arm] \in ReferenceSpeedups(validation.latency)
    BY <2>2, <2>3 DEF ReferenceSpeedups
  <2>5. validation.latency[cell].median[arm] >= Protocol.minimumSpeedup
    BY <1>11, <2>4
  <2> QED  BY <1>4, <1>13, <2>1, <2>2, <2>5, MedianMeansMost
<1> QED  BY <1>15, <1>16

\* A snapshot that says "promising", whoever froze it and when, stands for answers
\* and clock readings that keep the promise row by row and repetition by repetition,
\* for every study and every protocol.
THEOREM KeptPromise == FreezeSpec => []PromiseIsKept
<1>1. FreezeInv => PromiseIsKept
  <2> SUFFICES ASSUME FreezeInv, snapshot # NoValue, snapshot.outcome = "promising"
               PROVE  content.promise
    BY DEF PromiseIsKept
  <2>1. snapshot \in Content(Studies[project]).results /\ project \in DOMAIN Studies
    BY DEF FreezeInv, ReportsInv, SnapshotInv
  <2>2. KeepsAccuracy(Studies[project]) /\ KeepsSpeed(Studies[project])
    BY <2>1, PromisingIsKept
  <2>3. content.promise = (KeepsAccuracy(Studies[project]) /\ KeepsSpeed(Studies[project]))
    BY DEF FreezeInv, ReportsInv, Content, ContentOf
  <2> QED  BY <2>2, <2>3
<1> QED  BY <1>1, FreezeInvariance, PTL
====
