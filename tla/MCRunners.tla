------------------------------ MODULE MCRunners ------------------------------
(***************************************************************************)
(* The two one-shot runners of the repository.  Under faults: a crew of two *)
(* operators or of one drives the European replication, killed anywhere,    *)
(* with ledger writes lost or late.  Under fairness: two operators whom     *)
(* nobody kills and whose publications work drive the European replication  *)
(* or the American pilot.  The experiments share no file, so a behaviour is *)
(* one of the three, chosen at the start.                                   *)
(***************************************************************************)
EXTENDS ReplicationCrew

CONSTANTS o1, o2, PilotInputs

VARIABLES
    experiment,   \* "faulty" or "orderly" replication, or "pilot"
    ledgerDir, pilotLedger, output, entryReport, validationReport, marker,
    finalReport, failureReport, pilotDrift, pilotPc, pilotMem, stage, observed,
    pilotAccesses

TwoOperators == {o1, o2}
NoFaults == {}
AllFaults == {"lost", "late"}
EverythingAlters == Inputs
EverythingPinned == {"validation_report", "artifacts", "commit", "partition"}

\* The replication, and the pilot, when every publication works.
Orderly == INSTANCE Replication WITH Faults <- NoFaults
Pilot == INSTANCE Pilot WITH
    Faults <- NoFaults, Alterable <- PilotInputs, ledger <- pilotLedger,
    drift <- pilotDrift, pc <- pilotPc, mem <- pilotMem, accesses <- pilotAccesses

RunnersInit ==
    /\ experiment \in {"faulty", "orderly", "pilot"}
    /\ CrewInit
    /\ Pilot!Init
    /\ experiment # "faulty" => crew = Operators

pilotVars ==
    <<ledgerDir, pilotLedger, output, entryReport, validationReport, marker,
      finalReport, failureReport, pilotDrift, pilotPc, pilotMem, stage, observed,
      pilotAccesses>>
allVars == <<experiment, vars, crew, pilotVars>>

OnlyFaulty == experiment = "faulty" /\ UNCHANGED <<experiment, pilotVars>>
OnlyOrderly == experiment = "orderly" /\ UNCHANGED <<experiment, crew, pilotVars>>
OnlyPilot == experiment = "pilot" /\ UNCHANGED <<experiment, vars, crew>>

RunnersNext ==
    \/ OnlyFaulty /\ CrewNext
    \/ OnlyOrderly /\ Orderly!UnkilledNext
    \/ OnlyPilot /\ Pilot!UnkilledNext

\* An invocation that started, and that nobody kills, runs to its end, and so does its
\* child process: neither runner has a loop, a lock or a wait on another operator.
\* Nothing is assumed of the faulty replication.
RunnersSpec ==
    /\ RunnersInit
    /\ [][RunnersNext]_allVars
    /\ \A p \in Operators :
        WF_allVars(\/ OnlyOrderly /\ pc[p] # "idle" /\ Orderly!Step(p)
                   \/ OnlyPilot /\ pilotPc[p] # "idle" /\ Pilot!Step(p))

-----------------------------------------------------------------------------
(* Properties *)

\* A reserved validation run of the pilot always settles its ledger on an outcome,
\* whichever call raises; a reserved attempt always ends in a report a reader can
\* freeze and on a ledger that names its outcome, unless a second process mistook
\* the marker for its own.
PilotSettles == experiment = "pilot" =>
    /\ Pilot!ValidationSettles
    /\ Pilot!ReservedEventuallyReported
    /\ Pilot!LedgerEventuallyFinal

\* A reserved run of the replication, in the orderly case, never rests on "prepared", "started" or
\* "completed", and its reserved attempt always ends in a pass or a failure.
ReplicationSettles == experiment = "orderly" => RunSettles /\ AttemptSettles
=============================================================================
