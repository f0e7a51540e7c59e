----------------------------- MODULE Publication -----------------------------
(***************************************************************************)
(* Publication and verification of a surface harvest                        *)
(* (american/pde_surface_harvest.py): write_outputs renders everything in   *)
(* memory, then replaces report.json, rows.csv and, last, manifest.json one *)
(* by one; verify_publication and the authoritative check read the three    *)
(* files back.  Several publishers and readers share one directory, and a   *)
(* publisher may be killed between any two file-system calls.               *)
(***************************************************************************)
EXTENDS Naturals, Sequences, FiniteSets

CONSTANTS
    Publishers,    \* processes in main(), each with one rendered harvest
    Overwriting,   \* the publishers started with --overwrite
    Readers,       \* processes verifying the directory
    Harvests,      \* rendered harvests: records [report, rows] of file contents
    None           \* no file

ASSUME HarvestsAssumption ==
    /\ Overwriting \subseteq Publishers
    /\ Publishers \cap Readers = {}
    /\ None \notin Harvests
    /\ \A h \in Harvests :
          h = [report |-> h.report, rows |-> h.rows] /\ None \notin {h.report, h.rows}

VARIABLES
    file,       \* the directory: contents of "report", "rows" and "manifest"
    harvest,    \* each publisher: what it rendered
    pc,         \* each process: its next call
    step,       \* each publisher: position in the publication order
    seen,       \* each process verifying: the contents it has read
    verdict,    \* each process: outcome of its last verification
    torn,       \* history: publishers stopped with the publication half written
    completed   \* history: publishers that replaced all three files

vars == <<file, harvest, pc, step, seen, verdict, torn, completed>>

-----------------------------------------------------------------------------
Processes == Publishers \cup Readers
Names == {"report", "rows", "manifest"}

\* for name in (*PUBLISHED_FILES, MANIFEST_NAME): the manifest is last.
Order == <<"report", "rows", "manifest">>

\* manifest.json lists the digest of each other file: a manifest is the record
\* of the contents it digests, which is the harvest itself.
Payload(h, name) == IF name = "manifest" THEN h ELSE h[name]

\* Manifest and digests, then reconcile_report, which accepts what one run
\* rendered and nothing that mixes two.  Here as below, a definition that no
\* action uses is a plausible bug of the one it precedes.
AcceptedLegacy(s) ==
    /\ s.report # None /\ s.rows # None
    /\ s.manifest # None => s.report = s.manifest.report /\ s.rows = s.manifest.rows
AcceptedUnhashed(s) == s.manifest # None /\ s.report # None /\ s.rows # None
Accepted(s) ==
    /\ s.manifest # None
    /\ s.report = s.manifest.report
    /\ s.rows = s.manifest.rows

Nothing == [n \in Names |-> None]

Init ==
    /\ file = Nothing
    /\ harvest \in [Publishers -> Harvests]
    /\ pc = [p \in Processes |-> "start"]
    /\ step = [p \in Publishers |-> 1]
    /\ seen = [p \in Processes |-> Nothing]
    /\ verdict = [p \in Processes |-> "none"]
    /\ torn = {}
    /\ completed = {}

Goto(p, l) == pc' = [pc EXCEPT ![p] = l]

-----------------------------------------------------------------------------
(* write_outputs *)

\* run_harvest and rendering happened; a rendering failure publishes nothing.
Render(p) ==
    /\ pc[p] = "start"
    /\ p \in Publishers
    /\ \E l \in {"check", "done"} : Goto(p, l)
    /\ UNCHANGED <<file, harvest, step, seen, verdict, torn, completed>>

\* if destination.exists() and not overwrite: refuse
Refused(p) == p \notin Overwriting /\ file[Order[step[p]]] # None
CheckDestination(p) ==
    /\ pc[p] = "check"
    /\ Goto(p, IF Refused(p) THEN "done" ELSE "replace")
    /\ UNCHANGED <<file, harvest, step, seen, verdict, torn, completed>>

\* _write_atomic: temporary file, fsync, os.replace - or an OSError before it.
Replace(p) ==
    /\ pc[p] = "replace"
    /\ LET name == Order[step[p]] IN
       file' = [file EXCEPT ![name] = Payload(harvest[p], name)]
    /\ IF step[p] = Len(Order)
       THEN Goto(p, "read") /\ completed' = completed \cup {p} /\ UNCHANGED step
       ELSE Goto(p, "check") /\ step' = [step EXCEPT ![p] = @ + 1] /\ UNCHANGED completed
    /\ UNCHANGED <<harvest, seen, verdict, torn>>

ReplaceFails(p) ==
    /\ pc[p] = "replace"
    /\ Goto(p, "done")
    /\ torn' = IF step[p] > 1 THEN torn \cup {p} ELSE torn
    /\ UNCHANGED <<file, harvest, step, seen, verdict, completed>>

Kill(p) ==
    /\ pc[p] \in {"check", "replace"}
    /\ Goto(p, "done")
    /\ torn' = IF step[p] > 1 THEN torn \cup {p} ELSE torn
    /\ UNCHANGED <<file, harvest, step, seen, verdict, completed>>

-----------------------------------------------------------------------------
(* _load_verified_publication, by a reader or by main() after publishing:   *)
(* the manifest is read first, then each file it declares, in name order    *)

StartReading(p) ==
    /\ pc[p] = "start"
    /\ p \in Readers
    /\ Goto(p, "read")
    /\ UNCHANGED <<file, harvest, step, seen, verdict, torn, completed>>

ReadManifest(p) ==
    /\ pc[p] = "read"
    /\ seen' = [seen EXCEPT ![p] = [Nothing EXCEPT !.manifest = file.manifest]]
    /\ Goto(p, IF file.manifest = None THEN "judge" ELSE "read_report")
    /\ UNCHANGED <<file, harvest, step, verdict, torn, completed>>

ReadReport(p) ==
    /\ pc[p] = "read_report"
    /\ seen' = [seen EXCEPT ![p].report = file.report]
    /\ Goto(p, "read_rows")
    /\ UNCHANGED <<file, harvest, step, verdict, torn, completed>>

ReadRows(p) ==
    /\ pc[p] = "read_rows"
    /\ seen' = [seen EXCEPT ![p].rows = file.rows]
    /\ Goto(p, "judge")
    /\ UNCHANGED <<file, harvest, step, verdict, torn, completed>>

Judge(p) ==
    /\ pc[p] = "judge"
    /\ verdict' = [verdict EXCEPT ![p] = IF Accepted(seen[p]) THEN "accepted" ELSE "rejected"]
    /\ Goto(p, "done")
    /\ UNCHANGED <<file, harvest, step, seen, torn, completed>>

\* A reader may verify again at any later time.
ReadAgain(p) ==
    /\ pc[p] = "done"
    /\ p \in Readers
    /\ Goto(p, "read")
    /\ seen' = [seen EXCEPT ![p] = Nothing]
    /\ verdict' = [verdict EXCEPT ![p] = "none"]
    /\ UNCHANGED <<file, harvest, step, torn, completed>>

Publish(p) == Render(p) \/ CheckDestination(p) \/ Replace(p) \/ ReplaceFails(p) \/ Kill(p)
Verify(p) ==
    StartReading(p) \/ ReadManifest(p) \/ ReadReport(p) \/ ReadRows(p) \/ Judge(p)
        \/ ReadAgain(p)

Next ==
    \/ \E p \in Publishers : Publish(p)
    \/ \E p \in Processes : Verify(p)

Spec == Init /\ [][Next]_vars

-----------------------------------------------------------------------------
(* Properties *)

Contents == {h.report : h \in Harvests} \cup {h.rows : h \in Harvests}

TypeOK ==
    /\ file \in [Names -> Contents \cup Harvests \cup {None}]
    /\ harvest \in [Publishers -> Harvests]
    /\ pc \in [Processes -> {"start", "check", "replace", "read", "read_report",
                             "read_rows", "judge", "done"}]
    /\ step \in [Publishers -> 1..3]
    /\ seen \in [Processes -> [Names -> Contents \cup Harvests \cup {None}]]
    /\ verdict \in [Processes -> {"none", "accepted", "rejected"}]
    /\ torn \subseteq Publishers
    /\ completed \subseteq Publishers

\* What a verification accepts is one harvest in full, published to its end by
\* some process, whatever was published and torn while the files were read.
AcceptedWasCompleted ==
    \A p \in Processes : verdict[p] = "accepted" =>
        /\ seen[p].manifest = [report |-> seen[p].report, rows |-> seen[p].rows]
        /\ \E q \in completed : harvest[q] = seen[p].manifest

\* "A run interrupted mid-publication leaves a directory that verify_publication
\* rejects rather than one that reads as a completed dataset" (write_outputs).
InterruptedIsRejected ==
    \A p \in torn :
        (\A q \in Publishers \ {p} : step[q] = 1) => ~Accepted(file)
=============================================================================
