------------------------- MODULE PublicationProofs -------------------------
(***************************************************************************)
(* What a verification of a harvest directory establishes, for every number *)
(* of publishers, readers and harvests; then what training and evaluation   *)
(* compute on, for every number of generators, every set of configurations  *)
(* and every domain.                                                        *)
(***************************************************************************)
EXTENDS Publication, Dataset, TLAPS

-----------------------------------------------------------------------------
(* The inductive invariant.                                                 *)

Published == {"read", "read_report", "read_rows", "judge", "done"}

\* A file of the directory has the kind of content its name promises.
DirectoryInv ==
    /\ file \in [Names -> Contents \cup Harvests \cup {None}]
    /\ file.manifest \in Harvests \cup {None}
    /\ harvest \in [Publishers -> Harvests]
    /\ step \in [Publishers -> 1..3]
    /\ pc \in [Processes -> {"start", "check", "replace"} \cup Published]
    /\ verdict \in [Processes -> {"none", "accepted", "rejected"}]
    /\ seen \in [Processes -> [Names -> Contents \cup Harvests \cup {None}]]
    /\ torn \subseteq Publishers
    /\ completed \subseteq Publishers

\* Who completed a publication has replaced the manifest and never publishes
\* again; who was stopped half way never goes on.
PublisherInv ==
    /\ \A q \in completed : step[q] = 3 /\ pc[q] \in Published
    /\ \A q \in torn : pc[q] = "done"
    /\ torn \cap completed = {}

\* A manifest, on disk or in a reader's memory, was put there by a publisher
\* who thereby completed its publication.
ManifestInv ==
    /\ file.manifest # None => \E q \in completed : harvest[q] = file.manifest
    /\ \A p \in Processes : seen[p].manifest # None =>
          \E q \in completed : harvest[q] = seen[p].manifest

\* A verdict is about what was read.
VerdictInv == \A p \in Processes : verdict[p] = "accepted" => pc[p] = "done" /\ Accepted(seen[p])

PublicationInv == DirectoryInv /\ PublisherInv /\ ManifestInv /\ VerdictInv

-----------------------------------------------------------------------------
LEMMA NamesOfFiles ==
    /\ \A k \in 1..3 : Order[k] \in Names /\ (Order[k] = "manifest" <=> k = 3)
    /\ Len(Order) = 3
  BY DEF Order, Names

\* What a publisher writes is of the kind its file promises.
LEMMA PayloadKind ==
  ASSUME NEW h \in Harvests, NEW name \in Names
  PROVE  /\ Payload(h, name) \in Contents \cup Harvests
         /\ name = "manifest" => Payload(h, name) = h
  <1>1. CASE name = "manifest"
    BY <1>1 DEF Payload
  <1>2. CASE name # "manifest"
    <2>1. name \in {"report", "rows"}
      BY <1>2 DEF Names
    <2>2. h.report \in Contents /\ h.rows \in Contents
      BY DEF Contents
    <2> QED
      BY <1>2, <2>1, <2>2 DEF Payload
  <1> QED
    BY <1>1, <1>2

THEOREM PublicationInitial == Init => PublicationInv
  <1> SUFFICES ASSUME Init PROVE PublicationInv
    OBVIOUS
  <1> USE DEF Init, Nothing, Names, Processes, Published
  <1>1. DirectoryInv
    BY DEF DirectoryInv
  <1>2. PublisherInv
    BY DEF PublisherInv
  <1>3. ManifestInv
    BY DEF ManifestInv
  <1>4. VerdictInv
    BY DEF VerdictInv
  <1> QED
    BY <1>1, <1>2, <1>3, <1>4 DEF PublicationInv

\* A step that leaves the directory, the publishers and what was read alone.
LEMMA Bystander ==
  ASSUME PublicationInv, UNCHANGED <<file, harvest, step, seen, completed>>
  PROVE  ManifestInv'
  BY DEF PublicationInv, ManifestInv

\* A reader's next view of the directory knows no manifest but the one on disk
\* and the one it knew.
LEMMA WhatIsRead ==
  ASSUME NEW p \in Processes, DirectoryInv,
         ReadManifest(p) \/ ReadReport(p) \/ ReadRows(p) \/ ReadAgain(p)
  PROVE  \E view \in [Names -> Contents \cup Harvests \cup {None}] :
            /\ seen' = [seen EXCEPT ![p] = view]
            /\ view.manifest \in {None, file.manifest, seen[p].manifest}
  <1> DEFINE Views == [Names -> Contents \cup Harvests \cup {None}]
  <1>1. Nothing \in Views /\ Nothing.manifest = None
    BY DEF Nothing, Names
  <1>2. CASE ReadManifest(p)
    <2> DEFINE view == [Nothing EXCEPT !["manifest"] = file.manifest]
    <2>1. view \in Views /\ view.manifest = file.manifest
      <3> HIDE DEF Nothing
      <3> QED
        BY <1>1 DEF DirectoryInv, Names
    <2>2. seen' = [seen EXCEPT ![p] = view]
      <3> HIDE DEF Nothing
      <3> QED
        BY <1>2 DEF ReadManifest
    <2> QED
      BY <2>1, <2>2
  <1>3. CASE ReadReport(p)
    <2> DEFINE view == [seen[p] EXCEPT !["report"] = file.report]
    <2>1. view \in Views /\ view.manifest = seen[p].manifest
      BY DEF DirectoryInv, Names
    <2>2. seen' = [seen EXCEPT ![p] = view]
      BY <1>3 DEF ReadReport
    <2> QED
      BY <2>1, <2>2
  <1>4. CASE ReadRows(p)
    <2> DEFINE view == [seen[p] EXCEPT !["rows"] = file.rows]
    <2>1. view \in Views /\ view.manifest = seen[p].manifest
      BY DEF DirectoryInv, Names
    <2>2. seen' = [seen EXCEPT ![p] = view]
      BY <1>4 DEF ReadRows
    <2> QED
      BY <2>1, <2>2
  <1>5. CASE ReadAgain(p)
    BY <1>1, <1>5 DEF ReadAgain
  <1> QED
    BY <1>2, <1>3, <1>4, <1>5

THEOREM PublicationStep == PublicationInv /\ [Next]_vars => PublicationInv'
  <1> SUFFICES ASSUME PublicationInv, [Next]_vars PROVE PublicationInv'
    OBVIOUS
  <1> USE DEF PublicationInv, Goto
  <1>1. ASSUME NEW p \in Publishers, Render(p) PROVE PublicationInv'
    <2> USE <1>1 DEF Render
    <2>1. DirectoryInv'
      BY DEF DirectoryInv, Processes, Published
    <2>2. PublisherInv'
      BY DEF DirectoryInv, PublisherInv, Processes, Published
    <2>3. VerdictInv'
      BY DEF DirectoryInv, VerdictInv, Processes, Accepted
    <2> QED
      BY <2>1, <2>2, <2>3, Bystander
  <1>2. ASSUME NEW p \in Publishers, CheckDestination(p) PROVE PublicationInv'
    <2> USE <1>2 DEF CheckDestination
    <2>1. DirectoryInv'
      BY DEF DirectoryInv, Processes, Published
    <2>2. PublisherInv'
      BY DEF DirectoryInv, PublisherInv, Processes, Published
    <2>3. VerdictInv'
      BY DEF DirectoryInv, VerdictInv, Processes, Accepted
    <2> QED
      BY <2>1, <2>2, <2>3, Bystander
  <1>3. ASSUME NEW p \in Publishers, Replace(p) PROVE PublicationInv'
    <2> USE <1>3 DEF Replace
    <2>1. /\ step[p] \in 1..3 /\ harvest[p] \in Harvests /\ p \in Processes
          /\ Order[step[p]] \in Names /\ (Order[step[p]] = "manifest" <=> step[p] = 3)
          /\ Len(Order) = 3
      BY NamesOfFiles DEF DirectoryInv, Processes
    <2>2. file' = [file EXCEPT ![Order[step[p]]] = Payload(harvest[p], Order[step[p]])]
      OBVIOUS
    <2>3. DirectoryInv'
      <3>1. file' \in [Names -> Contents \cup Harvests \cup {None}]
        BY <2>1, <2>2, PayloadKind DEF DirectoryInv
      <3>2. file'.manifest \in Harvests \cup {None}
        BY <2>1, <2>2, PayloadKind DEF DirectoryInv, Names
      <3>3. step' \in [Publishers -> 1..3]
        BY <2>1 DEF DirectoryInv
      <3>4. pc' \in [Processes -> {"start", "check", "replace"} \cup Published]
        BY <2>1 DEF DirectoryInv, Published
      <3> QED
        BY <3>1, <3>2, <3>3, <3>4 DEF DirectoryInv
    <2>4. PublisherInv'
      <3>1. CASE step[p] = 3
        BY <2>1, <3>1 DEF DirectoryInv, PublisherInv, Published, Processes
      <3>2. CASE step[p] # 3
        BY <2>1, <3>2 DEF DirectoryInv, PublisherInv, Published, Processes
      <3> QED
        BY <3>1, <3>2
    <2>5. ManifestInv'
      <3>1. CASE step[p] = 3
        <4>1. file'.manifest = harvest[p] /\ completed' = completed \cup {p}
          BY <2>1, <2>2, <3>1, PayloadKind DEF DirectoryInv, Names
        <4> QED
          BY <4>1 DEF ManifestInv
      <3>2. CASE step[p] # 3
        <4>1. file'.manifest = file.manifest /\ completed' = completed
          BY <2>1, <2>2, <3>2 DEF DirectoryInv, Names
        <4> QED
          BY <4>1 DEF ManifestInv
      <3> QED
        BY <3>1, <3>2
    <2>6. VerdictInv'
      BY <2>1 DEF DirectoryInv, VerdictInv, Accepted
    <2> QED
      BY <2>3, <2>4, <2>5, <2>6
  <1>4. ASSUME NEW p \in Publishers, ReplaceFails(p) \/ Kill(p) PROVE PublicationInv'
    <2> USE <1>4 DEF ReplaceFails, Kill
    <2>1. DirectoryInv'
      BY DEF DirectoryInv, Processes, Published
    <2>2. PublisherInv'
      <3>1. p \notin completed
        BY DEF PublisherInv, Published
      <3> QED
        BY <3>1 DEF DirectoryInv, PublisherInv, Processes, Published
    <2>3. VerdictInv'
      BY DEF DirectoryInv, VerdictInv, Processes, Accepted
    <2> QED
      BY <2>1, <2>2, <2>3, Bystander
  <1>5. ASSUME NEW p \in Processes, StartReading(p) \/ Judge(p) PROVE PublicationInv'
    <2> USE <1>5 DEF StartReading, Judge
    <2>1. DirectoryInv'
      BY DEF DirectoryInv, Published
    <2>2. PublisherInv'
      BY HarvestsAssumption DEF DirectoryInv, PublisherInv, Published, Processes
    <2>3. VerdictInv'
      BY DEF DirectoryInv, VerdictInv, Accepted
    <2> QED
      BY <2>1, <2>2, <2>3, Bystander
  <1>6. ASSUME NEW p \in Processes, ReadManifest(p) \/ ReadReport(p) \/ ReadRows(p) \/ ReadAgain(p)
        PROVE  PublicationInv'
    <2>1. PICK view \in [Names -> Contents \cup Harvests \cup {None}] :
             /\ seen' = [seen EXCEPT ![p] = view]
             /\ view.manifest \in {None, file.manifest, seen[p].manifest}
      BY <1>6, WhatIsRead DEF DirectoryInv
    <2>2. /\ UNCHANGED <<file, harvest, step, torn, completed>>
          /\ pc[p] # "done" => verdict' = verdict
          /\ pc[p] = "done" => p \in Readers /\ verdict' = [verdict EXCEPT ![p] = "none"]
          /\ pc[p] \in Published
          /\ \E l \in Published \ {"done"} : pc' = [pc EXCEPT ![p] = l]
      BY <1>6 DEF ReadManifest, ReadReport, ReadRows, ReadAgain, Published
    <2>3. DirectoryInv'
      BY <2>1, <2>2 DEF DirectoryInv
    <2>4. PublisherInv'
      BY <2>2, HarvestsAssumption DEF DirectoryInv, PublisherInv
    <2>5. ManifestInv'
      BY <2>1, <2>2 DEF DirectoryInv, ManifestInv
    <2>6. VerdictInv'
      BY <2>1, <2>2 DEF DirectoryInv, VerdictInv, Accepted
    <2> QED
      BY <2>3, <2>4, <2>5, <2>6
  <1>7. CASE UNCHANGED vars
    BY <1>7 DEF vars, DirectoryInv, PublisherInv, ManifestInv, VerdictInv, Accepted
  <1> QED
    BY <1>1, <1>2, <1>3, <1>4, <1>5, <1>6, <1>7 DEF Next, Publish, Verify

-----------------------------------------------------------------------------
(* What it gives.                                                           *)

THEOREM PublicationInvariance == Spec => []PublicationInv
  BY PublicationInitial, PublicationStep, PTL DEF Spec

\* However many processes publish and verify, what a verification accepts is one
\* harvest in full that some publisher put there to its end: the manifest is
\* replaced last and every file is compared with it (write_outputs,
\* _load_verified_publication).
THEOREM OnlyCompletedIsAccepted == Spec => []AcceptedWasCompleted
  <1>1. PublicationInv => AcceptedWasCompleted
    <2> SUFFICES ASSUME PublicationInv, NEW p \in Processes, verdict[p] = "accepted"
                 PROVE  /\ seen[p].manifest = [report |-> seen[p].report, rows |-> seen[p].rows]
                        /\ \E q \in completed : harvest[q] = seen[p].manifest
      BY DEF AcceptedWasCompleted
    <2>1. Accepted(seen[p])
      BY DEF PublicationInv, VerdictInv
    <2>2. \E q \in completed : harvest[q] = seen[p].manifest
      BY <2>1 DEF PublicationInv, ManifestInv, Accepted
    <2>3. seen[p].manifest \in Harvests
      BY <2>2 DEF PublicationInv, DirectoryInv
    <2> QED
      BY <2>1, <2>2, <2>3, HarvestsAssumption DEF Accepted
  <1> QED
    BY <1>1, PublicationInvariance, PTL

\* A publication that was stopped half way in a directory nobody else published
\* to is rejected for good, whichever call it was stopped at.
THEOREM InterruptionIsVisible == Spec => []InterruptedIsRejected
  <1>1. PublicationInv => InterruptedIsRejected
    <2> SUFFICES ASSUME PublicationInv, NEW p \in torn,
                        \A q \in Publishers \ {p} : step[q] = 1, Accepted(file)
                 PROVE  FALSE
      BY DEF InterruptedIsRejected
    <2>1. PICK q \in completed : harvest[q] = file.manifest
      BY DEF PublicationInv, ManifestInv, Accepted
    <2>2. q # p /\ q \in Publishers /\ step[q] = 3
      BY <2>1 DEF PublicationInv, PublisherInv, DirectoryInv
    <2> QED
      BY <2>2
  <1> QED
    BY <1>1, PublicationInvariance, PTL

-----------------------------------------------------------------------------
(* Datasets: the inductive invariant.                                       *)

Reading == {"identify", "hash", "open"}

\* What a phase has left to load.
TodoOf(p) == IF p = "train" THEN {<<"train", "validation">>, <<"validation">>}
             ELSE {<<"validation">>, <<"interpolation_test">>}

DatasetTypeOK ==
    /\ document \in [Generators -> Documents]
    /\ gpc \in [Generators -> {"start", "check", "done"} \cup Busy]
    /\ at \in [Generators -> 1..4]
    /\ DOMAIN stored = FileNames
    /\ DOMAIN entries = Generators /\ \A g \in Generators : DOMAIN entries[g] = Splits
    /\ cpc \in {"idle", "refused", "peek", "parse", "trained", "evaluated"} \cup Reading
    /\ phase \in {"train", "evaluate"}
    /\ cpc \in {"peek", "parse"} \cup Reading => todo \in TodoOf(phase)
    /\ DOMAIN loaded = Splits
    /\ writers \subseteq Generators
    /\ crowded \in BOOLEAN /\ overlapped \in BOOLEAN /\ swapped \in BOOLEAN

\* A generator that got past its configuration works through the partitions in
\* order and has declared those it has finished.
GeneratorInv == \A g \in Generators :
    /\ gpc[g] \in {"start", "check"} => at[g] = 1
    /\ gpc[g] \in {"check"} \cup Busy => Parses(document[g])
    /\ gpc[g] \in {"open_split", "close_split", "hash_split"} => at[g] \in 1..3
    /\ gpc[g] \in {"open_manifest", "close_manifest"} => at[g] = 4
    /\ gpc[g] \in Busy => \A i \in 1..3 : i < at[g] =>
          entries[g][SplitNames[i]].rows = document[g].rows[SplitNames[i]]

\* While generators never met, the one at work finds on disk, and declares, what
\* it generated.
SoleInv == ~overlapped =>
    /\ \A g, h \in Generators : gpc[g] \in Busy /\ gpc[h] \in Busy => g = h
    /\ \A g \in Generators :
        /\ gpc[g] \in Busy => \A i \in 1..3 : i < at[g] =>
              /\ stored[SplitNames[i]] = Table(document[g], SplitNames[i])
              /\ entries[g][SplitNames[i]].sha256 = Table(document[g], SplitNames[i])
        /\ gpc[g] = "hash_split" => stored[Target(g)] = Table(document[g], Target(g))

\* A manifest that loads, and one whose digests are of the tables that its own
\* configuration generates.
Sound(m) ==
    /\ ManifestLoads(m)
    /\ m.config \in Documents
    /\ \A s \in Splits : m.rows[s] = m.config.rows[s]
Genuine(m) == \A s \in Splits : m.files[s].sha256 = Table(m.config, s)

PinnedInv ==
    Readable(stored["manifest"]) =>
        Sound(stored["manifest"]) /\ (~overlapped => Genuine(stored["manifest"]))

Undisturbed == ~overlapped /\ ~crowded /\ ~swapped

\* The one generator that wrote since the phase began is finished, and left the
\* directory that m describes.
Finished(m) ==
    /\ \E g \in Generators : writers = {g} /\ gpc[g] = "done"
    /\ \A s \in Splits : stored[s] = Table(m.config, s)

\* The manifest in memory, against the one on disk and the one whose digest was
\* recorded.
ReadingInv ==
    /\ cpc \in Reading => Sound(parsed) /\ (~overlapped => Genuine(parsed))
    /\ cpc \in Reading /\ writers = {} => parsed = stored["manifest"] /\ Readable(parsed)
    /\ cpc = "identify" /\ Undisturbed /\ Readable(stored["manifest"]) =>
          parsed = stored["manifest"] \/ Finished(stored["manifest"])
    /\ cpc \in {"hash", "open"} /\ Undisturbed /\ Readable(trained) =>
          parsed = trained \/ Finished(trained)
    /\ cpc = "open" /\ ~swapped =>
          stored[Head(todo)] # Absent /\ stored[Head(todo)] = parsed.files[Head(todo)].sha256

AsTrained(s) == loaded[s] # Absent => loaded[s] = Table(trained.config, s)
LoadedInv ==
    /\ cpc \in {"peek", "parse", "identify"} /\ phase = "train" => todo = <<"train", "validation">>
    /\ phase = "train" => loaded["interpolation_test"] = Absent
    /\ cpc = "evaluated" => phase = "evaluate"
    /\ Undisturbed /\ Readable(trained) =>
        /\ phase = "evaluate" \/ cpc = "trained" => \A s \in Splits : AsTrained(s)
        /\ cpc \in {"hash", "open"} /\ phase = "train" /\ todo = <<"validation">> =>
              AsTrained("train")

DatasetInv ==
    DatasetTypeOK /\ GeneratorInv /\ SoleInv /\ PinnedInv /\ ReadingInv /\ LoadedInv
    /\ CompletedLoads

-----------------------------------------------------------------------------
(* Names, targets and what is left to load.                                 *)

LEMMA SplitNamesKnown ==
  /\ Len(SplitNames) = 3
  /\ SplitNames[1] = "train" /\ SplitNames[2] = "validation"
  /\ SplitNames[3] = "interpolation_test"
  /\ Splits = {"train", "validation", "interpolation_test"}
  /\ \A i, j \in 1..3 : SplitNames[i] = SplitNames[j] => i = j
  /\ "manifest" \notin Splits
  <1>1. /\ Len(SplitNames) = 3
        /\ SplitNames[1] = "train" /\ SplitNames[2] = "validation"
        /\ SplitNames[3] = "interpolation_test"
    BY DEF SplitNames
  <1>2. Splits = {"train", "validation", "interpolation_test"}
    <2>1. 1..3 = {1, 2, 3}
      OBVIOUS
    <2> QED
      BY <1>1, <2>1 DEF Splits
  <1>3. \A i, j \in 1..3 : SplitNames[i] = SplitNames[j] => i = j
    BY <1>1
  <1> QED
    BY <1>1, <1>2, <1>3

\* What a generator works on: the partition of its position, then the manifest.
LEMMA Targets ==
  ASSUME DatasetTypeOK, NEW g \in Generators
  PROVE  /\ at[g] \in 1..3 => Target(g) = SplitNames[at[g]] /\ Target(g) \in Splits
         /\ at[g] = 4 => Target(g) = "manifest"
  BY SplitNamesKnown DEF DatasetTypeOK, Target, Splits

\* The partitions a phase still has to load.
LEMMA Todo ==
  ASSUME NEW p \in {"train", "evaluate"}, NEW t \in TodoOf(p)
  PROVE  /\ Head(t) \in Splits
         /\ p = "train" => Head(t) # "interpolation_test"
         /\ t = <<"train", "validation">> =>
               Len(t) = 2 /\ Head(t) = "train" /\ Tail(t) = <<"validation">>
         /\ t # <<"train", "validation">> => Len(t) = 1
         /\ p = "train" /\ t # <<"train", "validation">> => Head(t) = "validation"
         /\ t = <<"validation">> => t # <<"train", "validation">>
         /\ <<"train", "validation">> \in TodoOf("train") /\ <<"validation">> \in TodoOf("train")
         /\ p = "evaluate" => t # <<"train", "validation">>
  <1>1. /\ Len(<<"train", "validation">>) = 2 /\ Head(<<"train", "validation">>) = "train"
        /\ Tail(<<"train", "validation">>) = <<"validation">>
    OBVIOUS
  <1>2. /\ Len(<<"validation">>) = 1 /\ Head(<<"validation">>) = "validation"
        /\ Len(<<"interpolation_test">>) = 1
        /\ Head(<<"interpolation_test">>) = "interpolation_test"
    OBVIOUS
  <1>3. <<"validation">> # <<"train", "validation">>
        /\ <<"interpolation_test">> # <<"train", "validation">>
    BY <1>1, <1>2
  <1>4. CASE p = "train"
    BY <1>1, <1>2, <1>3, <1>4, SplitNamesKnown DEF TodoOf
  <1>5. CASE p = "evaluate"
    BY <1>1, <1>2, <1>3, <1>5, SplitNamesKnown DEF TodoOf
  <1> QED
    BY <1>4, <1>5

\* The partitions are known to differ from a missing and from a torn file.
LEMMA TablesRead ==
  ASSUME NEW m, Sound(m), NEW s \in Splits
  PROVE  /\ Table(m.config, s) \notin {Absent, Torn}
         /\ Table(m.config, s).rows = m.files[s].rows
  BY ContentAssumption DEF Sound, ManifestLoads, Table

\* The manifest a generation ends with loads: the configuration's validation is
\* at least as strict as the manifest's.
LEMMA ManifestIsSound ==
  ASSUME NEW d \in Documents, Parses(d), NEW declared, DOMAIN declared = Splits,
         \A s \in Splits : declared[s].rows = d.rows[s]
  PROVE  Sound(Manifest(d, declared))
  <1> DEFINE m == Manifest(d, declared)
  <1>1. /\ m.schema = "european-option-dataset/1" /\ m.config = d /\ m.domain = d.domain
        /\ m.rows = d.rows /\ m.files = declared
    BY DEF Manifest
  <1>2. d.rows \in [Splits -> Int] /\ d.domain \in [Fields -> Int \X Int]
    BY DocumentsAssumption
  <1>3. \A s \in Splits : d.rows[s] >= 0
    BY <1>2 DEF Parses
  <1>4. \A f \in Fields : d.domain[f][1] < d.domain[f][2]
    BY DEF Parses, BoundsParse
  <1> HIDE DEF m
  <1>5. ManifestLoads(m)
    BY <1>1, <1>2, <1>3, <1>4 DEF ManifestLoads
  <1> QED
    BY <1>1, <1>5 DEF Sound, m

THEOREM DatasetInitial == DatasetInit => DatasetInv
  <1> SUFFICES ASSUME DatasetInit PROVE DatasetInv
    OBVIOUS
  <1>1. DatasetTypeOK
    <2>1. 1 \in 1..4
      OBVIOUS
    <2>2. at \in [Generators -> 1..4] /\ document \in [Generators -> Documents]
      BY <2>1 DEF DatasetInit
    <2>3. DOMAIN entries = Generators /\ \A g \in Generators : DOMAIN entries[g] = Splits
      BY DEF DatasetInit
    <2> QED
      BY <2>2, <2>3 DEF DatasetInit, DatasetTypeOK, Reading
  <1>2. GeneratorInv /\ SoleInv
    BY DEF DatasetInit, GeneratorInv, SoleInv, Busy
  <1>3. PinnedInv
    BY DEF DatasetInit, PinnedInv, Readable, FileNames
  <1>4. ReadingInv
    BY DEF DatasetInit, ReadingInv, Reading
  <1>5. LoadedInv
    BY SplitNamesKnown DEF DatasetInit, LoadedInv, Readable
  <1>6. CompletedLoads
    BY DEF DatasetInit, CompletedLoads
  <1> QED
    BY <1>1, <1>2, <1>3, <1>4, <1>5, <1>6 DEF DatasetInv

-----------------------------------------------------------------------------
(* Generators, as the consumer sees them.                                   *)

ConsumerInv == PinnedInv /\ ReadingInv /\ LoadedInv /\ CompletedLoads

\* A step of a generator that touches no file.
LEMMA QuietGenerators ==
  ASSUME ConsumerInv, UNCHANGED <<stored, consuming, watching>>,
         overlapped => overlapped',
         \A h \in Generators : gpc[h] = "done" => gpc'[h] = "done"
  PROVE  ConsumerInv'
  <1> USE DEF ConsumerInv, consuming, watching
  <1>1. PinnedInv'
    BY DEF PinnedInv, Readable, Sound, Genuine, ManifestLoads
  <1>2. \A m : Finished(m) => Finished(m)'
    BY DEF Finished
  <1>3. Undisturbed' => Undisturbed
    BY DEF Undisturbed
  <1>4. ReadingInv'
    BY <1>2, <1>3 DEF ReadingInv, Readable, Sound, Genuine, ManifestLoads
  <1>5. LoadedInv'
    BY <1>3 DEF LoadedInv, Readable, AsTrained
  <1>6. CompletedLoads'
    BY DEF CompletedLoads, Complete, Readable
  <1> QED
    BY <1>1, <1>4, <1>5, <1>6

\* A write, of a generator at work.  While at most one generator wrote since the
\* phase began and generators never met, a manifest that appears is that
\* generator's last write, and the directory is the one it describes.
LEMMA WritesObserved ==
  ASSUME DatasetTypeOK, ConsumerInv, NEW g \in Generators, gpc[g] \in Busy,
         NEW name \in FileNames, NEW content, NEW l, Write(g, name, content), GenGoto(g, l),
         UNCHANGED <<overlapped, consuming>>,
         name = "manifest" /\ content # Torn =>
            /\ l = "done" /\ Sound(content)
            /\ ~overlapped => Genuine(content)
            /\ ~overlapped => \A s \in Splits : stored[s] = Table(content.config, s)
  PROVE  ConsumerInv'
  <1>1. /\ UNCHANGED <<cpc, phase, todo, parsed, trained, loaded, overlapped>>
        /\ g \in writers' /\ writers' # {}
        /\ Undisturbed' => Undisturbed
    BY DEF consuming, Write, Undisturbed
  <1>2. \A n \in FileNames : stored'[n] = IF n = name THEN content ELSE stored[n]
    BY DEF Write, DatasetTypeOK
  <1>3. "manifest" \in FileNames /\ Splits \subseteq FileNames
    BY DEF FileNames
  <1>4. \A m : (Sound(m)' <=> Sound(m)) /\ (Genuine(m)' <=> Genuine(m))
               /\ (Readable(m)' <=> Readable(m))
    BY DEF Sound, Genuine, ManifestLoads, Readable
  <1>5. PinnedInv'
    <2>1. CASE name = "manifest"
      BY <1>1, <1>2, <1>3, <1>4, <2>1 DEF PinnedInv, Readable
    <2>2. CASE name # "manifest"
      BY <1>1, <1>2, <1>3, <1>4, <2>2 DEF ConsumerInv, PinnedInv
    <2> QED
      BY <2>1, <2>2
  <1>6. ASSUME Undisturbed', NEW m PROVE ~Finished(m)
    <2>1. ~crowded' /\ crowded' = (crowded \/ \E h \in writers : h # g)
      BY <1>6 DEF Undisturbed, Write
    <2>2. "done" \notin Busy
      BY DEF Busy
    <2> QED
      BY <2>1, <2>2 DEF Finished
  <1>7. ReadingInv'
    <2>1. (cpc \in Reading => Sound(parsed) /\ (~overlapped => Genuine(parsed)))'
      BY <1>1, <1>4 DEF ConsumerInv, ReadingInv
    <2>2. (cpc \in Reading /\ writers = {} => parsed = stored["manifest"] /\ Readable(parsed))'
      BY <1>1
    <2>3. (cpc = "identify" /\ Undisturbed /\ Readable(stored["manifest"]) =>
              parsed = stored["manifest"] \/ Finished(stored["manifest"]))'
      <3> SUFFICES ASSUME cpc = "identify", Undisturbed', Readable(stored'["manifest"])
                   PROVE  parsed' = stored'["manifest"] \/ Finished(stored["manifest"])'
        BY <1>1, <1>4
      <3>1. CASE name # "manifest"
        BY <1>1, <1>2, <1>3, <1>6, <3>1 DEF ConsumerInv, ReadingInv
      <3>2. CASE name = "manifest"
        <4>1. stored'["manifest"] = content /\ content # Torn
          BY <1>2, <1>3, <3>2 DEF Readable
        <4>2. ~overlapped /\ writers' = {g} /\ gpc'[g] = "done"
          BY <1>1, <3>2, <4>1 DEF Undisturbed, Write, GenGoto, DatasetTypeOK
        <4>3. \A s \in Splits : stored'[s] = Table(content.config, s)
          BY <1>2, <1>3, <3>2, <4>1, <4>2, SplitNamesKnown
        <4> QED
          BY <4>1, <4>2, <4>3 DEF Finished, Table
      <3> QED
        BY <3>1, <3>2
    <2>4. (cpc \in {"hash", "open"} /\ Undisturbed /\ Readable(trained) =>
              parsed = trained \/ Finished(trained))'
      BY <1>1, <1>4, <1>6 DEF ConsumerInv, ReadingInv
    <2>5. (cpc = "open" /\ ~swapped =>
              stored[Head(todo)] # Absent /\ stored[Head(todo)] = parsed.files[Head(todo)].sha256)'
      <3> SUFFICES ASSUME cpc = "open", ~swapped'
                   PROVE  /\ stored'[Head(todo)] # Absent
                          /\ stored'[Head(todo)] = parsed.files[Head(todo)].sha256
        BY <1>1
      <3>1. Head(todo) \in FileNames
        BY <1>3, Todo DEF DatasetTypeOK, Reading
      <3>2. stored'[Head(todo)] = stored[Head(todo)] /\ ~swapped
        BY <1>2, <3>1 DEF Write
      <3> QED
        BY <3>2 DEF ConsumerInv, ReadingInv
    <2> QED
      BY <2>1, <2>2, <2>3, <2>4, <2>5 DEF ReadingInv
  <1>8. LoadedInv'
    BY <1>1, <1>4 DEF ConsumerInv, LoadedInv, AsTrained, Table
  <1>9. CompletedLoads'
    BY <1>1 DEF CompletedLoads
  <1> QED
    BY <1>5, <1>7, <1>8, <1>9 DEF ConsumerInv

-----------------------------------------------------------------------------
(* Generators, as they see each other.                                      *)

LEMMA GeneratorsKeepTypes ==
  ASSUME DatasetTypeOK, GeneratorInv, NEW g \in Generators, Generate(g)
  PROVE  DatasetTypeOK'
  <1>1. at[g] \in 1..4 /\ (gpc[g] \in Busy => at[g] \in 1..4)
    BY DEF DatasetTypeOK
  <1>2. \A n, c : Write(g, n, c) => DOMAIN stored' = FileNames
    BY DEF Write, DatasetTypeOK
  <1>3. \A n, c : Write(g, n, c) =>
           writers' \subseteq Generators /\ crowded' \in BOOLEAN /\ swapped' \in BOOLEAN
    BY DEF Write, DatasetTypeOK
  <1>4. \A l \in {"check", "done"} \cup Busy :
           GenGoto(g, l) => gpc' \in [Generators -> {"start", "check", "done"} \cup Busy]
    BY DEF GenGoto, DatasetTypeOK
  <1>5. CASE Configure(g) \/ CheckTargets(g) \/ BuildFails(g) \/ Stop(g)
    BY <1>4, <1>5 DEF Configure, CheckTargets, BuildFails, Stop, DatasetTypeOK, consuming, watching, Busy
  <1>6. CASE OpenSplit(g)
    BY <1>2, <1>3, <1>4, <1>6 DEF OpenSplit, DatasetTypeOK, consuming, Busy
  <1>7. CASE CloseSplit(g)
    BY <1>2, <1>3, <1>4, <1>7 DEF CloseSplit, DatasetTypeOK, consuming, Busy
  <1>8. CASE OpenManifest(g) \/ CloseManifest(g)
    BY <1>2, <1>3, <1>4, <1>8 DEF OpenManifest, CloseManifest, DatasetTypeOK, consuming, Busy
  <1>9. CASE HashSplit(g)
    <2>1. at[g] \in 1..3
      BY <1>9 DEF HashSplit, GeneratorInv
    <2>2. at' \in [Generators -> 1..4]
      BY <1>9, <2>1 DEF HashSplit, DatasetTypeOK
    <2>3. DOMAIN entries' = Generators /\ \A h \in Generators : DOMAIN entries'[h] = Splits
      BY <1>9 DEF HashSplit, DatasetTypeOK
    <2> QED
      BY <1>4, <1>9, <2>2, <2>3 DEF HashSplit, DatasetTypeOK, consuming, watching, Busy
  <1> QED
    BY <1>5, <1>6, <1>7, <1>8, <1>9 DEF Generate

\* Others are left as they were.
Others(g) == \A h \in Generators \ {g} :
    gpc'[h] = gpc[h] /\ at'[h] = at[h] /\ entries'[h] = entries[h]

LEMMA GeneratorsWorkInOrder ==
  ASSUME DatasetTypeOK, GeneratorInv, NEW g \in Generators, Generate(g)
  PROVE  GeneratorInv' /\ Others(g) /\ UNCHANGED document
  <1>1. Others(g) /\ UNCHANGED document
    BY DEF Others, Generate, Configure, CheckTargets, BuildFails, OpenSplit, CloseSplit, HashSplit,
           OpenManifest, CloseManifest, Stop, GenGoto, DatasetTypeOK
  <1> DEFINE P(h) ==
        /\ gpc[h] \in {"start", "check"} => at[h] = 1
        /\ gpc[h] \in {"check"} \cup Busy => Parses(document[h])
        /\ gpc[h] \in {"open_split", "close_split", "hash_split"} => at[h] \in 1..3
        /\ gpc[h] \in {"open_manifest", "close_manifest"} => at[h] = 4
        /\ gpc[h] \in Busy => \A i \in 1..3 : i < at[h] =>
              entries[h][SplitNames[i]].rows = document[h].rows[SplitNames[i]]
  <1>2. P(g)
    BY DEF GeneratorInv
  <1>3. \A h \in Generators \ {g} : P(h)'
    BY <1>1 DEF GeneratorInv, Others, Parses, BoundsParse
  <1>4. \A d : Parses(d)' <=> Parses(d)
    BY DEF Parses, BoundsParse
  <1>5. CASE ~HashSplit(g)
    <2>1. UNCHANGED <<at, entries>>
      BY <1>5 DEF Generate, Configure, CheckTargets, BuildFails, OpenSplit, CloseSplit,
                  OpenManifest, CloseManifest, Stop
    <2>2. at[g] \in 1..4
      BY DEF DatasetTypeOK
    <2>3. P(g)'
      BY <1>1, <1>2, <1>4, <1>5, <2>1, <2>2 DEF Generate, Configure, CheckTargets, BuildFails,
         OpenSplit, CloseSplit, OpenManifest, CloseManifest, Stop, GenGoto, DatasetTypeOK, Busy
    <2> QED
      BY <1>1, <1>3, <2>3 DEF GeneratorInv
  <1>6. CASE HashSplit(g)
    <2>1. at[g] \in 1..3 /\ gpc[g] = "hash_split" /\ gpc[g] \in Busy
      BY <1>2, <1>6 DEF HashSplit, Busy
    <2>2. Target(g) = SplitNames[at[g]] /\ Target(g) \in Splits
      BY <2>1, Targets
    <2>3. at'[g] = at[g] + 1
      BY <1>6 DEF HashSplit, DatasetTypeOK
    <2>4. gpc'[g] = IF at[g] = 3 THEN "open_manifest" ELSE "open_split"
      BY <1>6, SplitNamesKnown DEF HashSplit, GenGoto, DatasetTypeOK
    <2>5. entries'[g] = [entries[g] EXCEPT ![Target(g)] =
             [rows |-> document[g].rows[Target(g)], sha256 |-> stored[Target(g)]]]
      BY <1>6 DEF HashSplit, DatasetTypeOK
    <2>6. \A i \in 1..3 : i < at'[g] =>
             entries'[g][SplitNames[i]].rows = document[g].rows[SplitNames[i]]
      <3> SUFFICES ASSUME NEW i \in 1..3, i < at'[g]
                   PROVE  entries'[g][SplitNames[i]].rows = document[g].rows[SplitNames[i]]
        OBVIOUS
      <3>1. SplitNames[i] \in Splits /\ DOMAIN entries[g] = Splits
        BY SplitNamesKnown DEF Splits, DatasetTypeOK
      <3>2. CASE i = at[g]
        BY <2>2, <2>5, <3>1, <3>2
      <3>3. CASE i < at[g]
        <4>1. SplitNames[i] # Target(g)
          BY <2>1, <2>2, <3>3, SplitNamesKnown
        <4> QED
          BY <1>2, <2>1, <2>5, <3>1, <3>3, <4>1
      <3> QED
        BY <2>1, <2>3, <3>2, <3>3
    <2>7. P(g)'
      BY <1>1, <1>2, <1>4, <2>1, <2>3, <2>4, <2>6 DEF Busy
    <2> QED
      BY <1>1, <1>3, <2>7 DEF GeneratorInv
  <1> QED
    BY <1>1, <1>5, <1>6

\* What SoleInv says of one generator.
Own(h) ==
    /\ gpc[h] \in Busy => \A i \in 1..3 : i < at[h] =>
          /\ stored[SplitNames[i]] = Table(document[h], SplitNames[i])
          /\ entries[h][SplitNames[i]].sha256 = Table(document[h], SplitNames[i])
    /\ gpc[h] = "hash_split" => stored[Target(h)] = Table(document[h], Target(h))

\* A generator at work that never met another finds what it left.
LEMMA GeneratorsWorkAlone ==
  ASSUME DatasetTypeOK, GeneratorInv, SoleInv, NEW g \in Generators, Generate(g)
  PROVE  SoleInv'
  <1> SUFFICES ASSUME ~overlapped' PROVE SoleInv'
    BY DEF SoleInv
  <1>1. Others(g) /\ UNCHANGED document
    BY GeneratorsWorkInOrder
  <1>2. ~overlapped
    BY DEF Generate, Configure, CheckTargets, BuildFails, OpenSplit, CloseSplit, HashSplit,
           OpenManifest, CloseManifest, Stop
  <1>3. /\ \A h, k \in Generators : gpc[h] \in Busy /\ gpc[k] \in Busy => h = k
        /\ \A h \in Generators : Own(h)
    BY <1>2 DEF SoleInv, Own
  <1>4. \A h, k \in Generators : gpc'[h] \in Busy /\ gpc'[k] \in Busy => h = k
    <2>1. CASE gpc[g] \in Busy
      BY <1>1, <1>3, <2>1 DEF Others
    <2>2. CASE CheckTargets(g)
      <3>1. gpc'[g] \in Busy => ~\E h \in Generators : gpc[h] \in Busy
        BY <2>2 DEF CheckTargets, GenGoto, DatasetTypeOK, Busy
      <3> QED
        BY <1>1, <1>3, <3>1 DEF Others
    <2>3. CASE Configure(g)
      <3>1. gpc'[g] \notin Busy
        BY <2>3 DEF Configure, GenGoto, DatasetTypeOK, Busy
      <3> QED
        BY <1>1, <1>3, <3>1 DEF Others
    <2> QED
      BY <2>1, <2>2, <2>3 DEF Generate, BuildFails, OpenSplit, CloseSplit, HashSplit,
         OpenManifest, CloseManifest, Stop, Busy
  <1>5. \A h \in Generators \ {g} : Own(h)'
    <2> SUFFICES ASSUME NEW h \in Generators \ {g} PROVE Own(h)'
      OBVIOUS
    <2>1. Target(h)' = Target(h)
      BY <1>1 DEF Others, Target
    <2>2. CASE gpc[g] \in Busy
      <3>1. gpc[h] \notin Busy /\ gpc'[h] \notin Busy
        BY <1>1, <1>3, <2>2 DEF Others
      <3> QED
        BY <3>1 DEF Own, Busy
    <2>3. CASE gpc[g] \notin Busy
      <3>1. UNCHANGED stored
        BY <2>3 DEF Generate, Configure, CheckTargets, BuildFails, OpenSplit, CloseSplit, HashSplit,
           OpenManifest, CloseManifest, Stop, Busy
      <3>2. gpc'[h] = gpc[h] /\ at'[h] = at[h] /\ entries'[h] = entries[h] /\ document' = document
        BY <1>1 DEF Others
      <3>3. \A s : Table(document[h], s)' = Table(document[h], s)
        BY <3>2 DEF Table
      <3> HIDE DEF Others
      <3> QED
        BY <1>3, <2>1, <3>1, <3>2, <3>3 DEF Own
    <2> QED
      BY <2>2, <2>3
  <1>6. Own(g)'
    <2>1. CASE Configure(g) \/ CheckTargets(g)
      <3>1. at'[g] = 1 /\ gpc'[g] # "hash_split"
        BY <2>1 DEF Configure, CheckTargets, GenGoto, GeneratorInv, DatasetTypeOK
      <3> QED
        BY <3>1 DEF Own
    <2>2. CASE BuildFails(g) \/ Stop(g) \/ CloseManifest(g)
      <3>1. gpc'[g] = "done"
        BY <2>2 DEF BuildFails, Stop, CloseManifest, GenGoto, DatasetTypeOK
      <3> QED
        BY <3>1 DEF Own, Busy
    <2>3. ASSUME gpc[g] \in Busy, NEW n \in FileNames, NEW c, Write(g, n, c), UNCHANGED <<at, entries>>,
                 \A i \in 1..3 : i < at[g] => n # SplitNames[i],
                 gpc'[g] = "hash_split" => n = Target(g) /\ c = Table(document[g], Target(g))
          PROVE  Own(g)'
      <3>1. \A m \in FileNames : stored'[m] = IF m = n THEN c ELSE stored[m]
        BY <2>3 DEF Write, DatasetTypeOK
      <3>2. \A i \in 1..3 : SplitNames[i] \in FileNames
        BY SplitNamesKnown DEF FileNames, Splits
      <3>3. Target(g)' = Target(g)
        BY <2>3 DEF Target
      <3> QED
        BY <1>1, <1>3, <2>3, <3>1, <3>2, <3>3 DEF Own, Table
    <2>4. CASE OpenSplit(g)
      <3>1. gpc[g] \in Busy /\ at[g] \in 1..3 /\ gpc'[g] = "close_split" /\ Target(g) = SplitNames[at[g]]
            /\ Target(g) \in FileNames
        BY <2>4, Targets DEF OpenSplit, GenGoto, GeneratorInv, DatasetTypeOK, Busy, FileNames
      <3>2. Write(g, Target(g), Torn) /\ UNCHANGED <<at, entries>>
        BY <2>4 DEF OpenSplit
      <3>3. \A i \in 1..3 : i < at[g] => Target(g) # SplitNames[i]
        BY <3>1, SplitNamesKnown
      <3> QED
        BY <2>3, <3>1, <3>2, <3>3
    <2>5. CASE CloseSplit(g)
      <3>1. gpc[g] \in Busy /\ at[g] \in 1..3 /\ gpc'[g] = "hash_split" /\ Target(g) = SplitNames[at[g]]
            /\ Target(g) \in FileNames
        BY <2>5, Targets DEF CloseSplit, GenGoto, GeneratorInv, DatasetTypeOK, Busy, FileNames
      <3>2. Write(g, Target(g), Table(document[g], Target(g))) /\ UNCHANGED <<at, entries>>
        BY <1>2, <2>5 DEF CloseSplit
      <3>3. \A i \in 1..3 : i < at[g] => Target(g) # SplitNames[i]
        BY <3>1, SplitNamesKnown
      <3> QED
        BY <2>3, <3>1, <3>2, <3>3
    <2>6. CASE OpenManifest(g)
      <3>1. gpc[g] \in Busy /\ gpc'[g] = "close_manifest" /\ "manifest" \in FileNames
        BY <2>6 DEF OpenManifest, GenGoto, DatasetTypeOK, Busy, FileNames
      <3>2. Write(g, "manifest", Torn) /\ UNCHANGED <<at, entries>>
        BY <2>6 DEF OpenManifest
      <3>3. \A i \in 1..3 : "manifest" # SplitNames[i]
        BY SplitNamesKnown
      <3> QED
        BY <2>3, <3>1, <3>2, <3>3
    <2>7. CASE HashSplit(g)
      <3>1. /\ gpc[g] = "hash_split" /\ gpc[g] \in Busy /\ at[g] \in 1..3
            /\ Target(g) = SplitNames[at[g]] /\ Target(g) \in Splits
        BY <2>7, Targets DEF HashSplit, GeneratorInv, Busy
      <3>2. /\ at'[g] = at[g] + 1 /\ gpc'[g] # "hash_split" /\ UNCHANGED stored
            /\ entries'[g] = [entries[g] EXCEPT ![Target(g)] =
                 [rows |-> document[g].rows[Target(g)], sha256 |-> stored[Target(g)]]]
        BY <2>7 DEF HashSplit, GenGoto, DatasetTypeOK
      <3>3. ASSUME NEW i \in 1..3, i < at'[g]
            PROVE  /\ stored[SplitNames[i]] = Table(document[g], SplitNames[i])
                   /\ entries'[g][SplitNames[i]].sha256 = Table(document[g], SplitNames[i])
        <4>1. SplitNames[i] \in Splits /\ DOMAIN entries[g] = Splits
          BY SplitNamesKnown DEF Splits, DatasetTypeOK
        <4>2. CASE i = at[g]
          BY <1>3, <3>1, <3>2, <4>1, <4>2 DEF Own
        <4>3. CASE i < at[g]
          <5>1. SplitNames[i] # Target(g)
            BY <3>1, <4>3, SplitNamesKnown
          <5> QED
            BY <1>3, <3>1, <3>2, <4>1, <4>3, <5>1 DEF Own
        <4> QED
          BY <3>1, <3>2, <3>3, <4>2, <4>3
      <3> QED
        BY <1>1, <3>2, <3>3 DEF Own, Table
    <2> QED
      BY <2>1, <2>2, <2>4, <2>5, <2>6, <2>7 DEF Generate
  <1> QED
    BY <1>4, <1>5, <1>6 DEF SoleInv, Own

LEMMA GeneratorsKeepConsumerInv ==
  ASSUME DatasetTypeOK, GeneratorInv, SoleInv, ConsumerInv, NEW g \in Generators, Generate(g)
  PROVE  ConsumerInv'
  <1>1. "done" \notin Busy /\ "start" # "done" /\ "check" # "done"
    BY DEF Busy
  <1>2. \A l : GenGoto(g, l) /\ gpc[g] # "done" =>
           \A h \in Generators : gpc[h] = "done" => gpc'[h] = "done"
    BY DEF GenGoto, DatasetTypeOK
  <1>3. CASE Configure(g) \/ CheckTargets(g) \/ BuildFails(g) \/ HashSplit(g) \/ Stop(g)
    <2>1. gpc[g] # "done" /\ UNCHANGED <<stored, consuming, watching>>
      BY <1>1, <1>3 DEF Configure, CheckTargets, BuildFails, HashSplit, Stop
    <2>2. overlapped => overlapped'
      BY <1>3 DEF Configure, CheckTargets, BuildFails, HashSplit, Stop, DatasetTypeOK
    <2>3. \E l : GenGoto(g, l)
      BY <1>3 DEF Configure, CheckTargets, BuildFails, HashSplit, Stop
    <2> QED
      BY <1>2, <2>1, <2>2, <2>3, QuietGenerators
  <1>4. CASE OpenSplit(g)
    <2>1. gpc[g] \in Busy /\ Write(g, Target(g), Torn) /\ GenGoto(g, "close_split")
          /\ UNCHANGED <<overlapped, consuming>>
      BY <1>4 DEF OpenSplit, Busy
    <2>2. Target(g) \in FileNames
      BY <1>4, Targets DEF OpenSplit, GeneratorInv, FileNames
    <2> QED
      BY <2>1, <2>2, WritesObserved
  <1>5. CASE CloseSplit(g)
    <2>1. PICK c : Write(g, Target(g), c)
      BY <1>5 DEF CloseSplit
    <2>2. gpc[g] \in Busy /\ GenGoto(g, "hash_split") /\ UNCHANGED <<overlapped, consuming>>
      BY <1>5 DEF CloseSplit, Busy
    <2>3. Target(g) \in FileNames /\ Target(g) # "manifest"
      BY <1>5, Targets, SplitNamesKnown DEF CloseSplit, GeneratorInv, FileNames
    <2> QED
      BY <2>1, <2>2, <2>3, WritesObserved
  <1>6. CASE OpenManifest(g)
    <2>1. gpc[g] \in Busy /\ Write(g, "manifest", Torn) /\ GenGoto(g, "close_manifest")
          /\ UNCHANGED <<overlapped, consuming>>
      BY <1>6 DEF OpenManifest, Busy
    <2> QED
      BY <2>1, WritesObserved DEF FileNames
  <1>7. CASE CloseManifest(g)
    <2> DEFINE d == document[g]
               m == Manifest(d, entries[g])
    <2>1. /\ gpc[g] \in Busy /\ at[g] = 4 /\ Write(g, "manifest", m) /\ GenGoto(g, "done")
          /\ UNCHANGED <<overlapped, consuming>>
      BY <1>7 DEF CloseManifest, Busy, GeneratorInv
    <2>2. /\ d \in Documents /\ Parses(d) /\ DOMAIN entries[g] = Splits
          /\ \A s \in Splits : entries[g][s].rows = d.rows[s]
      <3>1. \A i \in 1..3 : entries[g][SplitNames[i]].rows = d.rows[SplitNames[i]]
        BY <2>1 DEF GeneratorInv
      <3>2. \A s \in Splits : entries[g][s].rows = d.rows[s]
        BY <3>1, SplitNamesKnown
      <3> QED
        BY <2>1, <3>2 DEF GeneratorInv, DatasetTypeOK
    <2>3. Sound(m) /\ m.config = d /\ m.files = entries[g]
      BY <2>2, ManifestIsSound DEF Manifest
    <2>4. ~overlapped => \A s \in Splits : stored[s] = Table(m.config, s) /\ m.files[s].sha256 = Table(m.config, s)
      <3> SUFFICES ASSUME ~overlapped
                   PROVE  \A s \in Splits : stored[s] = Table(d, s) /\ entries[g][s].sha256 = Table(d, s)
        BY <2>3
      <3>1. \A i \in 1..3 : /\ stored[SplitNames[i]] = Table(d, SplitNames[i])
                            /\ entries[g][SplitNames[i]].sha256 = Table(d, SplitNames[i])
        BY <2>1 DEF SoleInv
      <3> QED
        BY <3>1, SplitNamesKnown
    <2> HIDE DEF m
    <2> QED
      BY <2>1, <2>3, <2>4, WritesObserved DEF FileNames, Genuine
  <1> QED
    BY <1>3, <1>4, <1>5, <1>6, <1>7 DEF Generate

-----------------------------------------------------------------------------
(* The consumer.                                                            *)

\* A complete directory whose manifest is sound has readable partitions of the
\* declared length.
LEMMA CompleteReads ==
  ASSUME PinnedInv, Complete, NEW s \in Splits
  PROVE  /\ Sound(stored["manifest"]) /\ Readable(stored["manifest"])
         /\ ~overlapped => Genuine(stored["manifest"])
         /\ stored[s] = Table(stored["manifest"].config, s)
         /\ Readable(stored[s]) /\ stored[s].rows = stored["manifest"].files[s].rows
  <1>1. Sound(stored["manifest"]) /\ stored[s] = Table(stored["manifest"].config, s)
    BY DEF PinnedInv, Complete
  <1> QED
    BY <1>1, TablesRead DEF PinnedInv, Complete, Readable

LEMMA ConsumerKeepsTypes ==
  ASSUME DatasetTypeOK, LoadedInv, Load
  PROVE  DatasetTypeOK'
  <1>1. ASSUME NEW p \in {"train", "evaluate"}, NEW t \in TodoOf(p), Begin(p, t)
        PROVE  DatasetTypeOK'
    <2>1. TodoOf(phase)' = TodoOf(p)
      BY <1>1 DEF Begin, TodoOf
    <2> QED
      BY <1>1, <2>1 DEF Begin, Consume, generating, DatasetTypeOK
  <1>2. CASE BeginTraining
    <2>1. <<"train", "validation">> \in TodoOf("train")
      BY DEF TodoOf
    <2> QED
      BY <1>1, <1>2, <2>1 DEF BeginTraining
  <1>3. CASE BeginEvaluation
    <2>1. \A s \in {"validation", "interpolation_test"} : <<s>> \in TodoOf("evaluate")
      BY DEF TodoOf
    <2> QED
      BY <1>1, <1>3, <2>1 DEF BeginEvaluation
  <1>4. CASE Peek \/ Parse \/ Identify \/ HashPartition
    BY <1>4 DEF Peek, Parse, Identify, HashPartition, Consume, generating, watching, DatasetTypeOK, Reading
  <1>5. CASE OpenPartition
    <2>1. phase \in {"train", "evaluate"} /\ todo \in TodoOf(phase)
      BY <1>5 DEF OpenPartition, DatasetTypeOK, Reading
    <2>2. cpc' = "hash" => todo' \in TodoOf(phase)
      BY <1>5, <2>1, Todo DEF OpenPartition, Consume
    <2>3. DOMAIN loaded' = Splits
      BY <1>5 DEF OpenPartition, DatasetTypeOK
    <2>4. cpc' \in {"hash", "trained", "evaluated", "refused"}
      BY <1>5 DEF OpenPartition, Consume
    <2>5. UNCHANGED <<generating, stored, watching, phase>>
      BY <1>5 DEF OpenPartition, Consume
    <2> QED
      BY <2>1, <2>2, <2>3, <2>4, <2>5 DEF generating, watching, DatasetTypeOK, Reading
  <1> QED
    BY <1>2, <1>3, <1>4, <1>5 DEF Load

\* What the consumer sees, it sees of an unchanged directory.
LEMMA ConsumerKeepsReading ==
  ASSUME DatasetInv, Load
  PROVE  ReadingInv'
  <1> USE DEF DatasetInv, Consume, generating
  <1>1. UNCHANGED <<stored, overlapped, gpc>> /\ \A m : (Sound(m)' <=> Sound(m)) /\ (Genuine(m)' <=> Genuine(m))
                                               /\ (Readable(m)' <=> Readable(m))
    BY DEF Load, BeginTraining, BeginEvaluation, Begin, Peek, Parse, Identify, HashPartition,
           OpenPartition, Sound, Genuine, ManifestLoads, Readable
  <1>2. CASE BeginTraining \/ BeginEvaluation \/ Peek
    <2>1. cpc' \notin Reading
      BY <1>2 DEF BeginTraining, BeginEvaluation, Begin, Peek, Reading
    <2> QED
      BY <2>1 DEF ReadingInv, Reading
  <1>3. CASE Parse
    <2>1. CASE cpc' = "identify"
      <3>1. parsed' = stored["manifest"] /\ Readable(stored["manifest"])
        BY <1>3, <2>1 DEF Parse
      <3> QED
        BY <1>1, <2>1, <3>1 DEF ReadingInv, PinnedInv
    <2>2. CASE cpc' = "refused"
      BY <2>2 DEF ReadingInv, Reading
    <2> QED
      BY <1>3, <2>1, <2>2 DEF Parse
  <1>4. CASE Identify
    <2>1. cpc = "identify" /\ UNCHANGED <<todo, parsed, watching>>
      BY <1>4 DEF Identify
    <2>2. CASE cpc' = "hash"
      <3>1. trained' = stored["manifest"]
        BY <1>4, <2>2 DEF Identify
      <3>2. Finished(trained)' <=> Finished(stored["manifest"])
        BY <1>1, <2>1, <3>1 DEF Finished, watching, Table
      <3>3. Undisturbed' <=> Undisturbed
        BY <1>1, <2>1 DEF Undisturbed, watching
      <3>4. cpc \in Reading /\ cpc' \in Reading
        BY <2>1, <2>2 DEF Reading
      <3> QED
        BY <1>1, <2>1, <2>2, <3>1, <3>2, <3>3, <3>4 DEF ReadingInv, watching
    <2>3. CASE cpc' = "refused"
      BY <2>3 DEF ReadingInv, Reading
    <2> QED
      BY <1>4, <2>2, <2>3 DEF Identify
  <1>5. ASSUME UNCHANGED <<parsed, trained, watching>>, cpc \in {"hash", "open"}, cpc' \in {"hash", "open"},
               cpc' = "open" => /\ stored'[Head(todo')] # Absent
                                /\ stored'[Head(todo')] = parsed'.files[Head(todo')].sha256
        PROVE  ReadingInv'
    <2>1. Finished(trained)' <=> Finished(trained)
      BY <1>1, <1>5 DEF Finished, watching, Table
    <2>2. Undisturbed' <=> Undisturbed
      BY <1>1, <1>5 DEF Undisturbed, watching
    <2>3. cpc \in Reading /\ cpc' \in Reading
      BY <1>5 DEF Reading
    <2> QED
      BY <1>1, <1>5, <2>1, <2>2, <2>3 DEF ReadingInv, watching
  <1>6. CASE HashPartition
    <2>1. CASE cpc' = "open"
      BY <1>1, <1>5, <1>6, <2>1 DEF HashPartition
    <2>2. CASE cpc' = "refused"
      BY <2>2 DEF ReadingInv, Reading
    <2> QED
      BY <1>6, <2>1, <2>2 DEF HashPartition
  <1>7. CASE OpenPartition
    <2>1. CASE cpc' = "hash"
      BY <1>5, <1>7, <2>1 DEF OpenPartition
    <2>2. CASE cpc' \in {"trained", "evaluated", "refused"}
      BY <2>2 DEF ReadingInv, Reading
    <2> QED
      BY <1>7, <2>1, <2>2 DEF OpenPartition
  <1> QED
    BY <1>2, <1>3, <1>4, <1>6, <1>7 DEF Load

\* Every table that is taken over is the recorded manifest's.
LEMMA ConsumerKeepsLoaded ==
  ASSUME DatasetInv, Load
  PROVE  LoadedInv'
  <1> USE DEF DatasetInv, Consume, generating
  <1>1. \A m : Readable(m)' <=> Readable(m)
    BY DEF Readable
  <1>2. Undisturbed' => Undisturbed
    BY DEF Load, BeginTraining, BeginEvaluation, Begin, Peek, Parse, Identify, HashPartition,
           OpenPartition, Undisturbed, watching
  <1>3. ASSUME UNCHANGED <<trained, loaded>>
        PROVE  \A s : AsTrained(s)' <=> AsTrained(s)
    BY <1>3 DEF AsTrained, Table
  <1>4. CASE BeginTraining
    BY <1>4 DEF BeginTraining, Begin, LoadedInv
  <1>5. CASE BeginEvaluation
    <2>1. UNCHANGED <<trained, loaded>> /\ cpc' = "peek" /\ phase' = "evaluate"
          /\ (cpc = "trained" \/ phase = "evaluate")
      BY <1>5 DEF BeginEvaluation, Begin
    <2>2. \A s : AsTrained(s)' <=> AsTrained(s)
      BY <1>3, <2>1
    <2> QED
      BY <1>1, <1>2, <2>1, <2>2 DEF LoadedInv
  <1>6. CASE Peek \/ Parse \/ HashPartition
    <2>1. UNCHANGED <<trained, loaded, phase, todo>>
      BY <1>6 DEF Peek, Parse, HashPartition
    <2>2. \A s : AsTrained(s)' <=> AsTrained(s)
      BY <1>3, <2>1
    <2>3. \/ cpc = "peek" /\ cpc' \in {"parse", "refused"}
          \/ cpc = "parse" /\ cpc' \in {"identify", "refused"}
          \/ cpc = "hash" /\ cpc' \in {"open", "refused"}
      BY <1>6 DEF Peek, Parse, HashPartition
    <2> QED
      BY <1>1, <1>2, <2>1, <2>2, <2>3 DEF LoadedInv
  <1>7. CASE Identify
    <2>1. cpc = "identify" /\ cpc' \in {"hash", "refused"} /\ UNCHANGED <<loaded, phase, todo>>
          /\ (phase = "evaluate" => UNCHANGED trained)
      BY <1>7 DEF Identify, SameDataset
    <2>2. CASE phase = "evaluate"
      <3>1. \A s : AsTrained(s)' <=> AsTrained(s)
        BY <1>3, <2>1, <2>2
      <3> QED
        BY <1>1, <1>2, <2>1, <2>2, <3>1 DEF LoadedInv
    <2>3. CASE phase = "train"
      <3>1. todo' = <<"train", "validation">> /\ phase' = "train"
        BY <2>1, <2>3 DEF LoadedInv
      <3>2. todo' # <<"validation">>
        BY <3>1, Todo DEF TodoOf
      <3> QED
        BY <2>1, <2>3, <3>1, <3>2 DEF LoadedInv
    <2> QED
      BY <2>2, <2>3 DEF DatasetTypeOK
  <1>8. CASE OpenPartition
    <2>0. phase \in {"train", "evaluate"} /\ todo \in TodoOf(phase) /\ Head(todo) \in Splits
      BY <1>8, Todo DEF OpenPartition, DatasetTypeOK, Reading
    <2> PICK s \in Splits : s = Head(todo)
      BY <2>0
    <2>1. /\ UNCHANGED <<phase, trained, watching>> /\ cpc = "open"
          /\ phase = "train" => s # "interpolation_test"
      BY <1>8, <2>0, Todo DEF OpenPartition
    <2>2. CASE cpc' = "refused"
      <3>1. UNCHANGED <<loaded, todo>>
        BY <1>8, <2>2 DEF OpenPartition
      <3>2. \A n : AsTrained(n)' <=> AsTrained(n)
        BY <1>3, <2>1, <3>1
      <3> QED
        BY <1>1, <1>2, <2>1, <2>2, <3>1, <3>2 DEF LoadedInv
    <2>3. CASE cpc' # "refused"
      <3>1. /\ loaded' = [loaded EXCEPT ![s] = stored[s]] /\ todo' = Tail(todo)
            /\ cpc' = IF Len(todo) > 1 THEN "hash"
                      ELSE IF phase = "train" THEN "trained" ELSE "evaluated"
        BY <1>8, <2>3 DEF OpenPartition
      <3>2. /\ loaded'[s] = stored[s]
            /\ \A n \in Splits \ {s} : loaded'[n] = loaded[n]
        BY <2>1, <3>1 DEF DatasetTypeOK
      <3>3. (phase = "train" => loaded["interpolation_test"] = Absent)'
        BY <2>1, <3>2, SplitNamesKnown DEF LoadedInv
      <3>4. Undisturbed /\ Readable(trained) => stored[s] = Table(trained.config, s)
        <4> SUFFICES ASSUME Undisturbed, Readable(trained)
                     PROVE  stored[s] = Table(trained.config, s)
          OBVIOUS
        <4>1. stored[s] = parsed.files[s].sha256
          BY <2>1 DEF ReadingInv, Undisturbed
        <4>2. Genuine(parsed)
          BY <2>1 DEF ReadingInv, Undisturbed, Reading
        <4>3. parsed = trained \/ Finished(trained)
          BY <2>1 DEF ReadingInv
        <4> QED
          BY <2>1, <4>1, <4>2, <4>3 DEF Genuine, Finished
      <3>5. Undisturbed /\ Readable(trained) =>
               /\ AsTrained(s)'
               /\ \A n \in Splits \ {s} : AsTrained(n) => AsTrained(n)'
        BY <2>1, <3>2, <3>4 DEF AsTrained, Table
      <3>6. CASE phase = "evaluate"
        <4>1. cpc' = "evaluated" /\ phase' = "evaluate"
          BY <2>0, <2>1, <3>1, <3>6, Todo
        <4>2. Undisturbed /\ Readable(trained) => \A n \in Splits : AsTrained(n)'
          BY <3>5, <3>6 DEF LoadedInv
        <4> QED
          BY <1>1, <1>2, <2>1, <4>1, <4>2, <3>3 DEF LoadedInv
      <3>7. CASE phase = "train" /\ todo = <<"train", "validation">>
        <4>1. cpc' = "hash" /\ phase' = "train" /\ s = "train"
          BY <2>0, <2>1, <3>1, <3>7, Todo
        <4> QED
          BY <1>1, <1>2, <2>1, <4>1, <3>3, <3>5 DEF LoadedInv
      <3>8. CASE phase = "train" /\ todo # <<"train", "validation">>
        <4>1. cpc' = "trained" /\ phase' = "train" /\ s = "validation" /\ todo = <<"validation">>
          BY <2>0, <2>1, <3>1, <3>8, Todo DEF TodoOf
        <4>2. Undisturbed /\ Readable(trained) => AsTrained("train")
          BY <2>1, <3>8, <4>1 DEF LoadedInv
        <4>3. Undisturbed /\ Readable(trained) => \A n \in Splits : AsTrained(n)'
          <5>1. AsTrained("interpolation_test")'
            BY <3>3, <4>1 DEF AsTrained
          <5> QED
            BY <3>5, <4>1, <4>2, <5>1, SplitNamesKnown
        <4> QED
          BY <1>1, <1>2, <2>1, <4>1, <4>3, <3>3 DEF LoadedInv
      <3> QED
        BY <2>0, <3>6, <3>7, <3>8
    <2> QED
      BY <2>2, <2>3
  <1> QED
    BY <1>4, <1>5, <1>6, <1>7, <1>8 DEF Load

\* The loader refuses a complete directory that nobody is writing to only for
\* not being the one that was trained on.
LEMMA ConsumerKeepsCompletedLoads ==
  ASSUME DatasetInv, Load
  PROVE  CompletedLoads'
  <1> SUFFICES ASSUME cpc' = "refused", writers' = {}, ~overlapped', Complete'
               PROVE  phase' = "evaluate" /\ stored'["manifest"] # trained'
    BY DEF CompletedLoads
  <1>1. UNCHANGED <<phase, todo, stored, overlapped, watching, parsed>> /\ writers = {} /\ ~overlapped
    BY DEF Load, BeginTraining, BeginEvaluation, Begin, Peek, Parse, Identify, HashPartition,
           OpenPartition, Consume, generating, watching
  <1>2. Complete /\ PinnedInv
    BY <1>1 DEF Complete, Readable, Table, DatasetInv
  <1> DEFINE m == stored["manifest"]
  <1>3. Sound(m) /\ Readable(m) /\ Genuine(m) /\ ManifestLoads(m)
    BY <1>1, <1>2, CompleteReads, SplitNamesKnown DEF Sound
  <1>4. ASSUME cpc \in Reading PROVE parsed = m
    BY <1>1, <1>4 DEF DatasetInv, ReadingInv
  <1>5. ASSUME cpc \in {"hash", "open"}, NEW s \in Splits
        PROVE  /\ stored[s] # Absent /\ stored[s] = parsed.files[s].sha256
               /\ Readable(stored[s]) /\ stored[s].rows = parsed.files[s].rows
    <2>1. parsed = m
      BY <1>4, <1>5 DEF Reading
    <2> QED
      BY <1>2, <1>3, <2>1, CompleteReads DEF Genuine, Readable
  <1>6. cpc \in {"hash", "open"} => Head(todo) \in Splits
    BY Todo DEF DatasetInv, DatasetTypeOK, Reading
  <1>7. ~(BeginTraining \/ BeginEvaluation)
    BY DEF BeginTraining, BeginEvaluation, Begin, Consume
  <1>8. ~Peek
    BY <1>3 DEF Peek, Consume
  <1>9. ~Parse
    BY <1>3 DEF Parse, Consume
  <1>10. ~HashPartition
    BY <1>5, <1>6 DEF HashPartition, Consume
  <1>11. ~OpenPartition
    BY <1>5, <1>6 DEF OpenPartition, Consume
  <1>12. Identify /\ cpc = "identify"
    BY <1>7, <1>8, <1>9, <1>10, <1>11 DEF Load, Identify
  <1> QED
    BY <1>1, <1>12 DEF Identify, Consume, SameDataset

-----------------------------------------------------------------------------
(* Invariance.                                                              *)

THEOREM DatasetStep == DatasetInv /\ [DatasetNext]_datasetVars => DatasetInv'
  <1> SUFFICES ASSUME DatasetInv, [DatasetNext]_datasetVars PROVE DatasetInv'
    OBVIOUS
  <1>1. ASSUME NEW g \in Generators, Generate(g) PROVE DatasetInv'
    BY <1>1, GeneratorsKeepTypes, GeneratorsWorkInOrder, GeneratorsWorkAlone, GeneratorsKeepConsumerInv
       DEF DatasetInv, ConsumerInv
  <1>2. CASE Load
    <2>1. UNCHANGED <<generating, stored>>
      BY <1>2 DEF Load, BeginTraining, BeginEvaluation, Begin, Peek, Parse, Identify, HashPartition,
                  OpenPartition, Consume
    <2>2. GeneratorInv'
      BY <2>1 DEF DatasetInv, GeneratorInv, generating, Parses, BoundsParse
    <2>3. SoleInv'
      BY <2>1 DEF DatasetInv, SoleInv, generating, Target, Table
    <2>4. PinnedInv'
      BY <2>1 DEF DatasetInv, PinnedInv, generating, Readable, Sound, Genuine, ManifestLoads, Table
    <2>5. DatasetTypeOK'
      BY <1>2, ConsumerKeepsTypes DEF DatasetInv
    <2> QED
      BY <1>2, <2>2, <2>3, <2>4, <2>5, ConsumerKeepsReading, ConsumerKeepsLoaded,
         ConsumerKeepsCompletedLoads DEF DatasetInv
  <1>3. CASE UNCHANGED datasetVars
    <2> USE <1>3 DEF datasetVars, generating, consuming, watching
    <2>1. DatasetTypeOK'
      BY DEF DatasetInv, DatasetTypeOK, TodoOf
    <2>2. GeneratorInv' /\ SoleInv'
      BY DEF DatasetInv, GeneratorInv, SoleInv, Parses, BoundsParse, Target, Table
    <2>3. ConsumerInv'
      BY QuietGenerators DEF DatasetInv, ConsumerInv
    <2> QED
      BY <2>1, <2>2, <2>3 DEF DatasetInv, ConsumerInv
  <1> QED
    BY <1>1, <1>2, <1>3 DEF DatasetNext

\* The invariant holds for every number of generators, killed or not, every set
\* of configurations and every number of evaluations.
THEOREM DatasetInvariance == DatasetSpec => []DatasetInv
  <1>1. DatasetInit => DatasetInv
    BY DatasetInitial
  <1>2. DatasetInv /\ [DatasetNext]_datasetVars => DatasetInv'
    BY DatasetStep
  <1> QED
    BY <1>1, <1>2, PTL DEF DatasetSpec

\* An evaluation is of the dataset the artifact was trained on (load_split, and
\* the digest evaluate_artifact compares), whatever was generated in between.
THEOREM EvaluationIsOfTraining == DatasetSpec => []EvaluatedAsTrained
  <1>1. DatasetInv => EvaluatedAsTrained
    BY DEF DatasetInv, LoadedInv, AsTrained, EvaluatedAsTrained, Undisturbed
  <1> QED
    BY <1>1, DatasetInvariance, PTL

\* What generate_dataset wrote to its end, load_dataset_manifest and load_split
\* accept, unless it is not what was trained on.
THEOREM CompletedIsLoaded == DatasetSpec => []CompletedLoads
  <1>1. DatasetInv => CompletedLoads
    BY DEF DatasetInv
  <1> QED
    BY <1>1, DatasetInvariance, PTL
=============================================================================
