----------------------------- MODULE CrrProofs -----------------------------
(***************************************************************************)
(* crr_price_batch prices every batch as a serial run would, for every      *)
(* number of requests, steps and threads and every interleaving.            *)
(***************************************************************************)
EXTENDS CrrBatch, TLAPS

-----------------------------------------------------------------------------
(* The inductive invariant.                                                 *)

\* No worker has been started.
Quiet == nextIndex = 1 /\ \A w \in Workers : worker[w] = "none"

\* Every request from the first to the n-th passed validation.
ValidTo(n) == \A j \in 1..n : request[j].fate # "invalid"

\* What the calling thread knows where it stands.
CallerInv ==
    /\ phase = "entry" => Quiet /\ cursor = 0
    /\ phase = "validating" => Quiet /\ cursor \in 0..size /\ ValidTo(cursor)
    /\ phase = "spawning" =>
          cursor \in 0..WorkerCount /\ \A w \in Workers : worker[w] = "none" <=> w > cursor
    /\ phase = "joining" => worker[1] # "none"
    /\ phase \in {"validating", "spawning", "joining", "unwinding"} =>
          InRange(threadCount) /\ size > 0
    /\ phase \in {"spawning", "joining", "unwinding"} => ValidTo(size)

\* The slots of a request show its own outcome.
Settled(i) == IF request[i].fate = "overflows" THEN errors[i] ELSE ~errors[i] /\ results[i] = {i}
Held(i) == \E w \in Workers : worker[w] = "pricing" /\ claimed[w] = i

\* Every index that was handed out is settled or still held by some worker; an
\* error is only ever recorded for a request that overflows; a worker leaves
\* when the indices are used up.
WorkInv ==
    /\ \A w \in Workers : worker[w] = "pricing" => claimed[w] \in 1..size
    /\ \A w \in Workers : worker[w] = "exited" => nextIndex > size
    /\ \A i \in 1..size : i < nextIndex => Settled(i) \/ Held(i)
    /\ \A i \in 1..size : errors[i] => request[i].fate = "overflows"

CrrInv == TypeOK /\ CallerInv /\ WorkInv /\ Deterministic

-----------------------------------------------------------------------------
(* The workspace.                                                           *)

\* A tree reads what it has just written, whatever the workspace held before:
\* resize and the terminal loop cover every node the induction reads.
LEMMA PricesAreOwn ==
  ASSUME TypeOK, NEW w \in Workers, NEW i \in 1..size
  PROVE  Read(Prepared(w, i, request[i].steps), request[i]) = {i}
  <1> DEFINE r == request[i]
             ws == Prepared(w, i, r.steps)
  <1>1. r \in Requests /\ r.steps \in 1..MaxSteps /\ 0..r.steps \subseteq Nodes /\ 0 \in 0..r.steps
    BY BoundsAssumption DEF TypeOK, Requests, Nodes
  <1>2. \A n \in 0..r.steps : ws.values[n] = i
    BY <1>1 DEF Prepared, Filled
  <1>3. r.american => \A n \in 0..r.steps : ws.spots[n] = i
    BY <1>1 DEF Prepared, Filled
  <1>4. {ws.values[n] : n \in 0..r.steps} = {i}
    BY <1>1, <1>2
  <1>5. r.american => {ws.spots[n] : n \in 0..r.steps} = {i}
    BY <1>1, <1>3
  <1> QED
    BY <1>4, <1>5 DEF Read

LEMMA WorkspaceType ==
  ASSUME TypeOK, NEW w \in Workers, NEW i \in 1..size, NEW last \in 0..request[i].steps
  PROVE  Prepared(w, i, last) \in Workspaces
  <1> DEFINE r == request[i]
  <1>1. r.steps \in Nat /\ i \in Tags /\ 0 \in Tags
    BY BoundsAssumption DEF TypeOK, Requests, Tags
  <1>2. ASSUME NEW a \in [Nodes -> Tags]
        PROVE  Filled(Resized(a, r.steps), i, last) \in [Nodes -> Tags]
    BY <1>1 DEF Filled, Resized
  <1>3. workspace[w].values \in [Nodes -> Tags] /\ workspace[w].spots \in [Nodes -> Tags]
    BY DEF TypeOK, Workspaces
  <1>4. Blank \in [Nodes -> Tags]
    BY <1>1 DEF Blank
  <1>5. /\ Filled(Resized(workspace[w].values, r.steps), i, last) \in [Nodes -> Tags]
        /\ Filled(Resized(workspace[w].spots, r.steps), i, last) \in [Nodes -> Tags]
    BY <1>2, <1>3
  <1> QED
    BY <1>4, <1>5 DEF Prepared, Workspaces

\* The first request with a fate is the only one of which it can be said.
LEMMA FirstIs ==
  ASSUME NEW fate, NEW i \in 1..size, size \in Nat, request[i].fate = fate,
         \A j \in 1..(i - 1) : request[j].fate # fate
  PROVE  First(fate) = i /\ Some(fate)
  <1> DEFINE P(k) == request[k].fate = fate /\ \A j \in 1..(k - 1) : request[j].fate # fate
  <1>1. \A k \in 1..size : P(k) => k = i
    OBVIOUS
  <1>2. P(i)
    OBVIOUS
  <1>3. First(fate) = CHOOSE k \in 1..size : P(k)
    BY DEF First
  <1> HIDE DEF P
  <1>4. First(fate) = i
    BY <1>1, <1>2, <1>3
  <1> QED
    BY <1>4 DEF Some

\* The reference depends on the batch alone.
LEMMA SerialStands ==
  ASSUME UNCHANGED batch
  PROVE  Serial' = Serial
  BY DEF batch, Serial, First, Some, InRange

THEOREM CrrInitial == Init => CrrInv
  <1> SUFFICES ASSUME Init PROVE CrrInv
    OBVIOUS
  <1>1. TypeOK
    <2>1. Blank \in [Nodes -> Tags]
      BY BoundsAssumption DEF Blank, Tags
    <2> QED
      BY <2>1, BoundsAssumption DEF Init, TypeOK, Workspaces, Tags, NoPrice, Outcome, Outcomes
  <1>2. CallerInv
    BY DEF Init, CallerInv, Quiet
  <1>3. WorkInv
    BY DEF Init, WorkInv
  <1>4. Deterministic
    BY DEF Init, Deterministic
  <1> QED
    BY <1>1, <1>2, <1>3, <1>4 DEF CrrInv

-----------------------------------------------------------------------------
(* The calling thread.                                                      *)

LEMMA WorkersBounded ==
  ASSUME TypeOK, InRange(threadCount), size > 0
  PROVE  /\ WorkerCount \in Nat \ {0} /\ WorkerCount <= MaxThreads
         /\ size \in Nat /\ cursor \in Nat
         /\ \A k \in 1..WorkerCount : k \in Workers
  BY BoundsAssumption DEF TypeOK, InRange, WorkerCount, Workers

LEMMA CheckThreadCountStep ==
  ASSUME CrrInv, CheckThreadCount
  PROVE  CrrInv'
  <1> USE DEF CheckThreadCount, CrrInv, batch, slots, Finish, Outcome
  <1>1. TypeOK'
    BY BoundsAssumption DEF TypeOK, Outcomes
  <1>2. CallerInv'
    <2>1. phase' \in {"done", "validating"}
      OBVIOUS
    <2>2. CASE phase' = "done"
      BY <2>2 DEF CallerInv
    <2>3. CASE phase' = "validating"
      <3>1. InRange(threadCount) /\ size > 0 /\ Quiet /\ cursor = 0
        BY <2>3 DEF CallerInv
      <3> QED
        BY <2>3, <3>1 DEF CallerInv, Quiet, ValidTo, InRange, TypeOK
    <2> QED
      BY <2>1, <2>2, <2>3
  <1>3. WorkInv'
    BY DEF WorkInv, Settled, Held
  <1>4. Deterministic'
    <2>1. CASE ~InRange(threadCount)
      BY <2>1 DEF CallerInv, Quiet, Deterministic, Joined, Serial, InRange
    <2>2. CASE InRange(threadCount) /\ size = 0
      BY <2>2 DEF CallerInv, Quiet, Deterministic, Joined, Serial, InRange, Some
    <2>3. CASE phase' = "validating"
      BY <2>3 DEF Deterministic
    <2> QED
      BY <2>1, <2>2, <2>3
  <1> QED
    BY <1>1, <1>2, <1>3, <1>4

LEMMA ValidateStep ==
  ASSUME CrrInv, ValidateNext
  PROVE  CrrInv'
  <1> USE DEF ValidateNext, CrrInv, batch, slots
  <1>1. /\ cursor \in 0..size /\ size \in Nat /\ Quiet /\ ValidTo(cursor)
        /\ InRange(threadCount) /\ size > 0
    BY DEF CallerInv, TypeOK
  <1>2. CASE cursor = size
    <2>1. phase' = "spawning" /\ cursor' = 0 /\ outcome' = outcome
      BY <1>2 DEF AllValidated
    <2>2. TypeOK'
      BY <2>1 DEF TypeOK
    <2>3. CallerInv'
      BY <1>1, <1>2, <2>1, WorkersBounded DEF CallerInv, ValidTo, InRange, WorkerCount, Workers, Quiet
    <2>4. WorkInv'
      BY DEF WorkInv, Settled, Held
    <2> QED
      BY <2>1, <2>2, <2>3, <2>4 DEF Deterministic
  <1>3. CASE cursor # size /\ request[cursor + 1].fate = "invalid"
    <2>1. /\ phase' = "done" /\ cursor' = cursor
          /\ outcome' = Outcome("invalid", cursor + 1)
      BY <1>3 DEF AllValidated, Finish
    <2>2. TypeOK'
      BY <1>1, <1>3, <2>1, BoundsAssumption DEF TypeOK, Outcome, Outcomes
    <2>3. CallerInv'
      BY <2>1 DEF CallerInv
    <2>4. WorkInv'
      BY DEF WorkInv, Settled, Held
    <2>5. Deterministic'
      <3>1. First("invalid") = cursor + 1 /\ Some("invalid")
        BY <1>1, <1>3, FirstIs DEF ValidTo
      <3>2. outcome' = Serial'
        BY <1>1, <2>1, <3>1, SerialStands DEF Serial
      <3>3. Joined'
        BY <1>1 DEF Quiet, Joined
      <3> QED
        BY <2>1, <3>2, <3>3 DEF Deterministic, Outcome
    <2> QED
      BY <2>2, <2>3, <2>4, <2>5
  <1>4. CASE cursor # size /\ request[cursor + 1].fate # "invalid"
    <2>1. cursor' = cursor + 1 /\ UNCHANGED <<phase, outcome>>
      BY <1>4 DEF AllValidated
    <2>2. TypeOK'
      BY <1>1, <2>1 DEF TypeOK
    <2>3. CallerInv'
      BY <1>1, <1>4, <2>1 DEF CallerInv, ValidTo, Quiet, InRange
    <2>4. WorkInv'
      BY DEF WorkInv, Settled, Held
    <2> QED
      BY <2>1, <2>2, <2>3, <2>4 DEF Deterministic
  <1> QED
    BY <1>2, <1>3, <1>4

LEMMA SpawnStep ==
  ASSUME CrrInv, SpawnNext
  PROVE  CrrInv'
  <1> USE DEF SpawnNext, CrrInv, batch, slots
  <1>1. /\ cursor \in 0..WorkerCount /\ WorkerCount \in Nat \ {0}
        /\ \A k \in 1..WorkerCount : k \in Workers
        /\ WorkerCount' = WorkerCount /\ phase = "spawning"
    BY WorkersBounded DEF CallerInv, WorkerCount
  <1>2. CASE cursor = WorkerCount
    <2>1. phase' = "joining" /\ UNCHANGED <<cursor, worker>>
      BY <1>2
    <2>2. TypeOK'
      BY <2>1 DEF TypeOK
    <2>3. CallerInv'
      BY <1>1, <1>2, <2>1 DEF CallerInv, ValidTo, InRange
    <2>4. WorkInv'
      BY <2>1 DEF WorkInv, Settled, Held
    <2> QED
      BY <2>1, <2>2, <2>3, <2>4 DEF Deterministic
  <1>3. CASE cursor # WorkerCount
    <2>1. /\ cursor' = cursor + 1 /\ phase' = "spawning" /\ cursor + 1 \in Workers
          /\ worker' = [worker EXCEPT ![cursor + 1] = "idle"]
      BY <1>1, <1>3
    <2>2. TypeOK'
      BY <1>1, <2>1 DEF TypeOK
    <2>3. CallerInv'
      <3>1. \A w \in Workers : worker'[w] = "none" <=> w > cursor + 1
        BY <1>1, <1>3, <2>1 DEF CallerInv, TypeOK, Workers
      <3> QED
        BY <1>1, <1>3, <2>1, <3>1 DEF CallerInv, ValidTo, InRange
    <2>4. WorkInv'
      <3>1. worker[cursor + 1] = "none"
        BY <1>1, <2>1 DEF CallerInv, Workers
      <3>2. \A i \in 1..size : Held(i) => Held(i)'
        BY <2>1, <3>1 DEF Held, TypeOK
      <3>3. \A w \in Workers : worker'[w] \in {"pricing", "exited"} => worker'[w] = worker[w]
        BY <2>1 DEF TypeOK
      <3> QED
        BY <2>1, <3>2, <3>3 DEF WorkInv, Settled
    <2> QED
      BY <2>1, <2>2, <2>3, <2>4 DEF Deterministic
  <1> QED
    BY <1>2, <1>3

LEMMA SpawnFailsStep ==
  ASSUME CrrInv, SpawnFails
  PROVE  CrrInv'
  <1> USE DEF SpawnFails, CrrInv, batch, slots
  <1>1. TypeOK'
    BY DEF TypeOK
  <1>2. CallerInv'
    BY DEF CallerInv, ValidTo, InRange
  <1>3. WorkInv'
    BY DEF WorkInv, Settled, Held
  <1> QED
    BY <1>1, <1>2, <1>3 DEF Deterministic

LEMMA UnwindStep ==
  ASSUME CrrInv, JoinedUnwinding
  PROVE  CrrInv'
  <1> USE DEF JoinedUnwinding, CrrInv, batch, slots, Finish, Outcome
  <1>1. TypeOK'
    BY BoundsAssumption DEF TypeOK, Outcomes
  <1>2. CallerInv'
    BY DEF CallerInv
  <1>3. WorkInv'
    BY DEF WorkInv, Settled, Held
  <1>4. Deterministic'
    BY DEF Deterministic, Joined
  <1> QED
    BY <1>1, <1>2, <1>3, <1>4

\* When the workers have left, every request is settled.
LEMMA JoinedIsSettled ==
  ASSUME CrrInv, phase = "joining", Joined
  PROVE  \A i \in 1..size : Settled(i)
  <1> USE DEF CrrInv
  <1>1. 1 \in Workers
    BY BoundsAssumption DEF Workers
  <1>2. worker[1] = "exited"
    BY <1>1 DEF CallerInv, Joined
  <1>3. nextIndex > size /\ size \in Nat /\ nextIndex \in Nat
    BY <1>1, <1>2 DEF WorkInv, TypeOK
  <1>4. \A i \in 1..size : ~Held(i)
    BY DEF Joined, Held
  <1> QED
    BY <1>3, <1>4 DEF WorkInv

LEMMA ReportStep ==
  ASSUME CrrInv, Report
  PROVE  CrrInv'
  <1> USE DEF Report, CrrInv, batch, slots
  <1>1. /\ \A i \in 1..size : Settled(i)
        /\ ValidTo(size) /\ InRange(threadCount) /\ size \in Nat
    BY JoinedIsSettled DEF CallerInv, TypeOK
  <1>2. \A i \in 1..size : errors[i] <=> request[i].fate = "overflows"
    BY <1>1 DEF Settled
  <1>3. ~Some("invalid")
    BY <1>1 DEF ValidTo, Some
  <1>4. WorkInv'
    BY DEF WorkInv, Settled, Held
  <1>5. Joined'
    BY DEF Joined
  <1>6. ASSUME NEW i \in 1..size, ScanFirst(i), Finish(Outcome("failed", i))
        PROVE  CrrInv'
    <2>1. outcome' = Outcome("failed", i) /\ phase' = "done"
      BY <1>6 DEF Finish
    <2>2. TypeOK'
      BY <2>1, BoundsAssumption DEF TypeOK, Outcome, Outcomes
    <2>3. First("overflows") = i /\ Some("overflows")
      BY <1>1, <1>2, <1>6, FirstIs DEF ScanFirst
    <2>4. outcome' = Serial'
      BY <1>1, <1>3, <2>1, <2>3, SerialStands DEF Serial
    <2>5. Deterministic'
      BY <1>5, <2>1, <2>4 DEF Deterministic, Outcome
    <2> QED
      BY <1>4, <2>1, <2>2, <2>5 DEF CallerInv
  <1>7. ASSUME \A i \in 1..size : ~errors[i], Finish(Outcome("results", 0))
        PROVE  CrrInv'
    <2>1. outcome' = Outcome("results", 0) /\ phase' = "done"
      BY <1>7 DEF Finish
    <2>2. TypeOK'
      BY <2>1, BoundsAssumption DEF TypeOK, Outcome, Outcomes
    <2>3. ~Some("overflows")
      BY <1>2, <1>7 DEF Some
    <2>4. outcome' = Serial'
      BY <1>1, <1>3, <2>1, <2>3, SerialStands DEF Serial
    <2>5. \A i \in 1..size : results[i] = {i}
      BY <1>1, <1>7 DEF Settled
    <2>6. Deterministic'
      BY <1>5, <2>4, <2>5 DEF Deterministic
    <2> QED
      BY <1>4, <2>1, <2>2, <2>6 DEF CallerInv
  <1> QED
    BY <1>6, <1>7

-----------------------------------------------------------------------------
(* A worker.                                                                *)

\* A worker runs between its creation and the join.
LEMMA AtWork ==
  ASSUME CrrInv, NEW w \in Workers, worker[w] \in {"idle", "pricing"}
  PROVE  phase \in {"spawning", "joining", "unwinding"}
  BY DEF CrrInv, TypeOK, CallerInv, Quiet, Deterministic, Joined

\* What the caller knows survives the steps of a worker.
LEMMA CallerUntouched ==
  ASSUME CrrInv, NEW w \in Workers, NEW s \in {"idle", "pricing", "exited"},
         worker[w] \in {"idle", "pricing"}, worker' = [worker EXCEPT ![w] = s],
         UNCHANGED <<batch, phase, cursor>>
  PROVE  CallerInv' /\ Deterministic'
  <1>1. phase' \in {"spawning", "joining", "unwinding"} /\ phase' = phase
    BY AtWork
  <1>2. \A v \in Workers : worker'[v] = "none" <=> worker[v] = "none"
    BY DEF CrrInv, TypeOK
  <1>3. 1 \in Workers
    BY BoundsAssumption DEF Workers
  <1> QED
    BY <1>1, <1>2, <1>3
       DEF CrrInv, CallerInv, Deterministic, ValidTo, InRange, WorkerCount, batch

LEMMA ClaimStep ==
  ASSUME CrrInv, NEW w \in Workers, Claim(w)
  PROVE  CrrInv'
  <1> USE DEF Claim, CrrInv, Advance
  <1>1. CallerInv' /\ Deterministic'
    BY CallerUntouched
  <1>2. CASE nextIndex > size
    <2>1. TypeOK'
      BY <1>2 DEF TypeOK, batch, slots
    <2>2. WorkInv'
      <3>1. \A i \in 1..size : (Held(i) => Held(i)') /\ (Settled(i) => Settled(i)')
        BY <1>2 DEF Held, Settled, TypeOK, batch, slots
      <3> QED
        BY <1>2, <3>1 DEF WorkInv, TypeOK, batch, slots
    <2> QED
      BY <1>1, <2>1, <2>2
  <1>3. CASE ~(nextIndex > size)
    <2>1. nextIndex \in 1..size /\ size \in Nat /\ nextIndex \in Tags
      BY <1>3, BoundsAssumption DEF TypeOK, Tags
    <2>2. TypeOK'
      BY <1>3, <2>1 DEF TypeOK, batch, slots
    <2>3. WorkInv'
      <3>1. \A i \in 1..size : (Held(i) => Held(i)') /\ (Settled(i) => Settled(i)')
        BY <1>3 DEF Held, Settled, TypeOK, batch, slots
      <3>2. worker'[w] = "pricing" /\ claimed'[w] = nextIndex
        BY <1>3 DEF TypeOK
      <3>3. \A i \in 1..size : i = nextIndex => Held(i)'
        BY <3>2 DEF Held
      <3>4. \A i \in 1..size : i < nextIndex' => Settled(i)' \/ Held(i)'
        BY <2>1, <3>1, <3>3 DEF WorkInv, TypeOK
      <3>5. \A v \in Workers : worker'[v] = "pricing" => claimed'[v] \in 1..size
        <4>1. worker' = [worker EXCEPT ![w] = "pricing"] /\ claimed' = [claimed EXCEPT ![w] = nextIndex]
          BY <1>3
        <4> QED
          BY <2>1, <4>1 DEF WorkInv, TypeOK, batch
      <3>6. \A v \in Workers : worker'[v] = "exited" => nextIndex' > size
        <4>1. worker' = [worker EXCEPT ![w] = "pricing"]
          BY <1>3
        <4>2. \A v \in Workers : worker[v] # "exited"
          BY <1>3 DEF WorkInv
        <4> QED
          BY <4>1, <4>2 DEF TypeOK
      <3> QED
        BY <3>4, <3>5, <3>6 DEF WorkInv, batch, slots
    <2> QED
      BY <1>1, <2>2, <2>3
  <1> QED
    BY <1>2, <1>3

LEMMA PriceStep ==
  ASSUME CrrInv, NEW w \in Workers, Price(w)
  PROVE  CrrInv'
  <1> DEFINE i == claimed[w]
             r == request[i]
  <1> USE DEF CrrInv
  <1>1. /\ i \in 1..size /\ i \in Tags /\ 0 \in Tags /\ worker[w] = "pricing"
        /\ r \in Requests /\ r.steps \in 1..MaxSteps
    BY BoundsAssumption DEF Price, WorkInv, TypeOK, Tags, Requests
  <1>2. /\ worker' = [worker EXCEPT ![w] = "idle"] /\ claimed' = [claimed EXCEPT ![w] = 0]
        /\ UNCHANGED <<batch, phase, cursor, nextIndex, outcome>>
    BY DEF Price
  <1>3. CallerInv'
    BY <1>1, <1>2, CallerUntouched
  <1>4. phase' # "done"
    BY <1>1, <1>2, AtWork
  <1>5. \A j \in 1..size : j # i /\ Held(j) => Held(j)'
    BY <1>1, <1>2 DEF Held, TypeOK
  <1>6. ASSUME r.fate = "priced",
               workspace' = [workspace EXCEPT ![w] = Prepared(w, i, r.steps)],
               results' = [results EXCEPT ![i] = Read(Prepared(w, i, r.steps), r)],
               UNCHANGED errors
        PROVE  TypeOK' /\ WorkInv'
    <2>1. Read(Prepared(w, i, r.steps), r) = {i} /\ Prepared(w, i, r.steps) \in Workspaces
      BY <1>1, PricesAreOwn, WorkspaceType
    <2>2. results' = [results EXCEPT ![i] = {i}]
      BY <1>6, <2>1
    <2>3. TypeOK'
      BY <1>1, <1>2, <1>6, <2>1, <2>2 DEF TypeOK, batch
    <2>4. \A j \in 1..size : (j = i \/ Settled(j)) => Settled(j)'
      BY <1>1, <1>2, <1>6, <2>2 DEF Settled, WorkInv, TypeOK, batch
    <2>5. WorkInv'
      BY <1>1, <1>2, <1>5, <1>6, <2>4 DEF WorkInv, TypeOK, batch
    <2> QED
      BY <2>3, <2>5
  <1>7. ASSUME r.fate = "overflows", NEW last \in 0..r.steps,
               workspace' = [workspace EXCEPT ![w] = Prepared(w, i, last)],
               errors' = [errors EXCEPT ![i] = TRUE],
               UNCHANGED results
        PROVE  TypeOK' /\ WorkInv'
    <2>1. Prepared(w, i, last) \in Workspaces
      BY <1>1, WorkspaceType
    <2>2. TypeOK'
      BY <1>1, <1>2, <1>7, <2>1 DEF TypeOK, batch
    <2>3. \A j \in 1..size : (j = i \/ Settled(j)) => Settled(j)'
      BY <1>1, <1>2, <1>7 DEF Settled, TypeOK, batch
    <2>4. WorkInv'
      BY <1>1, <1>2, <1>5, <1>7, <2>3 DEF WorkInv, TypeOK, batch
    <2> QED
      BY <2>2, <2>4
  <1>8. TypeOK' /\ WorkInv'
    BY <1>6, <1>7 DEF Price
  <1> QED
    BY <1>3, <1>4, <1>8 DEF Deterministic

-----------------------------------------------------------------------------
(* What it gives.                                                           *)

THEOREM CrrInvariance == Spec => []CrrInv
  <1>1. CrrInv /\ [Next]_vars => CrrInv'
    <2> SUFFICES ASSUME CrrInv, [Next]_vars PROVE CrrInv'
      OBVIOUS
    <2>1. CASE Caller
      BY <2>1, CheckThreadCountStep, ValidateStep, SpawnStep, SpawnFailsStep, UnwindStep,
         ReportStep DEF Caller
    <2>2. ASSUME NEW w \in Workers, Claim(w) \/ Price(w) PROVE CrrInv'
      BY <2>2, ClaimStep, PriceStep
    <2>3. CASE UNCHANGED vars
      <3>1. TypeOK' /\ CallerInv' /\ WorkInv'
        BY <2>3 DEF vars, CrrInv, TypeOK, CallerInv, Quiet, ValidTo, InRange, WorkerCount,
                    WorkInv, Settled, Held
      <3>2. Deterministic'
        <4>1. UNCHANGED batch
          BY <2>3 DEF vars, batch
        <4> QED
          BY <2>3, <4>1, SerialStands DEF vars, CrrInv, Deterministic, Joined
      <3> QED
        BY <3>1, <3>2 DEF CrrInv
    <2> QED
      BY <2>1, <2>2, <2>3 DEF Next
  <1> QED
    BY <1>1, CrrInitial, PTL DEF Spec

\* Every batch ends as a serial run of it does, with its own prices and the
\* error of the lowest bad index, whatever the number of requests, the sizes of
\* their trees, the thread count and the interleaving of the workers, none of
\* which outlives the call (crr_price_batch, binomial_tree.cpp).
THEOREM BatchIsDeterministic == Spec => []Deterministic
  <1>1. CrrInv => Deterministic
    BY DEF CrrInv
  <1> QED
    BY <1>1, CrrInvariance, PTL

\* The batch's variables keep their types; in particular the counter only ever
\* grows past the batch and no claim lies outside it.
THEOREM CrrTypeCorrect == Spec => []TypeOK
  <1>1. CrrInv => TypeOK
    BY DEF CrrInv
  <1> QED
    BY <1>1, CrrInvariance, PTL
=============================================================================
