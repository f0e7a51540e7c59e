------------------------------ MODULE CrrBatch ------------------------------
(***************************************************************************)
(* dp::crr_price_batch (src/cpp/src/binomial_tree.cpp): a batch of CRR      *)
(* requests is validated serially, then priced by worker threads that claim *)
(* indices from one atomic counter, each reusing one lattice workspace, and *)
(* the outcome is read after the join.                                      *)
(*                                                                          *)
(* Prices are abstracted to where they come from: a price is the set of     *)
(* requests whose data were read to compute it, tag 0 standing for an       *)
(* element resize() just created.                                           *)
(***************************************************************************)
EXTENDS Naturals

CONSTANTS
    MaxRequests,   \* bound: largest batch considered
    MaxSteps,      \* bound: largest tree considered
    MaxThreads     \* maximum_crr_batch_threads

ASSUME BoundsAssumption ==
    /\ MaxRequests \in Nat
    /\ MaxSteps \in Nat \ {0}
    /\ MaxThreads \in Nat \ {0}

VARIABLES
    size, request,     \* the batch: its length and its requests
    threadCount,       \* the caller's thread_count
    phase,             \* where the calling thread is
    cursor,            \* requests validated, then workers started
    nextIndex,         \* the atomic counter
    worker,            \* each worker: "none", "idle", "pricing", "exited"
    claimed,           \* the index a pricing worker holds
    workspace,         \* each worker's option_values and node_spots
    results, errors,   \* the two vectors, one slot per request
    outcome            \* what the call returns or throws

vars == <<size, request, threadCount, phase, cursor, nextIndex, worker, claimed,
          workspace, results, errors, outcome>>
batch == <<size, request, threadCount>>
slots == <<results, errors>>

-----------------------------------------------------------------------------
\* What validation and pricing make of a request: rejected by prepare_crr,
\* overflowing at some node of the tree, or priced.
Fates == {"invalid", "overflows", "priced"}
Requests == [fate : Fates, american : BOOLEAN, steps : 1..MaxSteps]

Workers == 1..MaxThreads
Nodes == 0..MaxSteps
Tags == 0..MaxRequests
Workspaces == [values : [Nodes -> Tags], spots : [Nodes -> Tags]]

Blank == [n \in Nodes |-> 0]
NoPrice == {}

InRange(threads) == threads >= 1 /\ threads <= MaxThreads
WorkerCount == IF threadCount < size THEN threadCount ELSE size

\* vector::resize(steps + 1) keeps the first elements and clears the rest.
Resized(a, steps) == [n \in Nodes |-> IF n <= steps THEN a[n] ELSE 0]

\* The terminal loop writes nodes 0..last with data of request i.
Filled(a, i, last) == [n \in Nodes |-> IF n <= last THEN i ELSE a[n]]

\* The workspace after run_prepared_crr of request i got to node last.
Prepared(w, i, last) ==
    LET r == request[i] IN
    [values |-> Filled(Resized(workspace[w].values, r.steps), i, last),
     spots  |-> IF r.american
                THEN Filled(Resized(workspace[w].spots, r.steps), i, last)
                ELSE Blank]

\* The backward induction reads every terminal value, and every spot if the
\* contract is American.
Read(ws, r) ==
    {ws.values[n] : n \in 0..r.steps}
        \cup (IF r.american THEN {ws.spots[n] : n \in 0..r.steps} ELSE {})

\* The call's outcome: the results in request order, the first invalid or
\* first failing index, a bad thread count, or threads that cannot be created.
Outcomes ==
    {[kind |-> k, index |-> i] :
        k \in {"pending", "results", "bad_threads", "invalid", "failed", "no_thread"},
        i \in 0..MaxRequests}
Outcome(k, i) == [kind |-> k, index |-> i]

First(fate) ==
    CHOOSE i \in 1..size :
        request[i].fate = fate /\ \A j \in 1..(i - 1) : request[j].fate # fate
Some(fate) == \E i \in 1..size : request[i].fate = fate

\* The reference: validate everything, then price serially, and report the
\* first problem of the first kind that occurs.
Serial ==
    IF ~InRange(threadCount) THEN Outcome("bad_threads", 0)
    ELSE IF Some("invalid") THEN Outcome("invalid", First("invalid"))
    ELSE IF Some("overflows") THEN Outcome("failed", First("overflows"))
    ELSE Outcome("results", 0)

Init ==
    /\ size \in 0..MaxRequests
    /\ request \in [1..size -> Requests]
    /\ threadCount \in 0..(MaxThreads + 1)
    /\ phase = "entry"
    /\ cursor = 0
    /\ nextIndex = 1
    /\ worker = [w \in Workers |-> "none"]
    /\ claimed = [w \in Workers |-> 0]
    /\ workspace = [w \in Workers |-> [values |-> Blank, spots |-> Blank]]
    /\ results = [i \in 1..size |-> NoPrice]
    /\ errors = [i \in 1..size |-> FALSE]
    /\ outcome = Outcome("pending", 0)

Finish(o) == outcome' = o /\ phase' = "done"

-----------------------------------------------------------------------------
(* The calling thread *)

CheckThreadCount ==
    /\ phase = "entry"
    /\ \/ ~InRange(threadCount) /\ Finish(Outcome("bad_threads", 0))
       \/ InRange(threadCount) /\ size = 0 /\ Finish(Outcome("results", 0))
       \/ InRange(threadCount) /\ size > 0 /\ phase' = "validating" /\ UNCHANGED outcome
    /\ UNCHANGED <<batch, cursor, nextIndex, worker, claimed, workspace, slots>>

\* One request at a time, in order; the first bad one ends the call.
AllValidated == cursor = size

ValidateNext ==
    /\ phase = "validating"
    /\ IF AllValidated
       THEN phase' = "spawning" /\ cursor' = 0 /\ UNCHANGED outcome
       ELSE IF request[cursor + 1].fate = "invalid"
       THEN Finish(Outcome("invalid", cursor + 1)) /\ UNCHANGED cursor
       ELSE cursor' = cursor + 1 /\ UNCHANGED <<phase, outcome>>
    /\ UNCHANGED <<batch, nextIndex, worker, claimed, workspace, slots>>

\* emplace_back of the next jthread; worker_count = 1 runs in the caller.
SpawnNext ==
    /\ phase = "spawning"
    /\ IF cursor = WorkerCount
       THEN phase' = "joining" /\ UNCHANGED <<cursor, worker>>
       ELSE /\ cursor' = cursor + 1
            /\ worker' = [worker EXCEPT ![cursor + 1] = "idle"]
            /\ UNCHANGED phase
    /\ UNCHANGED <<batch, nextIndex, claimed, workspace, slots, outcome>>

\* std::thread creation throws: the vector's destructor joins the workers that
\* did start, and the call fails.
SpawnFails ==
    /\ phase = "spawning"
    /\ cursor < WorkerCount
    /\ WorkerCount > 1
    /\ phase' = "unwinding"
    /\ UNCHANGED <<batch, cursor, nextIndex, worker, claimed, workspace, slots, outcome>>

Joined == \A w \in Workers : worker[w] \in {"none", "exited"}

JoinedUnwinding ==
    /\ phase = "unwinding"
    /\ Joined
    /\ Finish(Outcome("no_thread", 0))
    /\ UNCHANGED <<batch, cursor, nextIndex, worker, claimed, workspace, slots>>

\* After the join: rethrow the first recorded error, or return the results.
\* Here as below, a definition that no
\* action uses is a plausible bug of the one it precedes.
ScanLast(i) == errors[i] /\ \A j \in (i + 1)..size : ~errors[j]
ScanFirst(i) == errors[i] /\ \A j \in 1..(i - 1) : ~errors[j]
Report ==
    /\ phase = "joining"
    /\ Joined
    /\ \/ \E i \in 1..size : ScanFirst(i) /\ Finish(Outcome("failed", i))
       \/ (\A i \in 1..size : ~errors[i]) /\ Finish(Outcome("results", 0))
    /\ UNCHANGED <<batch, cursor, nextIndex, worker, claimed, workspace, slots>>

-----------------------------------------------------------------------------
(* A worker thread *)

\* next_index.fetch_add(1)
AdvanceLost(n) == n
Advance(n) == n + 1

Claim(w) ==
    /\ worker[w] = "idle"
    /\ nextIndex' = Advance(nextIndex)
    /\ IF nextIndex > size
       THEN worker' = [worker EXCEPT ![w] = "exited"] /\ UNCHANGED claimed
       ELSE /\ worker' = [worker EXCEPT ![w] = "pricing"]
            /\ claimed' = [claimed EXCEPT ![w] = nextIndex]
    /\ UNCHANGED <<batch, phase, cursor, workspace, slots, outcome>>

\* run_price_only on the worker's own workspace.  An overflow leaves a
\* workspace that was written up to some node only.
Price(w) ==
    /\ worker[w] = "pricing"
    /\ LET i == claimed[w]
           r == request[i]
       IN \/ /\ r.fate = "priced"
             /\ workspace' = [workspace EXCEPT ![w] = Prepared(w, i, r.steps)]
             /\ results' = [results EXCEPT ![i] = Read(Prepared(w, i, r.steps), r)]
             /\ UNCHANGED errors
          \/ /\ r.fate = "overflows"
             /\ \E last \in 0..r.steps :
                  workspace' = [workspace EXCEPT ![w] = Prepared(w, i, last)]
             /\ errors' = [errors EXCEPT ![i] = TRUE]
             /\ UNCHANGED results
    /\ worker' = [worker EXCEPT ![w] = "idle"]
    /\ claimed' = [claimed EXCEPT ![w] = 0]
    /\ UNCHANGED <<batch, phase, cursor, nextIndex, outcome>>

Caller ==
    \/ CheckThreadCount \/ ValidateNext \/ SpawnNext \/ SpawnFails
    \/ JoinedUnwinding \/ Report

Next == Caller \/ (\E w \in Workers : Claim(w) \/ Price(w))

Spec == Init /\ [][Next]_vars

\* The scheduler eventually runs every thread that can run.
FairSpec ==
    /\ Spec
    /\ WF_vars(Caller)
    /\ \A w \in Workers : WF_vars(Claim(w) \/ Price(w))

-----------------------------------------------------------------------------
(* Properties *)

TypeOK ==
    /\ size \in 0..MaxRequests
    /\ request \in [1..size -> Requests]
    /\ threadCount \in 0..(MaxThreads + 1)
    /\ phase \in {"entry", "validating", "spawning", "joining", "unwinding", "done"}
    /\ cursor \in Nat
    /\ nextIndex \in Nat \ {0}
    /\ worker \in [Workers -> {"none", "idle", "pricing", "exited"}]
    /\ claimed \in [Workers -> Tags]
    /\ workspace \in [Workers -> Workspaces]
    /\ results \in [1..size -> SUBSET Tags]
    /\ errors \in [1..size -> BOOLEAN]
    /\ outcome \in Outcomes

\* Whatever the thread count and the interleaving, a call that got its threads
\* ends as the serial reference does: "changing thread_count cannot change" the
\* outcome (binomial_tree.hpp), errors are those of the first bad request, and a
\* price comes from its own request only.  No worker outlives the call.
Deterministic ==
    phase = "done" =>
        /\ Joined
        /\ outcome = Serial \/ outcome.kind = "no_thread"
        /\ outcome.kind = "results" => \A i \in 1..size : results[i] = {i}

\* The call returns.
Returns == <>(phase = "done")
=============================================================================
