------------------------- MODULE ReplicationProofs -------------------------
(***************************************************************************)
(* What the ledger of the European replication says, for every number of    *)
(* operators, whatever is killed, lost, late or edited: the validation runs *)
(* once, the log never runs ahead of the outputs, and a ledger that calls   *)
(* itself ready or passed rests on what it says.                            *)
(***************************************************************************)
EXTENDS ReplicationCrew, TLAPS

-----------------------------------------------------------------------------
(* The inductive invariant.                                                 *)

\* The validation report met the gates that were locked, unless they were edited.
ValidationMerit == "acceptance" \notin drift => merit[Validation]
FinalMerit == "acceptance" \notin drift => merit[Final]

\* What a ledger says is so, on disk or in the memory of a process that may
\* write it later.
Sound(l) ==
    /\ 1..(l.commands - 1) \subseteq made
    /\ l.status = "ready_for_final" \/ l.attempts = 1 =>
          1..Validation \subseteq made /\ l.gates = "passed" /\ ValidationMerit
    /\ l.status = "ready_for_final" => l.commands = Validation
    /\ l.status = "replication_passed" =>
          /\ Final \in made /\ FinalMerit
          /\ l.attempts = 1 /\ l.commands = Final /\ l.final = "passed"

\* What a process at call k, with ledger l in memory and child c, relies on.
Place(k, l, c) ==
    /\ k \in {"idle", "reserve"} => l = NoLedger
    /\ k \in {"prepare", "collect", "record_gates"} => l.attempts = 0
    /\ k = "prepare" => l.commands = 0
    /\ k \in {"verify", "reserve_attempt"} => l.status = "ready_for_final" /\ l.attempts = 0
    /\ k = "launch" /\ l.attempts = 0 => l.commands < Validation /\ 1..l.commands \subseteq made
    /\ k = "wait" => c.stage = l.commands /\ (l.attempts = 1 <=> l.commands = Final)
    /\ k = "collect" => l.commands = Validation
    /\ k \in {"assess", "record_final"} => l.attempts = 1 /\ l.commands = Final
    /\ c.state = "ok" => c.stage \in made

\* Before the run directory exists everybody is still outside.
OutsideInv == ~runDir =>
    /\ ledger = NoLedger
    /\ \A p \in Operators : pc[p] \in {"idle", "reserve"} /\ child[p] = NoChild

PlacesInv == \A p \in Operators : Sound(mem[p]) /\ Place(pc[p], mem[p], child[p])

RunInv == TypeOK /\ OutsideInv /\ OneRun /\ PlacesInv /\ Sound(ledger)

-----------------------------------------------------------------------------
LEMMA NoLedgerIsSound == Sound(NoLedger) /\ NoLedger \in Ledgers
  <1>1. NoLedger \in Ledgers
    BY DEF NoLedger, Ledgers, Statuses, Verdicts, Final
  <1>2. 1..(NoLedger.commands - 1) = {} /\ NoLedger.attempts = 0 /\ NoLedger.status = "none"
    BY DEF NoLedger
  <1> QED
    BY <1>1, <1>2 DEF Sound

THEOREM RunInitial == Init => RunInv
  <1> SUFFICES ASSUME Init PROVE RunInv
    OBVIOUS
  <1>1. TypeOK
    <2>1. NoChild \in Children /\ "idle" \in Locations
      BY DEF NoChild, Children, Locations, Final
    <2>2. merit \in [{Validation, Final} -> BOOLEAN]
      BY DEF Init
    <2> QED
      BY <2>1, <2>2, NoLedgerIsSound DEF Init, TypeOK
  <1>2. OutsideInv /\ OneRun
    BY DEF Init, OutsideInv, OneRun, Validating
  <1>3. PlacesInv
    BY NoLedgerIsSound DEF Init, PlacesInv, Place, NoChild
  <1> QED
    BY <1>1, <1>2, <1>3, NoLedgerIsSound DEF Init, RunInv

-----------------------------------------------------------------------------
(* Which steps keep it.                                                     *)

\* A ledger write leaves the old or the new ledger on the disk, and the writer
\* with the new one in memory, or nothing when it exits.
LEMMA WriteEffect ==
  ASSUME NEW p \in Operators, NEW l, NEW onOk, NEW onError, Write(p, l, onOk, onError)
  PROVE  /\ ledger' \in {ledger, l}
         /\ \E k \in {onOk, onError} :
              /\ pc' = [pc EXCEPT ![p] = k]
              /\ mem' = [mem EXCEPT ![p] = IF k = "idle" THEN NoLedger ELSE l]
  BY DEF Write, Goto

\* One process moves to call k with ledger l and child c, and the disk keeps its
\* ledger or gets a sound one.
LEMMA Moved ==
  ASSUME RunInv, NEW p \in Operators, NEW k \in Locations, NEW l \in Ledgers,
         NEW c \in Children, NEW written \in Ledgers,
         pc' = [pc EXCEPT ![p] = k], mem' = [mem EXCEPT ![p] = l],
         child' = [child EXCEPT ![p] = c],
         ledger' \in {ledger, written}, Sound(written), Sound(l), Place(k, l, c),
         runDir, UNCHANGED <<runDir, made, merit, drift, accesses>>,
         Validating(p)' => Validating(p)
  PROVE  RunInv'
  <1> USE DEF RunInv
  <1>1. TypeOK'
    BY DEF TypeOK
  <1>2. OutsideInv'
    BY DEF OutsideInv
  <1>3. OneRun'
    <2>1. \A q \in Operators : Validating(q)' => Validating(q)
      BY DEF Validating, TypeOK
    <2> QED
      BY <2>1 DEF OneRun
  <1>4. \A m \in Ledgers : Sound(m) => Sound(m)'
    BY DEF Sound, ValidationMerit, FinalMerit
  <1>5. ASSUME NEW q \in Operators PROVE Sound(mem[q])' /\ Place(pc[q], mem[q], child[q])'
    <2>1. CASE q = p
      <3>1. pc'[q] = k /\ mem'[q] = l /\ child'[q] = c
        BY <2>1 DEF TypeOK
      <3> QED
        BY <3>1 DEF Place, Sound, ValidationMerit, FinalMerit
    <2>2. CASE q # p
      <3>1. pc'[q] = pc[q] /\ mem'[q] = mem[q] /\ child'[q] = child[q]
        BY <2>2 DEF TypeOK
      <3> QED
        BY <3>1 DEF PlacesInv, Place, Sound, ValidationMerit, FinalMerit
    <2> QED
      BY <2>1, <2>2
  <1>6. Sound(ledger)'
    BY DEF Sound, ValidationMerit, FinalMerit
  <1> QED
    BY <1>1, <1>2, <1>3, <1>5, <1>6 DEF PlacesInv

\* Outputs appear, inputs drift, and a child changes its state: nothing that a
\* sound ledger says becomes false.
LEMMA Grown ==
  ASSUME RunInv, runDir, child' \in [Operators -> Children],
         \A q \in Operators :
            /\ child'[q].stage = child[q].stage
            /\ child'[q].state = "ok" => child[q].stage \in made' \/ child'[q] = child[q],
         made \subseteq made', made' \subseteq Stages,
         merit' \in [{Validation, Final} -> BOOLEAN],
         \A r \in {Validation, Final} \cap made : merit'[r] = merit[r],
         drift \subseteq drift', drift' \subseteq Alterable, accesses' \in Nat,
         UNCHANGED <<runDir, ledger, pc, mem>>
  PROVE  RunInv'
  <1> USE DEF RunInv
  <1>1. TypeOK'
    BY DEF TypeOK
  <1>2. OutsideInv' /\ OneRun'
    BY DEF OutsideInv, OneRun, Validating
  <1>3. ASSUME NEW l \in Ledgers, Sound(l) PROVE Sound(l)'
    <2>1. 1..Validation \subseteq made => merit'[Validation] = merit[Validation]
      BY DEF Validation
    <2>2. Final \in made => merit'[Final] = merit[Final]
      OBVIOUS
    <2> QED
      BY <1>3, <2>1, <2>2 DEF Sound, ValidationMerit, FinalMerit
  <1>4. Sound(ledger)'
    <2>1. \A l \in Ledgers : l = ledger /\ Sound(l)' => Sound(ledger)'
      BY DEF Sound, ValidationMerit, FinalMerit
    <2> QED
      BY <1>3, <2>1 DEF TypeOK
  <1>5. ASSUME NEW q \in Operators PROVE Sound(mem[q])' /\ Place(pc[q], mem[q], child[q])'
    <2>1. mem[q] \in Ledgers /\ Sound(mem[q]) /\ Place(pc[q], mem[q], child[q])
      BY DEF PlacesInv, TypeOK
    <2>2. Sound(mem[q])'
      <3>1. \A l \in Ledgers : l = mem[q] /\ Sound(l)' => Sound(mem[q])'
        BY DEF Sound, ValidationMerit, FinalMerit
      <3> QED
        BY <1>3, <2>1, <3>1
    <2>3. child'[q].stage = child[q].stage
      OBVIOUS
    <2>4. child'[q].state = "ok" => child'[q].stage \in made'
      BY <2>1 DEF Place
    <2>5. Place(pc[q], mem[q], child[q])'
      BY <2>1, <2>3, <2>4 DEF Place
    <2> QED
      BY <2>2, <2>5
  <1> QED
    BY <1>1, <1>2, <1>4, <1>5 DEF PlacesInv

\* Whoever is past the reservation, or has a child, is inside; so is everybody
\* once there is a ledger.
LEMMA Inside ==
  ASSUME RunInv, NEW p \in Operators,
         pc[p] \notin {"idle", "reserve"} \/ child[p] # NoChild \/ ledger # NoLedger
  PROVE  runDir
  BY DEF RunInv, OutsideInv

\* The facts about one process that its steps rely on.
LEMMA AtCall ==
  ASSUME RunInv, NEW p \in Operators
  PROVE  /\ mem[p] \in Ledgers /\ child[p] \in Children /\ pc[p] \in Locations
         /\ ledger \in Ledgers /\ Sound(ledger)
         /\ Sound(mem[p]) /\ Place(pc[p], mem[p], child[p])
         /\ pc = [pc EXCEPT ![p] = pc[p]] /\ mem = [mem EXCEPT ![p] = mem[p]]
         /\ child = [child EXCEPT ![p] = child[p]]
         /\ NoChild \in Children /\ "idle" \in Locations
         /\ Place("idle", NoLedger, child[p]) /\ Place("idle", NoLedger, NoChild)
         /\ Sound(NoLedger) /\ NoLedger \in Ledgers
  BY NoLedgerIsSound
     DEF RunInv, TypeOK, PlacesInv, NoChild, Children, Locations, Place, Final

-----------------------------------------------------------------------------
(* run_to_validation.                                                       *)

LEMMA StartStep ==
  ASSUME RunInv, NEW p \in Operators, StartValidation(p)
  PROVE  RunInv'
  <1> USE DEF RunInv, StartValidation, Goto, disk
  <1>1. TypeOK'
    BY DEF TypeOK, Locations
  <1>2. OutsideInv'
    BY DEF OutsideInv, TypeOK
  <1>3. OneRun'
    BY DEF OneRun, Validating, OutsideInv, TypeOK
  <1>4. PlacesInv'
    BY DEF PlacesInv, Place, Sound, ValidationMerit, FinalMerit, TypeOK
  <1>5. Sound(ledger)'
    BY DEF Sound, ValidationMerit, FinalMerit
  <1> QED
    BY <1>1, <1>2, <1>3, <1>4, <1>5

LEMMA ReserveStep ==
  ASSUME RunInv, NEW p \in Operators, ReserveRun(p)
  PROVE  RunInv'
  <1>1. CASE runDir
    <2>1. pc' = [pc EXCEPT ![p] = "idle"] /\ mem' = [mem EXCEPT ![p] = NoLedger]
      BY <1>1 DEF ReserveRun, RunDirTaken, Exit, Goto
    <2>2. ~Validating(p)'
      BY <2>1 DEF Validating, RunInv, TypeOK
    <2> QED
      BY <1>1, <2>1, <2>2, AtCall, Moved DEF ReserveRun
  <1>2. CASE ~runDir
    <2> DEFINE l == [NoLedger EXCEPT !.status = "prepared"]
    <2>1. mem[p] = NoLedger /\ pc[p] = "reserve"
      BY AtCall DEF ReserveRun, Place
    <2>2. /\ pc' = [pc EXCEPT ![p] = "prepare"] /\ mem' = [mem EXCEPT ![p] = l] /\ runDir'
          /\ UNCHANGED <<ledger, made, merit, drift, child, accesses>>
      BY <1>2, <2>1 DEF ReserveRun, RunDirTaken, Goto, RunInv, TypeOK
    <2>3. l \in Ledgers /\ l.commands = 0 /\ l.attempts = 0 /\ l.status = "prepared"
      BY NoLedgerIsSound DEF Ledgers, Statuses, NoLedger
    <2> HIDE DEF l
    <2>4. TypeOK'
      BY <2>2, <2>3 DEF RunInv, TypeOK, Locations
    <2>5. OutsideInv'
      BY <2>2 DEF OutsideInv
    <2>6. OneRun'
      BY <1>2, <2>2 DEF OneRun, Validating, RunInv, OutsideInv, TypeOK
    <2>7. PlacesInv'
      <3>1. ASSUME NEW q \in Operators, q # p
            PROVE  Sound(mem[q])' /\ Place(pc[q], mem[q], child[q])'
        BY <2>2, <3>1 DEF RunInv, PlacesInv, Place, Sound, ValidationMerit, FinalMerit, TypeOK
      <3>2. Sound(mem[p])' /\ Place(pc[p], mem[p], child[p])'
        <4>1. mem'[p] = l /\ pc'[p] = "prepare" /\ child'[p] = child[p]
          BY <2>2 DEF RunInv, TypeOK
        <4>2. 1..(l.commands - 1) = {}
          BY <2>3
        <4> QED
          BY <2>2, <2>3, <4>1, <4>2, AtCall DEF Place, Sound
      <3> QED
        BY <3>1, <3>2 DEF PlacesInv
    <2>8. Sound(ledger)'
      BY <2>2 DEF RunInv, Sound, ValidationMerit, FinalMerit
    <2> QED
      BY <2>4, <2>5, <2>6, <2>7, <2>8 DEF RunInv
  <1> QED
    BY <1>1, <1>2

\* A ledger write by p, inside, ends in a step of that kind.
LEMMA Wrote ==
  ASSUME RunInv, NEW p \in Operators, NEW l \in Ledgers, NEW c \in Children,
         NEW onOk \in Locations, NEW onError \in Locations, Write(p, l, onOk, onError),
         child' = [child EXCEPT ![p] = c], c.state = "ok" => c.stage \in made,
         Sound(l), pc'[p] = "idle" \/ Place(pc'[p], l, c),
         pc[p] \notin {"idle", "reserve"}, l.attempts = 0 => Validating(p),
         UNCHANGED <<runDir, made, merit, drift, accesses>>
  PROVE  RunInv'
  <1>1. PICK k \in {onOk, onError} :
           /\ pc' = [pc EXCEPT ![p] = k]
           /\ mem' = [mem EXCEPT ![p] = IF k = "idle" THEN NoLedger ELSE l]
    BY WriteEffect
  <1>2. ledger' \in {ledger, l}
    BY WriteEffect
  <1>3. pc'[p] = k
    BY <1>1 DEF RunInv, TypeOK
  <1>4. runDir
    BY Inside
  <1>5. CASE k = "idle"
    <2>1. mem' = [mem EXCEPT ![p] = NoLedger]
      BY <1>1, <1>5
    <2>2. Place(k, NoLedger, c)
      BY <1>5 DEF Place
    <2>3. ~Validating(p)'
      BY <1>3, <1>5 DEF Validating
    <2> QED
      BY <1>1, <1>2, <1>4, <2>1, <2>2, <2>3, NoLedgerIsSound, Moved
  <1>6. CASE k # "idle"
    <2>1. mem' = [mem EXCEPT ![p] = l] /\ mem'[p] = l
      BY <1>1, <1>6 DEF RunInv, TypeOK
    <2>2. Place(k, l, c)
      BY <1>3, <1>6
    <2>3. Validating(p)' => Validating(p)
      BY <2>1 DEF Validating
    <2> QED
      BY <1>1, <1>2, <1>4, <2>1, <2>2, <2>3, Moved
  <1> QED
    BY <1>5, <1>6

LEMMA WritePreparedStep ==
  ASSUME RunInv, NEW p \in Operators, WritePrepared(p)
  PROVE  RunInv'
  <1> DEFINE l == mem[p]
  <1>1. /\ pc[p] = "prepare" /\ Write(p, l, "launch", "idle")
        /\ UNCHANGED <<runDir, made, merit, drift, child, accesses>>
    BY DEF WritePrepared
  <1>2. /\ l \in Ledgers /\ Sound(l) /\ l.attempts = 0 /\ l.commands = 0
        /\ child[p] \in Children /\ child' = [child EXCEPT ![p] = child[p]]
        /\ child[p].state = "ok" => child[p].stage \in made
    BY <1>1, AtCall DEF Place
  <1> HIDE DEF l
  <1>3. pc'[p] \in {"idle", "launch"}
    BY <1>1, WriteEffect DEF RunInv, TypeOK
  <1>4. pc'[p] = "idle" \/ Place(pc'[p], l, child[p])
    <2>1. 1..l.commands = {} /\ l.commands < Validation
      BY <1>2 DEF Validation
    <2> QED
      BY <1>2, <1>3, <2>1 DEF Place
  <1>5. l.attempts = 0 => Validating(p)
    BY <1>1, <1>2 DEF Validating, l
  <1>6. "idle" \in Locations /\ "launch" \in Locations
    BY DEF Locations
  <1> QED
    BY <1>1, <1>2, <1>4, <1>5, <1>6, Wrote

\* The changes the runner makes to a ledger in memory.
LEMMA Relabelled ==
  ASSUME NEW m \in Ledgers, NEW s \in Statuses, NEW v \in Verdicts, NEW n \in 0..Final
  PROVE  /\ [m EXCEPT !.status = s] \in Ledgers
         /\ [m EXCEPT !.commands = n, !.status = s] \in Ledgers
         /\ [m EXCEPT !.attempts = 1, !.status = s] \in Ledgers
         /\ [m EXCEPT !.gates = v, !.status = s] \in Ledgers
         /\ [m EXCEPT !.final = v, !.status = s] \in Ledgers
         /\ m.attempts \in {0, 1} /\ m.commands \in 0..Final
  <1>1. m.attempts \in {0, 1} /\ m.commands \in 0..Final
    BY DEF Ledgers
  <1>2. [m EXCEPT !.status = s] \in Ledgers
    BY DEF Ledgers
  <1>3. [m EXCEPT !.commands = n, !.status = s] \in Ledgers
    BY DEF Ledgers
  <1>4. [m EXCEPT !.attempts = 1, !.status = s] \in Ledgers
    <2>1. 1 \in 0..1
      OBVIOUS
    <2> QED
      BY <2>1 DEF Ledgers
  <1>5. [m EXCEPT !.gates = v, !.status = s] \in Ledgers
    BY DEF Ledgers
  <1>6. [m EXCEPT !.final = v, !.status = s] \in Ledgers
    BY DEF Ledgers
  <1> QED
    BY <1>1, <1>2, <1>3, <1>4, <1>5, <1>6

LEMMA LaunchStep ==
  ASSUME RunInv, NEW p \in Operators, Launch(p)
  PROVE  RunInv'
  <1> DEFINE next == IF mem[p].attempts = 1 THEN Final ELSE mem[p].commands + 1
             l == [mem[p] EXCEPT !.commands = next, !.status = "started"]
             c == IF pc'[p] = "wait" THEN [stage |-> next, state |-> "running"] ELSE child[p]
  <1>1. PICK onOk \in {"wait", "handler"} :
           /\ pc[p] = "launch" /\ Write(p, l, onOk, "handler")
           /\ child' = IF pc'[p] = "wait"
                       THEN [child EXCEPT ![p] = [stage |-> next, state |-> "running"]]
                       ELSE child
           /\ UNCHANGED <<runDir, made, merit, drift, accesses>>
    BY DEF Launch
  <1>2. /\ mem[p] \in Ledgers /\ Sound(mem[p]) /\ Place("launch", mem[p], child[p])
        /\ child[p] \in Children /\ child = [child EXCEPT ![p] = child[p]]
    BY <1>1, AtCall
  <1>3. mem[p].attempts \in {0, 1} /\ mem[p].commands \in 0..Final
    BY <1>2 DEF Ledgers
  <1>4. next \in 1..Final /\ (mem[p].attempts = 1 <=> next = Final) /\ 1..(next - 1) \subseteq made
    <2>1. CASE mem[p].attempts = 1
      BY <1>2, <2>1 DEF Sound, Final, Validation
    <2>2. CASE mem[p].attempts = 0
      BY <1>2, <1>3, <2>2 DEF Place, Final, Validation
    <2> QED
      BY <1>3, <2>1, <2>2
  <1>5. /\ l \in Ledgers /\ l.commands = next /\ l.status = "started"
        /\ l.attempts = mem[p].attempts /\ l.gates = mem[p].gates
    <2> HIDE DEF next
    <2>1. next \in 0..Final /\ "started" \in Statuses /\ "none" \in Verdicts
      BY <1>4 DEF Statuses, Verdicts, Final
    <2>2. l \in Ledgers
      BY <1>2, <2>1, Relabelled
    <2> QED
      BY <1>2, <2>2 DEF Ledgers
  <1>6. Sound(l)
    BY <1>2, <1>4, <1>5 DEF Sound
  <1>7. c \in Children /\ child' = [child EXCEPT ![p] = c] /\ (c.state = "ok" => c.stage \in made)
    <2> HIDE DEF next
    <2>1. [stage |-> next, state |-> "running"] \in Children
      BY <1>4 DEF Children, Final
    <2>2. child[p].state = "ok" => child[p].stage \in made
      BY <1>2 DEF Place
    <2> QED
      BY <1>1, <1>2, <2>1, <2>2
  <1>8. pc'[p] \in {"wait", "handler"}
    BY <1>1, WriteEffect DEF RunInv, TypeOK
  <1>9. Place(pc'[p], l, c)
    <2>1. pc'[p] = "wait" => c.stage = next
      OBVIOUS
    <2> HIDE DEF next, l, c
    <2> QED
      BY <1>4, <1>5, <1>7, <1>8, <2>1 DEF Place
  <1>10. l.attempts = 0 => Validating(p)
    BY <1>1, <1>5 DEF Validating
  <1> HIDE DEF next, l, c
  <1> QED
    BY <1>1, <1>5, <1>6, <1>7, <1>9, <1>10, Wrote, ZenonT(40) DEF Locations

LEMMA ReapStep ==
  ASSUME RunInv, NEW p \in Operators, Reap(p)
  PROVE  RunInv'
  <1>1. /\ pc[p] = "wait" /\ child' = [child EXCEPT ![p] = NoChild]
        /\ UNCHANGED <<runDir, made, merit, drift, accesses>>
    BY DEF Reap
  <1>2. mem[p] \in Ledgers /\ Sound(mem[p]) /\ Place("wait", mem[p], child[p]) /\ NoChild \in Children
    BY <1>1, AtCall
  <1>3. mem[p].attempts \in {0, 1} /\ mem[p].commands \in 0..Final
    BY <1>2 DEF Ledgers
  <1>4. NoChild.state # "ok"
    BY DEF NoChild
  <1>5. ASSUME NEW s \in {"completed", "command_failed"}
        PROVE  LET l == [mem[p] EXCEPT !.status = s] IN
               /\ l \in Ledgers /\ Sound(l)
               /\ l.attempts = mem[p].attempts /\ l.commands = mem[p].commands
               /\ l.attempts = 0 => Validating(p)
    <2> DEFINE l == [mem[p] EXCEPT !.status = s]
    <2>1. "none" \in Verdicts /\ 0 \in 0..Final /\ s \in Statuses
      BY DEF Verdicts, Statuses, Final
    <2>2. l \in Ledgers
      BY <1>2, <2>1, Relabelled
    <2>3. /\ l.attempts = mem[p].attempts /\ l.commands = mem[p].commands
          /\ l.gates = mem[p].gates /\ l.status = s
      BY <1>2 DEF Ledgers
    <2>4. Sound(l)
      <3> HIDE DEF l
      <3> QED
        BY <1>2, <2>3 DEF Sound
    <2>5. l.attempts = 0 => Validating(p)
      BY <1>1, <2>3 DEF Validating
    <2> QED
      BY <2>2, <2>3, <2>4, <2>5
  <1>6. CASE Succeeded(child[p])
    <2> DEFINE l == [mem[p] EXCEPT !.status = "completed"]
               next == CASE mem[p].commands < Validation -> "launch"
                         [] mem[p].commands = Validation -> "collect"
                         [] OTHER -> "assess"
    <2>1. Write(p, l, next, "handler")
      BY <1>6 DEF Reap
    <2>2. /\ l \in Ledgers /\ Sound(l) /\ (l.attempts = 0 => Validating(p))
          /\ l.attempts = mem[p].attempts /\ l.commands = mem[p].commands
      BY <1>5
    <2> HIDE DEF l
    <2>3. pc'[p] \in {next, "handler"}
      BY <2>1, WriteEffect DEF RunInv, TypeOK
    <2>4. Place(next, l, NoChild)
      <3>1. mem[p].commands \in made
        BY <1>2, <1>6 DEF Place, Succeeded
      <3>2. 1..mem[p].commands \subseteq made
        BY <1>2, <1>3, <3>1 DEF Sound
      <3>3. CASE mem[p].commands < Validation
        <4>1. next = "launch"
          BY <1>3, <3>3 DEF Validation, Final
        <4> HIDE DEF next
        <4> QED
          BY <2>2, <3>2, <3>3, <1>4, <4>1 DEF Place
      <3>4. CASE mem[p].commands = Validation
        BY <1>2, <1>3, <1>4, <2>2, <3>4 DEF Place, Validation, Final
      <3>5. CASE mem[p].commands > Validation
        <4>1. mem[p].commands = Final /\ mem[p].attempts = 1 /\ next = "assess"
          BY <1>2, <1>3, <3>5 DEF Place, Validation, Final
        <4> QED
          BY <1>4, <2>2, <4>1 DEF Place
      <3> QED
        BY <1>3, <3>3, <3>4, <3>5 DEF Validation, Final
    <2>5. Place("handler", l, NoChild)
      BY <1>4 DEF Place
    <2>6. next \in Locations /\ "handler" \in Locations
      BY DEF Locations
    <2> HIDE DEF next
    <2> QED
      BY <1>1, <1>2, <1>4, <2>1, <2>2, <2>3, <2>4, <2>5, <2>6, Wrote
  <1>7. CASE ~Succeeded(child[p])
    <2> DEFINE l == [mem[p] EXCEPT !.status = "command_failed"]
    <2>1. Write(p, l, "idle", "idle") /\ "idle" \in Locations
      BY <1>7 DEF Reap, Locations
    <2>2. l \in Ledgers /\ Sound(l) /\ (l.attempts = 0 => Validating(p))
      BY <1>5
    <2> HIDE DEF l
    <2>3. pc'[p] = "idle"
      BY <2>1, WriteEffect DEF RunInv, TypeOK
    <2> QED
      BY <1>1, <1>2, <1>4, <2>1, <2>2, <2>3, Wrote
  <1> QED
    BY <1>6, <1>7

LEMMA InterruptStep ==
  ASSUME RunInv, NEW p \in Operators, Interrupt(p)
  PROVE  RunInv'
  <1>1. /\ pc[p] = "wait" /\ pc' = [pc EXCEPT ![p] = "handler"]
        /\ child' = [child EXCEPT ![p] = NoChild]
        /\ UNCHANGED <<runDir, ledger, made, merit, drift, mem, accesses>>
    BY DEF Interrupt, Goto, disk
  <1>2. Place("handler", mem[p], NoChild) /\ "handler" \in Locations
    BY DEF Place, NoChild, Locations
  <1>3. Validating(p)' => Validating(p)
    BY <1>1 DEF Validating
  <1>4. runDir
    BY <1>1, Inside
  <1> QED
    BY <1>1, <1>2, <1>3, <1>4, AtCall, Moved

LEMMA CheckRaisesStep ==
  ASSUME RunInv, NEW p \in Operators, CheckRaises(p)
  PROVE  RunInv'
  <1>1. /\ pc[p] \in {"collect", "assess"} /\ pc' = [pc EXCEPT ![p] = "handler"]
        /\ UNCHANGED <<runDir, ledger, made, merit, drift, mem, child, accesses>>
    BY DEF CheckRaises, Goto, disk
  <1>2. Place("handler", mem[p], child[p]) /\ "handler" \in Locations
    BY AtCall DEF Place, Locations
  <1>3. Validating(p)' => Validating(p)
    BY <1>1, AtCall DEF Validating, Place
  <1>4. runDir
    BY <1>1, Inside
  <1> QED
    BY <1>1, <1>2, <1>3, <1>4, AtCall, Moved

LEMMA CollectStep ==
  ASSUME RunInv, NEW p \in Operators, CollectOutputs(p)
  PROVE  RunInv'
  <1>1. PICK passed \in Assessments(Validation) :
           mem' = [mem EXCEPT ![p] = [@ EXCEPT
                      !.gates = IF passed THEN "passed" ELSE "failed",
                      !.status = IF passed THEN "ready_for_final" ELSE "validation_gates_failed"]]
    <2>1. PICK passed \in Assessments(Validation) :
             mem' = [mem EXCEPT
                       ![p].gates = IF passed THEN "passed" ELSE "failed",
                       ![p].status = IF passed THEN "ready_for_final"
                                     ELSE "validation_gates_failed"]
      BY DEF CollectOutputs
    <2> QED
      BY <2>1 DEF RunInv, TypeOK
  <1> DEFINE v == IF passed THEN "passed" ELSE "failed"
             s == IF passed THEN "ready_for_final" ELSE "validation_gates_failed"
             l == [mem[p] EXCEPT !.gates = v, !.status = s]
  <1>2. /\ pc[p] = "collect" /\ 1..Validation \subseteq made
        /\ pc' = [pc EXCEPT ![p] = "record_gates"]
        /\ mem' = [mem EXCEPT ![p] = l]
        /\ UNCHANGED <<runDir, ledger, made, merit, drift, child, accesses>>
    BY <1>1 DEF CollectOutputs, Goto, disk, RunInv, TypeOK
  <1>3. mem[p] \in Ledgers /\ Sound(mem[p]) /\ mem[p].attempts = 0 /\ mem[p].commands = Validation
    BY <1>2, AtCall DEF Place
  <1>4. v \in Verdicts /\ s \in Statuses /\ 0 \in 0..Final
    BY DEF Verdicts, Statuses, Final
  <1>5. passed => ValidationMerit
    BY DEF Assessments, ValidationMerit
  <1>6. (s = "ready_for_final" => v = "passed" /\ ValidationMerit) /\ s # "replication_passed"
    BY <1>5
  <1> HIDE DEF v, s
  <1>7. /\ l \in Ledgers /\ l.attempts = 0 /\ l.commands = Validation
        /\ l.gates = v /\ l.status = s
    <2>1. l \in Ledgers
      BY <1>3, <1>4, Relabelled
    <2> QED
      BY <1>3, <1>4, <2>1 DEF Ledgers
  <1> HIDE DEF l
  <1>8. Sound(l)
    BY <1>2, <1>3, <1>6, <1>7 DEF Sound
  <1>9. Place("record_gates", l, child[p]) /\ "record_gates" \in Locations
    BY <1>7, AtCall DEF Place, Locations
  <1>10. Validating(p)' => Validating(p)
    BY <1>2, <1>3 DEF Validating
  <1>11. runDir
    BY <1>2, Inside
  <1> QED
    BY <1>2, <1>7, <1>8, <1>9, <1>10, <1>11, AtCall, Moved

LEMMA RecordGatesStep ==
  ASSUME RunInv, NEW p \in Operators, RecordGates(p)
  PROVE  RunInv'
  <1>1. PICK onError \in {"idle", "handler"} :
           /\ pc[p] = "record_gates" /\ Write(p, mem[p], "idle", onError)
           /\ UNCHANGED <<runDir, made, merit, drift, child, accesses>>
    BY DEF RecordGates
  <1>2. pc'[p] \in {"idle", "handler"}
    BY <1>1, WriteEffect DEF RunInv, TypeOK
  <1>3. pc'[p] = "idle" \/ Place(pc'[p], mem[p], child[p])
    BY <1>2, AtCall DEF Place
  <1>4. mem[p].attempts = 0 => Validating(p)
    BY <1>1 DEF Validating
  <1>5. child[p].state = "ok" => child[p].stage \in made
    BY AtCall DEF Place
  <1> QED
    BY <1>1, <1>3, <1>4, <1>5, AtCall, Wrote DEF Locations

LEMMA HandlerStep ==
  ASSUME RunInv, NEW p \in Operators, Handler(p)
  PROVE  RunInv'
  <1> DEFINE s == FailureStatus(mem[p])
             l == [mem[p] EXCEPT !.status = s]
  <1>1. /\ pc[p] = "handler" /\ Write(p, l, "idle", "idle")
        /\ UNCHANGED <<runDir, made, merit, drift, child, accesses>>
    BY DEF Handler
  <1>2. s \in {"final_evaluation_failed", "execution_failed"}
    BY DEF FailureStatus
  <1> HIDE DEF s
  <1>3. s \in Statuses /\ "none" \in Verdicts /\ 0 \in 0..Final
    BY <1>2 DEF Statuses, Verdicts, Final
  <1>4. l \in Ledgers
    BY <1>3, AtCall, Relabelled
  <1>5. /\ l.status = s /\ l.attempts = mem[p].attempts /\ l.commands = mem[p].commands
        /\ l.gates = mem[p].gates
    BY AtCall DEF Ledgers
  <1> HIDE DEF l
  <1>6. Sound(l)
    BY <1>2, <1>5, AtCall DEF Sound
  <1>7. pc'[p] = "idle"
    BY <1>1, WriteEffect DEF RunInv, TypeOK
  <1>8. l.attempts = 0 => Validating(p)
    BY <1>1, <1>5 DEF Validating
  <1>9. child[p].state = "ok" => child[p].stage \in made
    BY AtCall DEF Place
  <1> QED
    BY <1>1, <1>4, <1>6, <1>7, <1>8, <1>9, AtCall, Wrote

-----------------------------------------------------------------------------
(* final_evaluate.                                                          *)

LEMMA LoadLedgerStep ==
  ASSUME RunInv, NEW p \in Operators, LoadLedger(p)
  PROVE  RunInv'
  <1>1. /\ ledger.status = "ready_for_final" /\ ledger.attempts = 0
        /\ pc' = [pc EXCEPT ![p] = "verify"] /\ mem' = [mem EXCEPT ![p] = ledger]
        /\ UNCHANGED <<runDir, ledger, made, merit, drift, child, accesses>>
    BY DEF LoadLedger, Admits, Goto, disk
  <1>2. ledger # NoLedger
    BY <1>1 DEF NoLedger
  <1>3. runDir
    BY <1>2, Inside
  <1>4. Place("verify", ledger, child[p]) /\ "verify" \in Locations
    BY <1>1, AtCall DEF Place, Locations
  <1>5. ~Validating(p)'
    BY <1>1 DEF Validating, RunInv, TypeOK
  <1> QED
    BY <1>1, <1>3, <1>4, <1>5, AtCall, Moved

LEMMA VerifyStep ==
  ASSUME RunInv, NEW p \in Operators, VerifyUnchanged(p)
  PROVE  RunInv'
  <1>1. /\ pc[p] = "verify"
        /\ UNCHANGED <<runDir, ledger, made, merit, drift, child, accesses>>
    BY DEF VerifyUnchanged, disk
  <1>2. runDir
    BY <1>1, Inside
  <1>3. CASE pc' = [pc EXCEPT ![p] = "reserve_attempt"] /\ mem' = mem
    <2>1. Place("reserve_attempt", mem[p], child[p]) /\ "reserve_attempt" \in Locations
      BY <1>1, AtCall DEF Place, Locations
    <2>2. ~Validating(p)'
      BY <1>3 DEF Validating, RunInv, TypeOK
    <2> QED
      BY <1>1, <1>2, <1>3, <2>1, <2>2, AtCall, Moved
  <1>4. CASE pc' = [pc EXCEPT ![p] = "idle"] /\ mem' = [mem EXCEPT ![p] = NoLedger]
    <2>1. ~Validating(p)'
      BY <1>4 DEF Validating, RunInv, TypeOK
    <2> QED
      BY <1>1, <1>2, <1>4, <2>1, AtCall, Moved
  <1> QED
    BY <1>3, <1>4 DEF VerifyUnchanged, Exit, Goto

LEMMA ReserveAttemptStep ==
  ASSUME RunInv, NEW p \in Operators, ReserveAttempt(p)
  PROVE  RunInv'
  <1> DEFINE l == Reserved(mem[p])
  <1>1. /\ pc[p] = "reserve_attempt" /\ Write(p, l, "launch", "idle")
        /\ UNCHANGED <<runDir, made, merit, drift, child, accesses>>
    BY DEF ReserveAttempt
  <1>2. mem[p] \in Ledgers /\ Sound(mem[p]) /\ mem[p].status = "ready_for_final"
    BY <1>1, AtCall DEF Place
  <1>3. /\ l \in Ledgers /\ l.attempts = 1 /\ l.status = "final_evaluation_reserved"
        /\ l.commands = mem[p].commands /\ l.gates = mem[p].gates
    <2>1. "final_evaluation_reserved" \in Statuses /\ "none" \in Verdicts /\ 0 \in 0..Final
      BY DEF Statuses, Verdicts, Final
    <2>2. l \in Ledgers
      BY <1>2, <2>1, Relabelled DEF Reserved
    <2> QED
      BY <1>2, <2>2 DEF Ledgers, Reserved
  <1> HIDE DEF l
  <1>4. Sound(l)
    BY <1>2, <1>3 DEF Sound
  <1>5. pc'[p] \in {"launch", "idle"}
    BY <1>1, WriteEffect DEF RunInv, TypeOK
  <1>6. pc'[p] = "idle" \/ Place(pc'[p], l, child[p])
    BY <1>3, <1>5, AtCall DEF Place
  <1>7. child[p].state = "ok" => child[p].stage \in made
    BY AtCall DEF Place
  <1> QED
    BY <1>1, <1>3, <1>4, <1>6, <1>7, AtCall, Wrote DEF Locations

LEMMA AssessStep ==
  ASSUME RunInv, NEW p \in Operators, AssessFinal(p)
  PROVE  RunInv'
  <1>1. PICK passed \in Assessments(Final) :
           mem' = [mem EXCEPT ![p] = [@ EXCEPT
                      !.final = IF passed THEN "passed" ELSE "failed",
                      !.status = IF passed THEN "replication_passed" ELSE "final_gates_failed"]]
    <2>1. PICK passed \in Assessments(Final) :
             mem' = [mem EXCEPT
                       ![p].final = IF passed THEN "passed" ELSE "failed",
                       ![p].status = IF passed THEN "replication_passed"
                                     ELSE "final_gates_failed"]
      BY DEF AssessFinal
    <2> QED
      BY <2>1 DEF RunInv, TypeOK
  <1> DEFINE v == IF passed THEN "passed" ELSE "failed"
             s == IF passed THEN "replication_passed" ELSE "final_gates_failed"
             l == [mem[p] EXCEPT !.final = v, !.status = s]
  <1>2. /\ pc[p] = "assess" /\ Final \in made
        /\ pc' = [pc EXCEPT ![p] = "record_final"]
        /\ mem' = [mem EXCEPT ![p] = l]
        /\ UNCHANGED <<runDir, ledger, made, merit, drift, child, accesses>>
    BY <1>1 DEF AssessFinal, Goto, disk, RunInv, TypeOK
  <1>3. mem[p] \in Ledgers /\ Sound(mem[p]) /\ mem[p].attempts = 1 /\ mem[p].commands = Final
    BY <1>2, AtCall DEF Place
  <1>4. v \in Verdicts /\ s \in Statuses /\ 0 \in 0..Final
    BY DEF Verdicts, Statuses, Final
  <1>5. passed => FinalMerit
    BY DEF Assessments, FinalMerit
  <1>6. (s = "replication_passed" => v = "passed" /\ FinalMerit) /\ s # "ready_for_final"
    BY <1>5
  <1> HIDE DEF v, s
  <1>7. /\ l \in Ledgers /\ l.attempts = 1 /\ l.commands = Final
        /\ l.final = v /\ l.status = s /\ l.gates = mem[p].gates
    <2>1. l \in Ledgers
      BY <1>3, <1>4, Relabelled
    <2> QED
      BY <1>3, <1>4, <2>1 DEF Ledgers
  <1> HIDE DEF l
  <1>8. Sound(l)
    BY <1>2, <1>3, <1>6, <1>7 DEF Sound
  <1>9. Place("record_final", l, child[p]) /\ "record_final" \in Locations
    BY <1>7, AtCall DEF Place, Locations
  <1>10. ~Validating(p)'
    BY <1>2 DEF Validating, RunInv, TypeOK
  <1>11. runDir
    BY <1>2, Inside
  <1> QED
    BY <1>2, <1>7, <1>8, <1>9, <1>10, <1>11, AtCall, Moved

LEMMA RecordFinalStep ==
  ASSUME RunInv, NEW p \in Operators, RecordFinal(p)
  PROVE  RunInv'
  <1>1. /\ pc[p] = "record_final" /\ Write(p, mem[p], "idle", "handler")
        /\ UNCHANGED <<runDir, made, merit, drift, child, accesses>>
    BY DEF RecordFinal
  <1>2. pc'[p] \in {"idle", "handler"}
    BY <1>1, WriteEffect DEF RunInv, TypeOK
  <1>3. pc'[p] = "idle" \/ Place(pc'[p], mem[p], child[p])
    BY <1>2, AtCall DEF Place
  <1>4. mem[p].attempts = 1
    BY <1>1, AtCall DEF Place
  <1>5. child[p].state = "ok" => child[p].stage \in made
    BY AtCall DEF Place
  <1> QED
    BY <1>1, <1>3, <1>4, <1>5, AtCall, Wrote DEF Locations

-----------------------------------------------------------------------------
(* The children and the environment.                                        *)

LEMMA EvaluatorStep ==
  ASSUME RunInv, NEW p \in Operators, EvaluatorStarts(p)
  PROVE  RunInv'
  <1>1. PICK s \in {"failed", "reading"} : child' = [child EXCEPT ![p].state = s]
    BY DEF EvaluatorStarts
  <1>2. /\ child[p] # NoChild
        /\ UNCHANGED <<runDir, ledger, made, merit, drift, pc, mem>>
    BY DEF EvaluatorStarts, disk, NoChild
  <1>3. accesses' \in Nat
    BY DEF EvaluatorStarts, RunInv, TypeOK
  <1>4. child' \in [Operators -> Children]
    BY <1>1 DEF RunInv, TypeOK, Children
  <1>5. ASSUME NEW q \in Operators
        PROVE  child'[q].stage = child[q].stage /\ (child'[q].state = "ok" => child'[q] = child[q])
    BY <1>1 DEF RunInv, TypeOK, Children
  <1>6. runDir
    BY <1>2, Inside
  <1> QED
    BY <1>2, <1>3, <1>4, <1>5, <1>6, Grown DEF RunInv, TypeOK

LEMMA ChildPublishesStep ==
  ASSUME RunInv, NEW p \in Operators, ChildPublishes(p)
  PROVE  RunInv'
  <1> DEFINE k == child[p].stage
  <1>1. /\ k # 0 /\ k \in 0..Final
        /\ UNCHANGED <<runDir, ledger, drift, pc, mem, accesses>>
    BY DEF ChildPublishes, RunInv, TypeOK, Children
  <1>2. runDir
    BY <1>1, Inside DEF NoChild
  <1>3. k \in Stages
    BY <1>1 DEF Stages, Final
  <1>4. CASE k \in made
    <2>1. child' = [child EXCEPT ![p].state = "failed"] /\ UNCHANGED <<made, merit>>
      BY <1>4 DEF ChildPublishes
    <2>2. child' \in [Operators -> Children]
      BY <2>1 DEF RunInv, TypeOK, Children
    <2>3. ASSUME NEW q \in Operators
          PROVE  child'[q].stage = child[q].stage /\ (child'[q].state = "ok" => child'[q] = child[q])
      BY <2>1 DEF RunInv, TypeOK, Children
    <2> QED
      BY <1>1, <1>2, <2>1, <2>2, <2>3, Grown DEF RunInv, TypeOK
  <1>5. CASE k \notin made
    <2>1. child' = [child EXCEPT ![p].state = "ok"] /\ made' = made \cup {k}
      BY <1>5 DEF ChildPublishes
    <2>2. /\ merit' \in [{Validation, Final} -> BOOLEAN]
          /\ \A r \in {Validation, Final} \cap made : merit'[r] = merit[r]
      BY <1>5 DEF ChildPublishes, RunInv, TypeOK
    <2>3. child' \in [Operators -> Children]
      BY <2>1 DEF RunInv, TypeOK, Children
    <2>4. ASSUME NEW q \in Operators
          PROVE  /\ child'[q].stage = child[q].stage
                 /\ child'[q].state = "ok" => child[q].stage \in made' \/ child'[q] = child[q]
      BY <2>1 DEF RunInv, TypeOK, Children
    <2> QED
      BY <1>1, <1>2, <1>3, <2>1, <2>2, <2>3, <2>4, Grown DEF RunInv, TypeOK
  <1> QED
    BY <1>4, <1>5

LEMMA ChildFailsStep ==
  ASSUME RunInv, NEW p \in Operators, ChildFails(p)
  PROVE  RunInv'
  <1>1. /\ child[p] # NoChild /\ child' = [child EXCEPT ![p].state = "failed"]
        /\ UNCHANGED <<runDir, ledger, merit, drift, pc, mem, accesses>>
    BY DEF ChildFails, NoChild
  <1>2. made \subseteq made' /\ made' \subseteq Stages
    BY DEF ChildFails, RunInv, TypeOK, Stages, Final
  <1>3. child' \in [Operators -> Children]
    BY <1>1 DEF RunInv, TypeOK, Children
  <1>4. ASSUME NEW q \in Operators
        PROVE  child'[q].stage = child[q].stage /\ (child'[q].state = "ok" => child'[q] = child[q])
    BY <1>1 DEF RunInv, TypeOK, Children
  <1>5. runDir
    BY <1>1, Inside
  <1> QED
    BY <1>1, <1>2, <1>3, <1>4, <1>5, Grown DEF RunInv, TypeOK

LEMMA OrphanStep ==
  ASSUME RunInv, NEW p \in Operators, OrphanEnds(p)
  PROVE  RunInv'
  <1>1. /\ pc[p] = "idle" /\ child[p] # NoChild /\ child' = [child EXCEPT ![p] = NoChild]
        /\ UNCHANGED <<runDir, ledger, made, merit, drift, pc, mem, accesses>>
    BY DEF OrphanEnds, disk, NoChild
  <1>2. mem[p] = NoLedger
    BY <1>1, AtCall DEF Place
  <1>3. runDir
    BY <1>1, Inside
  <1>4. Validating(p)' => Validating(p)
    BY <1>1 DEF Validating
  <1> QED
    BY <1>1, <1>2, <1>3, <1>4, AtCall, Moved

LEMMA CrashStep ==
  ASSUME RunInv, NEW p \in Operators, Crash(p)
  PROVE  RunInv'
  <1>1. /\ pc' = [pc EXCEPT ![p] = "idle"] /\ mem' = [mem EXCEPT ![p] = NoLedger]
        /\ UNCHANGED <<runDir, ledger, made, merit, drift, child, accesses>>
    BY DEF Crash, Exit, Goto, disk
  <1>2. ~Validating(p)'
    BY <1>1 DEF Validating, RunInv, TypeOK
  <1>3. CASE runDir
    BY <1>1, <1>2, <1>3, AtCall, Moved
  <1>4. CASE ~runDir
    <2> USE DEF RunInv
    <2>1. TypeOK'
      BY <1>1, AtCall DEF TypeOK
    <2>2. OutsideInv'
      BY <1>1 DEF OutsideInv, TypeOK
    <2>3. OneRun'
      BY <1>1, <1>2 DEF OneRun, Validating, TypeOK
    <2>4. ASSUME NEW q \in Operators PROVE Sound(mem[q])' /\ Place(pc[q], mem[q], child[q])'
      <3>1. CASE q = p
        <4>1. pc'[q] = "idle" /\ mem'[q] = NoLedger /\ child'[q] = child[p]
          BY <1>1, <3>1 DEF TypeOK
        <4> QED
          BY <1>1, <4>1, AtCall DEF Place, Sound, ValidationMerit, FinalMerit
      <3>2. CASE q # p
        <4>1. pc'[q] = pc[q] /\ mem'[q] = mem[q] /\ child'[q] = child[q]
          BY <1>1, <3>2 DEF TypeOK
        <4> QED
          BY <1>1, <4>1 DEF PlacesInv, Place, Sound, ValidationMerit, FinalMerit
      <3> QED
        BY <3>1, <3>2
    <2>5. Sound(ledger)'
      BY <1>1 DEF Sound, ValidationMerit, FinalMerit
    <2> QED
      BY <2>1, <2>2, <2>3, <2>4, <2>5 DEF PlacesInv
  <1> QED
    BY <1>3, <1>4

LEMMA AlterStep ==
  ASSUME RunInv, NEW x \in Alterable, Alter(x)
  PROVE  RunInv'
  BY Grown DEF Alter, disk, RunInv, TypeOK

-----------------------------------------------------------------------------
(* The results.                                                             *)

LEMMA RunStutter ==
  ASSUME RunInv, UNCHANGED vars
  PROVE  RunInv'
  BY DEF RunInv, TypeOK, OutsideInv, OneRun, Validating, PlacesInv, Place, Sound,
         ValidationMerit, FinalMerit, vars, disk

LEMMA RunStep ==
  ASSUME RunInv, [Next]_vars
  PROVE  RunInv'
  <1>1. ASSUME NEW p \in Operators, RunToValidation(p) PROVE RunInv'
    BY <1>1, StartStep, ReserveStep, WritePreparedStep, LaunchStep, ReapStep, InterruptStep,
       CollectStep, CheckRaisesStep, RecordGatesStep, HandlerStep DEF RunToValidation
  <1>2. ASSUME NEW p \in Operators, FinalEvaluate(p) PROVE RunInv'
    BY <1>2, LoadLedgerStep, VerifyStep, ReserveAttemptStep, AssessStep, RecordFinalStep
       DEF FinalEvaluate
  <1>3. ASSUME NEW p \in Operators, Child(p) PROVE RunInv'
    BY <1>3, EvaluatorStep, ChildPublishesStep, ChildFailsStep, OrphanStep DEF Child
  <1> QED
    BY <1>1, <1>2, <1>3, CrashStep, AlterStep, RunStutter DEF Next, Step

\* The invariant holds in every reachable state, for any number of operators,
\* whichever ledger writes fail and whatever is edited.
THEOREM RunInvariance == Spec => []RunInv
  BY RunInitial, RunStep, PTL DEF Spec

\* Every variable of the runner keeps its type.
THEOREM ReplicationTypeCorrect == Spec => []TypeOK
  <1>1. RunInv => TypeOK
    BY DEF RunInv
  <1> QED
    BY <1>1, RunInvariance, PTL

\* The validation stages run in one process at most: mkdir(exist_ok=False) of
\* the run directory suffices, whatever the racing refusals before it saw.
THEOREM SingleRun == Spec => []OneRun
  <1>1. RunInv => OneRun
    BY DEF RunInv
  <1> QED
    BY <1>1, RunInvariance, PTL

\* The command log never runs ahead of the outputs: whatever a kill, a late
\* write or an orphan did, a logged stage had all its predecessors' outputs.
THEOREM LogFollowsOutputs == Spec => []LedgerInOrder
  <1>1. RunInv => LedgerInOrder
    BY DEF RunInv, Sound, LedgerInOrder
  <1> QED
    BY <1>1, RunInvariance, PTL

\* A ledger that opens the final evaluation rests on five outputs and on gates
\* that the validation report meets, and one that declares the replication passed
\* on a final report and two verdicts that are earned, even when two operators run
\* the final evaluation, unless the gates were edited before their second reading.
THEOREM EarnedDeclarations == Spec => []DeclaredIsEarned
  <1>1. RunInv => ReadyIsEvidenced
    BY DEF RunInv, Sound, ReadyIsEvidenced, ValidationMerit
  <1>2. RunInv => PassedIsEarned
    BY DEF RunInv, Sound, PassedIsEarned, ValidationMerit, FinalMerit
  <1>3. RunInv => DeclaredIsEarned
    BY <1>1, <1>2 DEF DeclaredIsEarned
  <1> QED
    BY <1>3, RunInvariance, PTL
-----------------------------------------------------------------------------
(* One operator alone: the one-shot experiment.                             *)

Committed(k) ==
    k \in {"launch", "wait", "collect", "record_gates", "assess", "record_final", "handler"}

\* What the ledger d on the disk and n accesses have to do with the call k, the
\* ledger l in memory and the child c of the only operator at work.
Accounted(k, l, c, d, n) ==
    /\ k \in {"verify", "reserve_attempt"} => d = l
    /\ k = "prepare" => d = NoLedger
    /\ Committed(k) => d.attempts = l.attempts /\ (d.gates = "passed" => l.gates = "passed")
    /\ k \in {"prepare", "launch", "wait", "collect"} /\ l.attempts = 0 => l.gates # "passed"
    /\ k \notin {"idle", "wait"} => c = NoChild
    /\ c.stage = Final => d.attempts = 1
    /\ c.stage = Final /\ c.state = "running" => n = 0
    /\ k = "launch" /\ l.attempts = 1 => n = 0
    /\ d.attempts = 0 => n = 0

\* What a process that goes on at call k keeps of ledger l.
Kept(k, l) == IF k = "idle" THEN NoLedger ELSE l

Sole(p) ==
    /\ \A q \in Operators \ {p} : pc[q] = "idle" /\ child[q] = NoChild
    /\ Accounted(pc[p], mem[p], child[p], ledger, accesses)

CrewInv ==
    /\ RunInv
    /\ crew \subseteq Operators
    /\ \A p \in Operators : crew = {p} => Sole(p)

Promise == Abstract!Next \/ UNCHANGED Abstract!vars

\* Gates that passed stay passed, an attempt stays reserved, and it is reserved
\* only over gates that had passed.
LEMMA Promised ==
  ASSUME ledger \in Ledgers, ledger' \in Ledgers, UNCHANGED accesses,
         ledger.gates = "passed" => ledger'.gates = "passed",
         ledger'.attempts = ledger.attempts \/ (ledger'.attempts = 1 /\ ledger.gates = "passed")
  PROVE  Promise
  <1> USE DEF Promise, Abstract!Next, Abstract!vars
  <1>1. ledger.attempts \in {0, 1} /\ ledger'.attempts \in {0, 1}
    BY DEF Ledgers
  <1>2. CASE ledger'.attempts # ledger.attempts
    BY <1>1, <1>2 DEF Abstract!Reserve
  <1>3. CASE ledger'.attempts = ledger.attempts /\ ledger.gates # "passed" /\ ledger'.gates = "passed"
    BY <1>3 DEF Abstract!Validate
  <1>4. CASE ledger'.attempts = ledger.attempts /\ (ledger.gates = "passed" <=> ledger'.gates = "passed")
    BY <1>4
  <1> QED
    BY <1>2, <1>3, <1>4

\* The only operator moves to call k with ledger l and child c, over ledger d.
LEMMA SoleMoved ==
  ASSUME RunInv, NEW p \in Operators, Sole(p), NEW k, NEW l, NEW c, NEW d \in Ledgers,
         pc' = [pc EXCEPT ![p] = k], mem' = [mem EXCEPT ![p] = l],
         child' = [child EXCEPT ![p] = c], ledger' = d, UNCHANGED accesses,
         Accounted(k, l, c, d, accesses),
         ledger.gates = "passed" => d.gates = "passed",
         d.attempts = ledger.attempts \/ (d.attempts = 1 /\ ledger.gates = "passed")
  PROVE  Sole(p)' /\ Promise
  <1>1. Promise
    BY Promised DEF RunInv, TypeOK
  <1>2. pc'[p] = k /\ mem'[p] = l /\ child'[p] = c
    BY DEF RunInv, TypeOK
  <1>3. \A q \in Operators \ {p} : pc'[q] = pc[q] /\ child'[q] = child[q]
    BY DEF RunInv, TypeOK
  <1>4. Accounted(pc'[p], mem'[p], child'[p], ledger', accesses')
    BY <1>2
  <1> QED
    BY <1>1, <1>3, <1>4 DEF Sole

\* A ledger write that goes through continues at onOk; one that does not leaves
\* either ledger on the disk and continues at onError.
LEMMA SoleWrites ==
  ASSUME RunInv, NEW p \in Operators, Sole(p), NEW l \in Ledgers, NEW onOk, NEW onError,
         Write(p, l, onOk, onError), NEW c, child' = [child EXCEPT ![p] = c],
         UNCHANGED accesses,
         Accounted(onOk, Kept(onOk, l), c, l, accesses),
         \A d \in {ledger, l} :
            Accounted(onError, Kept(onError, l), c, d, accesses),
         ledger.gates = "passed" => l.gates = "passed",
         l.attempts = ledger.attempts \/ (l.attempts = 1 /\ ledger.gates = "passed")
  PROVE  Sole(p)' /\ Promise
  <1>1. PICK o \in Outcomes :
           /\ ledger' = (IF Published(o) THEN l ELSE ledger)
           /\ pc' = [pc EXCEPT ![p] = IF o = "ok" THEN onOk ELSE onError]
           /\ mem' = [mem EXCEPT ![p] = Kept(IF o = "ok" THEN onOk ELSE onError, l)]
    BY DEF Write, Goto, Kept
  <1>2. ledger \in Ledgers
    BY DEF RunInv, TypeOK
  <1>3. CASE o = "ok"
    <2>1. PICK m : m = Kept(onOk, l)
      OBVIOUS
    <2>2. ledger' = l /\ pc' = [pc EXCEPT ![p] = onOk] /\ mem' = [mem EXCEPT ![p] = m]
      BY <1>1, <1>3, <2>1 DEF Published
    <2> QED
      BY <2>1, <2>2, SoleMoved
  <1>4. CASE o # "ok"
    <2>1. PICK m : m = Kept(onError, l)
      OBVIOUS
    <2>2. PICK d : d = ledger' /\ d \in {ledger, l}
      BY <1>1
    <2>3. pc' = [pc EXCEPT ![p] = onError] /\ mem' = [mem EXCEPT ![p] = m]
      BY <1>1, <1>4, <2>1
    <2>4. Accounted(onError, m, c, d, accesses)
      BY <2>1, <2>2
    <2>5. d \in Ledgers /\ (ledger.gates = "passed" => d.gates = "passed")
      BY <1>2, <2>2
    <2>6. d.attempts = ledger.attempts \/ (d.attempts = 1 /\ ledger.gates = "passed")
      BY <2>2
    <2> QED
      BY <2>2, <2>3, <2>4, <2>5, <2>6, SoleMoved
  <1> QED
    BY <1>3, <1>4

\* The facts about the only operator that its steps rely on.
LEMMA AtSole ==
  ASSUME RunInv, NEW p \in Operators, Sole(p)
  PROVE  /\ Accounted(pc[p], mem[p], child[p], ledger, accesses)
         /\ Place(pc[p], mem[p], child[p])
         /\ ledger \in Ledgers /\ mem[p] \in Ledgers
         /\ ledger.attempts \in {0, 1} /\ mem[p].attempts \in {0, 1}
         /\ mem[p].commands \in 0..Final
         /\ ledger.attempts = 1 => ledger.gates = "passed"
         /\ mem[p].attempts = 1 => mem[p].gates = "passed"
         /\ pc = [pc EXCEPT ![p] = pc[p]] /\ mem = [mem EXCEPT ![p] = mem[p]]
         /\ child = [child EXCEPT ![p] = child[p]]
  BY AtCall, Relabelled DEF Sole, Sound, Ledgers

\* What every process leaves behind when it exits.
LEMMA SoleAtRest ==
  ASSUME RunInv, NEW p \in Operators, Sole(p), NEW c \in {child[p], NoChild}
  PROVE  Accounted("idle", NoLedger, c, ledger, accesses)
  BY AtSole DEF Accounted, Committed, NoChild, Final

LEMMA SoleStart ==
  ASSUME RunInv, NEW p \in Operators, Sole(p),
         StartValidation(p) \/ ReserveRun(p) \/ WritePrepared(p)
  PROVE  Sole(p)' /\ Promise
  <1>1. CASE StartValidation(p)
    <2>1. /\ pc[p] = "idle" /\ child[p] = NoChild /\ pc' = [pc EXCEPT ![p] = "reserve"]
          /\ UNCHANGED <<ledger, mem, child, accesses>>
      BY <1>1 DEF StartValidation, Goto, disk
    <2>2. Accounted("reserve", mem[p], child[p], ledger, accesses)
      BY <2>1, AtSole DEF Accounted, Committed, NoChild, Final
    <2>3. PICK l, c, d : l = mem[p] /\ c = child[p] /\ d = ledger
      OBVIOUS
    <2>4. /\ pc' = [pc EXCEPT ![p] = "reserve"] /\ mem' = [mem EXCEPT ![p] = l]
          /\ child' = [child EXCEPT ![p] = c] /\ ledger' = d /\ d \in Ledgers
          /\ Accounted("reserve", l, c, d, accesses)
      BY <2>1, <2>2, <2>3, AtSole
    <2> QED
      BY <2>1, <2>3, <2>4, SoleMoved
  <1>2. CASE ReserveRun(p)
    <2>1. pc[p] = "reserve" /\ UNCHANGED <<ledger, child, accesses>>
      BY <1>2 DEF ReserveRun
    <2>2. CASE runDir
      <3>1. pc' = [pc EXCEPT ![p] = "idle"] /\ mem' = [mem EXCEPT ![p] = NoLedger]
        BY <1>2, <2>2 DEF ReserveRun, RunDirTaken, Exit, Goto
      <3> QED
        BY <2>1, <3>1, AtSole, SoleAtRest, SoleMoved
    <2>3. CASE ~runDir
      <3>1. PICK l : l = [mem[p] EXCEPT !.status = "prepared"]
        OBVIOUS
      <3>2. pc' = [pc EXCEPT ![p] = "prepare"] /\ mem' = [mem EXCEPT ![p] = l]
        BY <1>2, <2>3, <3>1 DEF ReserveRun, RunDirTaken, Goto, RunInv, TypeOK
      <3>3. ledger = NoLedger /\ mem[p] = NoLedger
        BY <2>1, <2>3, AtSole DEF RunInv, OutsideInv, Place
      <3>4. l.attempts = 0 /\ l.gates = "none"
        BY <3>1, <3>3 DEF NoLedger
      <3>5. Accounted("prepare", l, child[p], ledger, accesses)
        BY <2>1, <3>3, <3>4, AtSole DEF Accounted, Committed, NoChild, Final
      <3> QED
        BY <2>1, <3>2, <3>5, AtSole, SoleMoved
    <2> QED
      BY <2>2, <2>3
  <1>3. CASE WritePrepared(p)
    <2>1. /\ pc[p] = "prepare" /\ Write(p, mem[p], "launch", "idle")
          /\ UNCHANGED <<child, accesses>>
      BY <1>3 DEF WritePrepared
    <2>2. /\ ledger = NoLedger /\ ledger.attempts = 0 /\ ledger.gates # "passed"
          /\ mem[p].attempts = 0 /\ mem[p].gates # "passed"
          /\ child[p] = NoChild /\ accesses = 0
      BY <2>1, AtSole DEF Accounted, Place, NoLedger
    <2>3. PICK l, c : l = mem[p] /\ c = child[p]
      OBVIOUS
    <2>4. Accounted("launch", Kept("launch", l), c, l, accesses)
      BY <2>2, <2>3 DEF Kept, Accounted, Committed, NoChild, Final
    <2>5. \A d \in {ledger, l} : Accounted("idle", Kept("idle", l), c, d, accesses)
      BY <2>2, <2>3 DEF Kept, Accounted, Committed, NoChild, Final
    <2>6. /\ child' = [child EXCEPT ![p] = c] /\ l \in Ledgers
          /\ l.attempts = ledger.attempts /\ Write(p, l, "launch", "idle")
          /\ ledger.gates = "passed" => l.gates = "passed"
          /\ UNCHANGED accesses
      BY <2>1, <2>2, <2>3, AtSole
    <2> QED
      BY <2>4, <2>5, <2>6, SoleWrites, ZenonT(40)
  <1> QED
    BY <1>1, <1>2, <1>3

LEMMA SoleLaunch ==
  ASSUME RunInv, NEW p \in Operators, Sole(p), Launch(p)
  PROVE  Sole(p)' /\ Promise
  <1>1. PICK next : next = IF mem[p].attempts = 1 THEN Final ELSE mem[p].commands + 1
    OBVIOUS
  <1>2. PICK l : l = [mem[p] EXCEPT !.commands = next, !.status = "started"]
    OBVIOUS
  <1>3. PICK c : c = [stage |-> next, state |-> "running"]
    OBVIOUS
  <1>4. PICK onOk \in {"wait", "handler"} :
           /\ pc[p] = "launch" /\ Write(p, l, onOk, "handler")
           /\ child' = IF pc'[p] = "wait" THEN [child EXCEPT ![p] = c] ELSE child
           /\ UNCHANGED accesses
    BY <1>1, <1>2, <1>3 DEF Launch
  <1>5. child[p] = NoChild /\ Accounted("launch", mem[p], NoChild, ledger, accesses)
    BY <1>4, AtSole DEF Accounted
  <1>6. (next = Final <=> mem[p].attempts = 1) /\ next \in 0..Final
    BY <1>1, <1>4, AtSole DEF Place, Validation, Final
  <1>7. l \in Ledgers /\ l.attempts = mem[p].attempts /\ l.gates = mem[p].gates
    <2>1. "started" \in Statuses /\ "none" \in Verdicts
      BY DEF Statuses, Verdicts
    <2>2. l \in Ledgers
      BY <1>2, <1>6, <2>1, AtSole, Relabelled
    <2> QED
      BY <1>2, <2>2, AtSole DEF Ledgers
  <1>8. /\ ledger.attempts = l.attempts
        /\ ledger.gates = "passed" => l.gates = "passed"
        /\ l.attempts = 0 => l.gates # "passed"
        /\ accesses = 0
    BY <1>5, <1>7, AtSole DEF Accounted, Committed
  <1>9. \A d \in {ledger, l} : Accounted("handler", l, NoChild, d, accesses)
    BY <1>8 DEF Accounted, Committed, NoChild, Final
  <1>10. CASE onOk = "handler" \/ pc'[p] # "wait"
    <2>1. child' = [child EXCEPT ![p] = NoChild]
      <3>1. onOk = "handler" => pc'[p] # "wait"
        BY <1>4 DEF Write, Goto, RunInv, TypeOK
      <3> QED
        BY <1>4, <1>5, <1>10, <3>1, AtSole
    <2>2. Write(p, l, "handler", "handler") \/ (onOk = "wait" /\ pc'[p] # "wait")
      BY <1>4, <1>10
    <2>3. CASE Write(p, l, "handler", "handler")
      <3>1. \A d \in {ledger, l} : Accounted("handler", Kept("handler", l), NoChild, d, accesses)
        BY <1>9 DEF Kept
      <3>2. Accounted("handler", Kept("handler", l), NoChild, l, accesses)
        BY <3>1
      <3> QED
        BY <1>4, <1>7, <1>8, <2>1, <2>3, <3>1, <3>2, SoleWrites
    <2>4. CASE onOk = "wait" /\ pc'[p] # "wait"
      <3>1. /\ pc' = [pc EXCEPT ![p] = "handler"] /\ mem' = [mem EXCEPT ![p] = l]
            /\ ledger' \in {ledger, l}
        BY <1>4, <2>4 DEF Write, Goto, RunInv, TypeOK
      <3>2. PICK d : d = ledger' /\ d \in {ledger, l}
        BY <3>1
      <3>3. Accounted("handler", l, NoChild, d, accesses) /\ d \in Ledgers
        BY <1>7, <1>9, <3>2, AtSole
      <3>4. d.attempts = ledger.attempts /\ (ledger.gates = "passed" => d.gates = "passed")
        BY <1>8, <3>2
      <3> QED
        BY <1>4, <2>1, <3>1, <3>2, <3>3, <3>4, SoleMoved
    <2> QED
      BY <2>2, <2>3, <2>4
  <1>11. CASE onOk = "wait" /\ pc'[p] = "wait"
    <2>1. /\ pc' = [pc EXCEPT ![p] = "wait"] /\ mem' = [mem EXCEPT ![p] = l]
          /\ ledger' = l /\ child' = [child EXCEPT ![p] = c]
      BY <1>4, <1>11 DEF Write, Goto, Published, RunInv, TypeOK
    <2>2. Accounted("wait", l, c, l, accesses)
      BY <1>3, <1>6, <1>7, <1>8 DEF Accounted, Committed
    <2> QED
      BY <1>4, <1>7, <1>8, <2>1, <2>2, SoleMoved
  <1> QED
    BY <1>4, <1>10, <1>11

LEMMA SoleReap ==
  ASSUME RunInv, NEW p \in Operators, Sole(p), Reap(p)
  PROVE  Sole(p)' /\ Promise
  <1>1. /\ pc[p] = "wait" /\ child' = [child EXCEPT ![p] = NoChild]
        /\ UNCHANGED accesses
    BY DEF Reap
  <1>2. PICK s \in {"completed", "command_failed"},
               onOk \in {"launch", "collect", "assess", "idle"}, onError \in {"handler", "idle"} :
           /\ Write(p, [mem[p] EXCEPT !.status = s], onOk, onError)
           /\ onOk = "launch" => mem[p].commands < Validation
    <2>1. CASE Succeeded(child[p])
      <3>1. PICK next : next = CASE mem[p].commands < Validation -> "launch"
                                 [] mem[p].commands = Validation -> "collect"
                                 [] OTHER -> "assess"
        OBVIOUS
      <3>2. Write(p, [mem[p] EXCEPT !.status = "completed"], next, "handler")
        BY <2>1, <3>1 DEF Reap
      <3>3. mem[p].commands \in 0..6
        BY AtSole DEF Final
      <3>4. next \in {"launch", "collect", "assess"} /\ (next = "launch" => mem[p].commands < Validation)
        BY <3>1, <3>3 DEF Validation
      <3> QED
        BY <3>2, <3>4
    <2>2. CASE ~Succeeded(child[p])
      BY <2>2 DEF Reap
    <2> QED
      BY <2>1, <2>2
  <1>3. PICK l : l = [mem[p] EXCEPT !.status = s]
    OBVIOUS
  <1>4. l \in Ledgers /\ l.attempts = mem[p].attempts /\ l.gates = mem[p].gates
    <2>1. s \in Statuses /\ "none" \in Verdicts /\ 0 \in 0..Final
      BY DEF Statuses, Verdicts, Final
    <2>2. l \in Ledgers
      BY <1>3, <2>1, AtSole, Relabelled
    <2> QED
      BY <1>3, <2>2, AtSole DEF Ledgers
  <1>5. /\ ledger.attempts = l.attempts
        /\ ledger.gates = "passed" => l.gates = "passed"
        /\ l.attempts = 0 => l.gates # "passed"
        /\ ledger.attempts = 0 => accesses = 0
    BY <1>1, <1>4, AtSole DEF Accounted, Committed
  <1>6. onOk = "launch" => l.attempts = 0
    BY <1>1, <1>2, <1>4, AtSole DEF Place, Validation, Final
  <1>7. Accounted(onOk, Kept(onOk, l), NoChild, l, accesses)
    BY <1>2, <1>5, <1>6 DEF Kept, Accounted, Committed, NoChild, Final
  <1>8. \A d \in {ledger, l} :
Accounted(onError, Kept(onError, l), NoChild, d, accesses)
    BY <1>2, <1>5 DEF Kept, Accounted, Committed, NoChild, Final
  <1>9. Write(p, l, onOk, onError)
    BY <1>2, <1>3
  <1> QED
    BY <1>1, <1>4, <1>5, <1>7, <1>8, <1>9, SoleWrites

LEMMA SoleInterrupt ==
  ASSUME RunInv, NEW p \in Operators, Sole(p), Interrupt(p) \/ CheckRaises(p) \/ CollectOutputs(p)
  PROVE  Sole(p)' /\ Promise
  <1>1. CASE Interrupt(p) \/ CheckRaises(p)
    <2>1. PICK l, c, d : l = mem[p] /\ c = NoChild /\ d = ledger
      OBVIOUS
    <2>2. pc[p] \in {"wait", "collect", "assess"} /\ UNCHANGED <<ledger, mem, accesses>>
      BY <1>1 DEF Interrupt, CheckRaises, disk
    <2>3. pc' = [pc EXCEPT ![p] = "handler"] /\ child' = [child EXCEPT ![p] = c]
      <3>1. Interrupt(p) \/ child[p] = NoChild
        BY <1>1, AtSole DEF CheckRaises, Accounted
      <3> QED
        BY <1>1, <2>1, <3>1, AtSole DEF Interrupt, CheckRaises, Goto
    <2>4. Accounted("handler", l, c, d, accesses)
      BY <2>1, <2>2, AtSole DEF Accounted, Committed, NoChild, Final
    <2>5. mem' = [mem EXCEPT ![p] = l] /\ ledger' = d /\ d \in Ledgers
      BY <2>1, <2>2, AtSole
    <2> QED
      BY <2>1, <2>2, <2>3, <2>4, <2>5, SoleMoved
  <1>2. CASE CollectOutputs(p)
    <2>1. PICK passed \in Assessments(Validation) :
             mem' = [mem EXCEPT
                       ![p].gates = IF passed THEN "passed" ELSE "failed",
                       ![p].status = IF passed THEN "ready_for_final"
                                     ELSE "validation_gates_failed"]
      BY <1>2 DEF CollectOutputs
    <2>2. PICK v, s : /\ v = IF passed THEN "passed" ELSE "failed"
                      /\ s = IF passed THEN "ready_for_final" ELSE "validation_gates_failed"
      OBVIOUS
    <2>3. PICK l, c, d : l = [mem[p] EXCEPT !.gates = v, !.status = s] /\ c = child[p] /\ d = ledger
      OBVIOUS
    <2>4. mem' = [mem EXCEPT ![p] = l]
      BY <2>1, <2>2, <2>3 DEF RunInv, TypeOK
    <2>5. /\ pc[p] = "collect" /\ pc' = [pc EXCEPT ![p] = "record_gates"]
          /\ UNCHANGED <<ledger, child, accesses>>
      BY <1>2 DEF CollectOutputs, Goto, disk
    <2>6. l.attempts = mem[p].attempts
      BY <2>3, AtSole DEF Ledgers
    <2>7. Accounted("record_gates", l, c, d, accesses)
      BY <2>3, <2>5, <2>6, AtSole DEF Accounted, Place, Committed, NoChild, Final
    <2>8. child' = [child EXCEPT ![p] = c] /\ ledger' = d /\ d \in Ledgers
      BY <2>3, <2>5, AtSole
    <2>9. pc' = [pc EXCEPT ![p] = "record_gates"] /\ UNCHANGED accesses /\ d = ledger
      BY <2>3, <2>5
    <2> QED
      BY <2>4, <2>7, <2>8, <2>9, SoleMoved
  <1> QED
    BY <1>1, <1>2

\* A committed process writes a ledger l that keeps what the one in memory says
\* of the attempt and the gates, and then exits, or raises to its handler.
LEMMA SoleRecords ==
  ASSUME RunInv, NEW p \in Operators, Sole(p), NEW l \in Ledgers,
         l.attempts = mem[p].attempts, l.gates = mem[p].gates,
         pc[p] \in {"record_gates", "record_final", "handler"},
         NEW onError \in {"idle", "handler"}, Write(p, l, "idle", onError),
         child' = child, UNCHANGED accesses
  PROVE  Sole(p)' /\ Promise
  <1>1. PICK c : c = NoChild
    OBVIOUS
  <1>2. child[p] = c /\ child' = [child EXCEPT ![p] = c]
    BY <1>1, AtSole DEF Accounted
  <1>3. /\ l.attempts = ledger.attempts /\ (ledger.gates = "passed" => l.gates = "passed")
        /\ ledger.attempts = 0 => accesses = 0
    BY AtSole DEF Accounted, Committed
  <1>4. Accounted("idle", Kept("idle", l), c, l, accesses)
    BY <1>1, <1>3 DEF Kept, Accounted, Committed, NoChild, Final
  <1>5. \A d \in {ledger, l} : Accounted(onError, Kept(onError, l), c, d, accesses)
    BY <1>1, <1>3 DEF Kept, Accounted, Committed, NoChild, Final
  <1>6. ASSUME child' = [child EXCEPT ![p] = c] PROVE Sole(p)' /\ Promise
    <2> HIDE <1>2
    <2> QED
      BY <1>3, <1>4, <1>5, <1>6, SoleWrites
  <1> QED
    BY <1>2, <1>6

LEMMA SoleRecord ==
  ASSUME RunInv, NEW p \in Operators, Sole(p), RecordGates(p) \/ RecordFinal(p) \/ Handler(p)
  PROVE  Sole(p)' /\ Promise
  <1>1. CASE RecordGates(p) \/ RecordFinal(p)
    <2>1. PICK e \in {"idle", "handler"} : Write(p, mem[p], "idle", e)
      <3>1. CASE RecordFinal(p)
        BY <3>1 DEF RecordFinal
      <3>2. CASE RecordGates(p)
        <4>1. PICK e : e = IF mem[p].status = "validation_gates_failed" THEN "idle" ELSE "handler"
          OBVIOUS
        <4>2. e \in {"idle", "handler"} /\ Write(p, mem[p], "idle", e)
          BY <3>2, <4>1 DEF RecordGates
        <4> QED
          BY <4>2
      <3> QED
        BY <1>1, <3>1, <3>2
    <2>2. pc[p] \in {"record_gates", "record_final"} /\ UNCHANGED <<child, accesses>>
      BY <1>1 DEF RecordGates, RecordFinal
    <2> QED
      BY <2>1, <2>2, AtSole, SoleRecords
  <1>2. CASE Handler(p)
    <2>1. PICK s : s = FailureStatus(mem[p])
      OBVIOUS
    <2>2. PICK l : l = [mem[p] EXCEPT !.status = s]
      OBVIOUS
    <2>3. pc[p] = "handler" /\ Write(p, l, "idle", "idle") /\ UNCHANGED <<child, accesses>>
      BY <1>2, <2>1, <2>2 DEF Handler
    <2>4. s \in Statuses /\ "none" \in Verdicts /\ 0 \in 0..Final
      BY <2>1 DEF FailureStatus, Statuses, Verdicts, Final
    <2>5. l \in Ledgers
      BY <2>2, <2>4, AtSole, Relabelled
    <2>6. l.attempts = mem[p].attempts /\ l.gates = mem[p].gates
      BY <2>2, <2>5, AtSole DEF Ledgers
    <2> QED
      BY <2>3, <2>5, <2>6, SoleRecords
  <1> QED
    BY <1>1, <1>2

LEMMA SoleFinal ==
  ASSUME RunInv, NEW p \in Operators, Sole(p),
         LoadLedger(p) \/ VerifyUnchanged(p) \/ ReserveAttempt(p) \/ AssessFinal(p)
  PROVE  Sole(p)' /\ Promise
  <1>1. PICK c, d : c = child[p] /\ d = ledger
    OBVIOUS
  <1>2. child = [child EXCEPT ![p] = c] /\ d \in Ledgers
    BY <1>1, AtSole
  <1>3. CASE LoadLedger(p)
    <2>1. /\ c = NoChild /\ ledger.attempts = 0 /\ pc' = [pc EXCEPT ![p] = "verify"]
          /\ mem' = [mem EXCEPT ![p] = d] /\ UNCHANGED <<ledger, child, accesses>>
      BY <1>1, <1>3 DEF LoadLedger, Admits, Goto, disk
    <2>2. Accounted("verify", d, c, d, accesses)
      BY <1>1, <2>1, AtSole DEF Accounted, Committed, NoChild, Final
    <2> QED
      BY <1>1, <1>2, <2>1, <2>2, SoleMoved
  <1>4. CASE VerifyUnchanged(p)
    <2>1. pc[p] = "verify" /\ UNCHANGED <<ledger, child, accesses>>
      BY <1>4 DEF VerifyUnchanged, disk
    <2>2. CASE pc' = [pc EXCEPT ![p] = "reserve_attempt"] /\ mem' = mem
      <3>1. PICK l : l = mem[p]
        OBVIOUS
      <3>2. Accounted("reserve_attempt", l, c, d, accesses)
        BY <1>1, <2>1, <3>1, AtSole DEF Accounted, Committed, NoChild, Final
      <3>3. mem' = [mem EXCEPT ![p] = l]
        BY <2>2, <3>1, AtSole
      <3> QED
        BY <1>1, <1>2, <2>1, <2>2, <3>2, <3>3, SoleMoved
    <2>3. CASE pc' = [pc EXCEPT ![p] = "idle"] /\ mem' = [mem EXCEPT ![p] = NoLedger]
      <3>1. Accounted("idle", NoLedger, c, d, accesses)
        BY <1>1, SoleAtRest
      <3> QED
        BY <1>1, <1>2, <2>1, <2>3, <3>1, SoleMoved
    <2> QED
      BY <1>4, <2>2, <2>3 DEF VerifyUnchanged, Exit, Goto
  <1>5. CASE ReserveAttempt(p)
    <2>1. PICK l : l = Reserved(mem[p])
      OBVIOUS
    <2>2. /\ pc[p] = "reserve_attempt" /\ Write(p, l, "launch", "idle")
          /\ UNCHANGED <<child, accesses>>
      BY <1>5, <2>1 DEF ReserveAttempt
    <2>3. /\ ledger = mem[p] /\ ledger.attempts = 0 /\ ledger.gates = "passed" /\ accesses = 0
          /\ c = NoChild
      BY <1>1, <2>2, AtCall, AtSole DEF Accounted, Place, Sound
    <2>4. l \in Ledgers /\ l.attempts = 1 /\ l.gates = "passed"
      <3>1. "final_evaluation_reserved" \in Statuses /\ "none" \in Verdicts /\ 0 \in 0..Final
        BY DEF Statuses, Verdicts, Final
      <3>2. l \in Ledgers
        BY <2>1, <3>1, AtSole, Relabelled DEF Reserved
      <3> QED
        BY <2>1, <2>3, <3>2, AtSole DEF Reserved, Ledgers
    <2>5. Accounted("launch", Kept("launch", l), c, l, accesses)
      BY <2>3, <2>4 DEF Kept, Accounted, Committed, NoChild, Final
    <2>6. \A e \in {ledger, l} : Accounted("idle", Kept("idle", l), c, e, accesses)
      BY <2>3, <2>4 DEF Kept, Accounted, Committed, NoChild, Final
    <2>7. /\ ledger.gates = "passed" /\ child' = [child EXCEPT ![p] = c] /\ UNCHANGED accesses
          /\ Write(p, l, "launch", "idle")
      BY <1>2, <2>2, <2>3
    <2> QED
      BY <2>4, <2>5, <2>6, <2>7, SoleWrites
  <1>6. CASE AssessFinal(p)
    <2>1. PICK v, s : mem' = [mem EXCEPT ![p].final = v, ![p].status = s]
      BY <1>6 DEF AssessFinal
    <2>2. PICK l : l = [mem[p] EXCEPT !.final = v, !.status = s]
      OBVIOUS
    <2>3. /\ pc[p] = "assess" /\ pc' = [pc EXCEPT ![p] = "record_final"]
          /\ mem' = [mem EXCEPT ![p] = l] /\ UNCHANGED <<ledger, child, accesses>>
      BY <1>6, <2>1, <2>2 DEF AssessFinal, Goto, disk, RunInv, TypeOK
    <2>4. l.attempts = mem[p].attempts /\ l.gates = mem[p].gates
      BY <2>2, AtSole DEF Ledgers
    <2>5. Accounted("record_final", l, c, d, accesses)
      BY <1>1, <2>3, <2>4, AtSole DEF Accounted, Committed, NoChild, Final
    <2> QED
      BY <1>1, <1>2, <2>3, <2>5, SoleMoved
  <1> QED
    BY <1>3, <1>4, <1>5, <1>6

\* A child works, ends or is reaped by nobody; the final one opens the partition.
LEMMA SoleChild ==
  ASSUME RunInv, NEW p \in Operators, Sole(p), Child(p)
  PROVE  Sole(p)' /\ Promise
  <1>1. PICK k, l, d : k = pc[p] /\ l = mem[p] /\ d = ledger
    OBVIOUS
  <1>2. UNCHANGED <<ledger, pc, mem>>
    BY DEF Child, EvaluatorStarts, ChildPublishes, ChildFails, OrphanEnds, disk
  <1>3. pc' = [pc EXCEPT ![p] = k] /\ mem' = [mem EXCEPT ![p] = l] /\ ledger' = d /\ d \in Ledgers
    BY <1>1, <1>2, AtSole
  <1>4. child[p] \in Children /\ Accounted(k, l, child[p], d, accesses)
    BY <1>1, AtCall, AtSole
  <1>5. CASE EvaluatorStarts(p) /\ Final \notin made
    <2>1. /\ child[p].stage = Final /\ child[p].state = "running" /\ accesses' = accesses + 1
          /\ child' = [child EXCEPT ![p].state = "reading"]
      BY <1>5 DEF EvaluatorStarts
    <2>2. ledger.attempts = 1 /\ accesses = 0 /\ k \in {"idle", "wait"}
      BY <1>1, <1>4, <2>1 DEF Accounted, NoChild
    <2>3. Promise
      BY <1>2, <2>1, <2>2 DEF Promise, Abstract!Next, Abstract!Access
    <2>4. child'[p].stage = Final /\ child'[p].state = "reading"
      BY <1>4, <2>1 DEF RunInv, TypeOK, Children
    <2>5. pc'[p] = k /\ mem'[p] = l /\ ledger' = d
      BY <1>1, <1>2
    <2>6. Accounted(pc'[p], mem'[p], child'[p], ledger', accesses')
      BY <1>1, <1>4, <2>2, <2>4, <2>5 DEF Accounted, Committed
    <2>7. \A q \in Operators \ {p} : pc'[q] = pc[q] /\ child'[q] = child[q]
      BY <1>2, <2>1 DEF RunInv, TypeOK
    <2> QED
      BY <2>3, <2>6, <2>7 DEF Sole
  <1>6. CASE ~(EvaluatorStarts(p) /\ Final \notin made)
    <2>1. PICK c : /\ child' = [child EXCEPT ![p] = c] /\ UNCHANGED accesses
                   /\ c = NoChild \/ (c.stage = child[p].stage /\ c.state # "running")
      <3>1. CASE OrphanEnds(p)
        BY <3>1 DEF OrphanEnds
      <3>2. CASE ~OrphanEnds(p)
        <4>1. PICK s \in {"ok", "failed"} :
                 child' = [child EXCEPT ![p].state = s] /\ UNCHANGED accesses
          BY <1>6, <3>2 DEF Child, EvaluatorStarts, ChildPublishes, ChildFails
        <4>2. PICK c : c = [child[p] EXCEPT !.state = s]
          OBVIOUS
        <4>3. child' = [child EXCEPT ![p] = c]
          BY <4>1, <4>2 DEF RunInv, TypeOK
        <4>4. c.stage = child[p].stage /\ c.state = s
          BY <1>4, <4>2 DEF Children
        <4> QED
          BY <4>1, <4>3, <4>4
      <3> QED
        BY <3>1, <3>2
    <2>2. k \in {"idle", "wait"} \/ c = NoChild
      <3>1. child[p] = NoChild => OrphanEnds(p) /\ FALSE
        BY DEF Child, EvaluatorStarts, ChildPublishes, ChildFails, OrphanEnds, NoChild, Working, Final
      <3> QED
        BY <1>4, <3>1 DEF Accounted
    <2>3. Accounted(k, l, c, d, accesses)
      BY <1>4, <2>1, <2>2 DEF Accounted, Committed, NoChild, Final
    <2> QED
      BY <1>1, <1>3, <2>1, <2>3, SoleMoved
  <1> QED
    BY <1>5, <1>6

LEMMA SoleCrash ==
  ASSUME RunInv, NEW p \in Operators, Sole(p), Crash(p)
  PROVE  Sole(p)' /\ Promise
  <1>1. PICK c, d : c = child[p] /\ d = ledger
    OBVIOUS
  <1>2. /\ pc' = [pc EXCEPT ![p] = "idle"] /\ mem' = [mem EXCEPT ![p] = NoLedger]
        /\ child' = [child EXCEPT ![p] = c] /\ ledger' = d /\ d \in Ledgers
        /\ UNCHANGED accesses
    BY <1>1, AtSole DEF Crash, Exit, Goto, disk
  <1>3. Accounted("idle", NoLedger, c, d, accesses)
    BY <1>1, SoleAtRest
  <1> QED
    BY <1>1, <1>2, <1>3, SoleMoved

LEMMA SoleUndisturbed ==
  ASSUME RunInv, NEW p \in Operators, Sole(p), UNCHANGED <<ledger, pc, mem, child, accesses>>
  PROVE  Sole(p)' /\ Promise
  BY DEF Sole, Promise, Abstract!vars

LEMMA SoleStep ==
  ASSUME RunInv, NEW p \in Operators, Sole(p), Step(p) \/ Crash(p)
  PROVE  Sole(p)' /\ Promise
  <1>1. CASE RunToValidation(p)
    BY <1>1, SoleStart, SoleLaunch, SoleReap, SoleInterrupt, SoleRecord DEF RunToValidation
  <1>2. CASE FinalEvaluate(p)
    BY <1>2, SoleFinal, SoleRecord DEF FinalEvaluate
  <1> QED
    BY <1>1, <1>2, SoleChild, SoleCrash DEF Step

LEMMA CrewInitial == CrewInit => CrewInv /\ (Alone => Abstract!Init)
  <1> SUFFICES ASSUME CrewInit PROVE CrewInv /\ (Alone => Abstract!Init)
    OBVIOUS
  <1>1. RunInv /\ crew \subseteq Operators
    BY RunInitial DEF CrewInit
  <1>2. Abstract!Init
    BY DEF CrewInit, Init, NoLedger, Abstract!Init
  <1>3. ASSUME NEW p \in Operators PROVE Sole(p)
    <2>1. pc[p] = "idle" /\ mem[p] = NoLedger /\ child[p] = NoChild /\ ledger = NoLedger /\ accesses = 0
      BY DEF CrewInit, Init
    <2>2. Accounted(pc[p], mem[p], child[p], ledger, accesses)
      BY <2>1 DEF Accounted, Committed, NoLedger, NoChild, Final
    <2> QED
      BY <2>2 DEF Sole, CrewInit, Init
  <1> QED
    BY <1>1, <1>2, <1>3 DEF CrewInv

LEMMA CrewStep ==
  ASSUME CrewInv, [CrewNext]_<<vars, crew>>
  PROVE  CrewInv' /\ (Alone => Promise)
  <1>1. [Next]_vars /\ UNCHANGED crew
    BY DEF CrewNext, Next, CrewInv
  <1>2. RunInv' /\ crew' \subseteq Operators
    BY <1>1, RunStep DEF CrewInv
  <1>3. ASSUME NEW p \in Operators, crew = {p} PROVE Sole(p)' /\ Promise
    <2>1. RunInv /\ Sole(p)
      BY <1>3 DEF CrewInv
    <2>2. CASE Step(p) \/ Crash(p)
      BY <2>1, <2>2, SoleStep
    <2>3. CASE (\E x \in Alterable : Alter(x)) \/ UNCHANGED <<vars, crew>>
      BY <2>1, <2>3, SoleUndisturbed DEF Alter, vars, disk
    <2> QED
      BY <1>3, <2>2, <2>3 DEF CrewNext
  <1> QED
    BY <1>1, <1>2, <1>3 DEF CrewInv, Alone

\* One operator at a time, killed and restarted wherever that happens, over
\* ledger writes that are lost or late and inputs that drift, performs the
\* one-shot experiment: gates pass, then the attempt is reserved, then the
\* locked partition is opened, each once.
THEOREM AloneIsOneShot == CrewSpec => AloneImplementsOneShot
  <1>1. CrewInv /\ [CrewNext]_<<vars, crew>> =>
           CrewInv' /\ [Alone => Abstract!Next \/ UNCHANGED Abstract!vars]_<<vars, crew>>
    BY CrewStep DEF Promise
  <1> QED
    BY CrewInitial, <1>1, PTL DEF CrewSpec, AloneImplementsOneShot
=============================================================================
