-------------------------- MODULE ComponentProofs ---------------------------
(***************************************************************************)
(* What the governor keeps, for every value of the constants: it spawns    *)
(* once per queuing and leaves refused rows alone. What was saved stays,   *)
(* in chunks, in the register's tables and in the backups. Then the        *)
(* services that judge and look after tasks and the server                 *)
(* (CompletionGate, Watchdogs), and those that begin work (OwnerDispatch,  *)
(* PhasePlan, DirectiveEngine, Remediation).                               *)
(***************************************************************************)
EXTENDS UmrGovernor, ChunkStore, UmrSchema, Backups, CompletionGate, Watchdogs,
        OwnerDispatch, PhasePlan, DirectiveEngine, Remediation,
        FiniteSetTheorems, SequenceTheorems, TLAPS

-----------------------------------------------------------------------------
(* UmrGovernor *)

RowType == [ident : Idents \cup {NoIdent}, status : Statuses \cup {"absent"},
            unit : Units \cup {NoUnit},
            dispatched : BOOLEAN, paused : BOOLEAN]

Dispatcher == [pc : {"idle", "picked", "spawned"},
               row : 0..MaxRows, unit : Units \cup {NoUnit}]

Pass == [pc : {"idle", "read", "writing"}, row : 0..MaxRows,
         unit : Units \cup {NoUnit}, to : Statuses \cup {"none"}]

UnitStates == {"absent", "active", "stopping", "auto_restart", "inactive"}

\* The conjuncts of TypeOK that an action of one party can disturb.
TableOK == rows \in [Rows -> RowType] /\ minted \in 0..MaxRows /\ RowsHaveIdents
SystemdOK ==
    /\ unit \in [Units -> UnitStates]
    /\ report \in [Units -> {"in_progress", "failed", "blocked", "done"}]
    /\ restarts \in [Units -> 0..MaxRestarts]
    /\ bridge \in [Units -> 0..MaxRows]
    /\ RestartsLeft
GovOK ==
    /\ lock \in Governors \cup {NoGovernor}
    /\ gov \in [Governors -> Dispatcher]
    /\ \A g \in Governors : gov[g].pc # "idle" => gov[g].row \in Rows
SweepOK ==
    /\ sweep \in [Sweepers -> Pass]
    /\ \A s \in Sweepers : sweep[s].pc # "idle" => sweep[s].row \in Rows /\ sweep[s].to \in Statuses
HistoryOK == fresh \in SUBSET Rows /\ lost \in SUBSET Rows

Typed == TableOK /\ SystemdOK /\ GovOK /\ SweepOK /\ HistoryOK

\* The parts are the whole.
LEMMA TypedIsTypeOK == Typed <=> TypeOK /\ RowsHaveIdents /\ RestartsLeft /\ AtWorkOnARow
BY DEF Typed, TypeOK, TableOK, SystemdOK, GovOK, SweepOK, HistoryOK, RowType,
       Dispatcher, Pass, UnitStates, AtWorkOnARow

-----------------------------------------------------------------------------
(* What the writers do to the table *)

\* A write of a status keeps the table well typed.
LEMMA SetStatusTyped ==
    ASSUME TableOK, NEW r, NEW s \in Statuses, SetStatus(r, s)
    PROVE  rows' \in [Rows -> RowType] /\ RowsHaveIdents'
BY DEF TableOK, SetStatus, RowType, RowsHaveIdents

\* A status other than "queued" queues nothing.
LEMMA SetStatusQueued ==
    ASSUME TableOK, NEW r, NEW s \in Statuses, s # "queued", SetStatus(r, s)
    PROVE  Queued' \subseteq Queued
BY DEF TableOK, SetStatus, RowType, Queued

\* A row to be queued again counts as queued anew.
LEMMA RequeueQueued ==
    ASSUME TableOK, HistoryOK, NEW r \in Rows, Requeue(r)
    PROVE  /\ rows' \in [Rows -> RowType] /\ RowsHaveIdents'
           /\ fresh \subseteq fresh' /\ fresh' \in SUBSET Rows
           /\ Queued' \subseteq Queued \cup fresh'
<1>1. CASE rows[r].status = "absent"
  BY <1>1 DEF TableOK, HistoryOK, Requeue, Queued, RowsHaveIdents
<1>2. CASE rows[r].status # "absent"
  <2>1. [rows[r] EXCEPT !.status = "queued", !.dispatched = FALSE] \in RowType
    BY DEF TableOK, RowType, Statuses, ActiveStatuses
  <2>2. [rows[r] EXCEPT !.status = "queued", !.dispatched = FALSE].ident = rows[r].ident
    BY DEF TableOK, RowType
  <2>3. fresh' = fresh \cup {r}
    BY <1>2 DEF Requeue
  <2>4. rows' = [rows EXCEPT ![r] = [rows[r] EXCEPT !.status = "queued", !.dispatched = FALSE]]
    BY <1>2 DEF Requeue
  <2> QED  BY <1>2, <2>1, <2>2, <2>3, <2>4 DEF TableOK, HistoryOK, RowsHaveIdents, Queued
<1> QED  BY <1>1, <1>2

-----------------------------------------------------------------------------
(* Types *)

\* The initial table is well typed.
LEMMA TypedInit == Init => Typed
BY MaxRowsAssumption, MaxRestartsAssumption
   DEF Init, Typed, TableOK, SystemdOK, GovOK, SweepOK, HistoryOK, RowType, NoRow,
       Dispatcher, Pass, UnitStates, IdleGov, IdleSweep, RestartsLeft, RowsHaveIdents, Rows

\* A submission keeps the table well typed.
LEMMA SubmissionTyped ==
    ASSUME Typed, NEW i \in Idents, Submission(i)
    PROVE  Typed'
<1> USE DEF Typed, TableOK, HistoryOK
<1>1. TargetUnit[i] \in Units \cup {NoUnit}
  BY TargetUnitAssumption
<1>2. ASSUME NEW st \in Statuses, Insert(i, st)
      PROVE  TableOK' /\ minted + 1 \in Rows
  <2> DEFINE new == [NoRow EXCEPT !.ident = i, !.status = st, !.unit = TargetUnit[i]]
  <2>1. new \in RowType /\ new.ident = i
    BY <1>1 DEF NoRow, RowType
  <2>2. minted + 1 \in Rows /\ minted + 1 \in 0..MaxRows
    BY <1>2, MaxRowsAssumption DEF Insert, Rows
  <2>3. rows' = [rows EXCEPT ![minted + 1] = new] /\ minted' = minted + 1
    BY <1>2 DEF Insert
  <2> HIDE DEF new
  <2> QED  BY <2>1, <2>2, <2>3 DEF RowsHaveIdents
<1>3. "queued" \in Statuses /\ "rejected_duplicate" \in Statuses
  BY DEF Statuses, ActiveStatuses
<1>4. CASE SubmitRejected(i)
  BY <1>2, <1>3, <1>4 DEF SubmitRejected, systemd, history, SystemdOK, GovOK, SweepOK, RestartsLeft, RowsHaveIdents
<1>5. CASE SubmitNew(i)
  BY <1>2, <1>3, <1>5 DEF SubmitNew, systemd, SystemdOK, GovOK, SweepOK, RestartsLeft, RowsHaveIdents
<1>6. CASE SubmitReuse(i)
  <2>1. PICK r \in Rows :
          /\ IsNewest(r, PriorRows(i))
          /\ rows' = [rows EXCEPT ![r] = [@ EXCEPT !.status = "queued",
                                                   !.unit = TargetUnit[i],
                                                   !.paused = FALSE]]
          /\ fresh' = fresh \cup {r}
    BY <1>6 DEF SubmitReuse
  <2>2. [rows[r] EXCEPT !.status = "queued", !.unit = TargetUnit[i], !.paused = FALSE] \in RowType
    BY <1>1, <1>3 DEF RowType
  <2>3. [rows[r] EXCEPT !.status = "queued", !.unit = TargetUnit[i], !.paused = FALSE].ident = rows[r].ident
    BY DEF RowType
  <2>4. rows[r].ident = i
    BY <2>1 DEF IsNewest, PriorRows, RowsOf
  <2>5. TableOK'
    BY <1>6, <2>1, <2>2, <2>3, <2>4 DEF SubmitReuse, RowsHaveIdents
  <2> QED  BY <1>6, <2>1, <2>5 DEF SubmitReuse, systemd, SystemdOK, GovOK, SweepOK, RestartsLeft, RowsHaveIdents
<1> QED  BY <1>4, <1>5, <1>6 DEF Submission

\* So does an operator.
LEMMA OperatorTyped ==
    ASSUME Typed, NEW r \in Rows, Operator(r)
    PROVE  Typed'
<1>1. rows' \in [Rows -> RowType] /\ RowsHaveIdents'
  <2>1. NoRow \in RowType /\ NoRow.status = "absent"
    BY DEF NoRow, RowType
  <2>2. CASE StopTask(r)
    BY <2>2 DEF StopTask, Typed, TableOK, RowType, RowsHaveIdents
  <2>3. CASE ResumeTask(r)
    BY <2>3 DEF ResumeTask, Typed, TableOK, RowType, RowsHaveIdents
  <2>4. CASE DeleteTask(r)
    BY <2>1, <2>4 DEF DeleteTask, Typed, TableOK, RowsHaveIdents
  <2> QED  BY <2>2, <2>3, <2>4 DEF Operator
<1> QED
  BY <1>1 DEF Operator, StopTask, ResumeTask, DeleteTask, Typed, TableOK, HistoryOK,
              systemd, history, SystemdOK, GovOK, SweepOK, RestartsLeft, RowsHaveIdents

-----------------------------------------------------------------------------
(* Types, dispatchers *)

\* The record of a spawn is a row.
LEMMA OutcomeTyped ==
    ASSUME NEW row \in RowType, NEW u \in Units \cup {NoUnit}
    PROVE  /\ Outcome(row, u) \in RowType
           /\ Outcome(row, u).ident = row.ident
           /\ Outcome(row, u).status # "queued"
<1>1. CASE u = NoUnit
  BY <1>1 DEF Outcome, RowType, Statuses, ActiveStatuses
<1>2. CASE u # NoUnit
  BY <1>2 DEF Outcome, RowType, Statuses, ActiveStatuses
<1> QED  BY <1>1, <1>2

\* A dispatcher that lets go of the flock is idle.
LEMMA FreeTyped ==
    ASSUME GovOK, NEW g \in Governors, Free(g)
    PROVE  GovOK'
BY MaxRowsAssumption DEF GovOK, Free, IdleGov, Dispatcher

\* A dispatcher that has spawned is on the same row.
LEMMA SpawnOnTyped ==
    ASSUME Typed, NEW g \in Governors, gov[g].pc = "picked",
           NEW u \in Units \cup {NoUnit}, SpawnOn(g, u)
    PROVE  TableOK' /\ GovOK' /\ HistoryOK' /\ SweepOK'
<1>1. [gov[g] EXCEPT !.pc = "spawned", !.unit = u] \in Dispatcher
  BY DEF Typed, GovOK, Dispatcher
<1>2. GovOK'
  BY <1>1 DEF SpawnOn, Typed, GovOK, Dispatcher
<1> QED  BY <1>2 DEF SpawnOn, Typed, table, TableOK, HistoryOK, SweepOK, RowsHaveIdents

\* A spawn keeps the units well typed.
LEMMA SpawnTyped ==
    ASSUME Typed, NEW g \in Governors, Spawn(g)
    PROVE  Typed'
<1>0. gov[g].pc = "picked"
  BY DEF Spawn
<1>1. CASE SpawnTask(g)
  <2>1. PICK u \in Units : unit[u] = "absent" /\ unit' = [unit EXCEPT ![u] = "active"] /\ SpawnOn(g, u)
    BY <1>1 DEF SpawnTask
  <2>2. SystemdOK'
    BY <1>1, <2>1 DEF SpawnTask, SpawnOn, Typed, SystemdOK, UnitStates, RestartsLeft, RowsHaveIdents
  <2> QED  BY <1>0, <1>1, <2>1, <2>2, SpawnOnTyped DEF SpawnTask, Typed
<1>2. CASE SpawnAction(g)
  <2>1. PICK u \in Units :
          /\ unit' = [unit EXCEPT ![u] = "active"]
          /\ report' = [report EXCEPT ![u] = IF unit[u] = "active" THEN @ ELSE "in_progress"]
          /\ SpawnOn(g, u)
    BY <1>2 DEF SpawnAction
  <2>2. SystemdOK'
    BY <1>2, <2>1 DEF SpawnAction, SpawnOn, Typed, SystemdOK, UnitStates, RestartsLeft, RowsHaveIdents
  <2> QED  BY <1>0, <1>2, <2>1, <2>2, SpawnOnTyped DEF SpawnAction, Typed
<1>3. CASE SpawnFails(g)
  <2>1. SystemdOK'
    BY <1>3 DEF SpawnFails, SpawnOn, Typed, SystemdOK, RestartsLeft, RowsHaveIdents
  <2> QED  BY <1>0, <1>3, <2>1, SpawnOnTyped DEF SpawnFails, Typed
<1> QED  BY <1>1, <1>2, <1>3 DEF Spawn

\* Every step of a dispatcher keeps everything well typed.
LEMMA DispatchTyped ==
    ASSUME Typed, NEW g \in Governors, Dispatch(g)
    PROVE  Typed'
<1> USE DEF Typed
<1>1. CASE Pick(g)
  <2>1. PICK r \in Rows :
          /\ rows[r].status = "queued"
          /\ gov' = [gov EXCEPT ![g] = [pc |-> "picked", row |-> r,
                                        unit |-> TargetUnit[rows[r].ident]]]
    BY <1>1 DEF Pick, Queued
  <2>2. TargetUnit[rows[r].ident] \in Units \cup {NoUnit}
    BY <2>1, TargetUnitAssumption DEF TableOK, RowsHaveIdents
  <2>3. r \in 0..MaxRows
    BY MaxRowsAssumption DEF Rows
  <2>4. GovOK'
    BY <1>1, <2>1, <2>2, <2>3 DEF Pick, GovOK, Dispatcher
  <2> QED  BY <1>1, <2>4 DEF Pick, table, systemd, history, TableOK, SystemdOK, SweepOK, HistoryOK,
                             RestartsLeft, RowsHaveIdents
<1>2. CASE Deferred(g)
  BY <1>2, FreeTyped DEF Deferred, table, systemd, history, TableOK, SystemdOK, SweepOK, HistoryOK, RestartsLeft, RowsHaveIdents
<1>3. CASE Refused(g)
  <2>1. rows' \in [Rows -> RowType] /\ RowsHaveIdents'
    BY <1>3, SetStatusTyped DEF Refused, Statuses
  <2> QED  BY <1>3, <2>1, FreeTyped DEF Refused, systemd, history, TableOK, SystemdOK, SweepOK, HistoryOK, RestartsLeft, RowsHaveIdents
<1>4. CASE Spawn(g)
  BY <1>4, SpawnTyped
<1>5. CASE Record(g)
  <2>1. gov[g].row \in Rows /\ gov[g].unit \in Units \cup {NoUnit}
    BY <1>5 DEF Record, GovOK, Dispatcher
  <2>2. CASE rows[gov[g].row].status = "absent"
    <3>1. TableOK'
      BY <1>5, <2>2 DEF Record, TableOK, RowsHaveIdents
    <3> QED  BY <1>5, <3>1, FreeTyped DEF Record, systemd, history, SystemdOK, SweepOK, HistoryOK, RestartsLeft, RowsHaveIdents
  <2>3. CASE rows[gov[g].row].status # "absent"
    <3>1. Outcome(rows[gov[g].row], gov[g].unit) \in RowType
      BY <2>1, OutcomeTyped DEF TableOK
    <3>2. Outcome(rows[gov[g].row], gov[g].unit).ident = rows[gov[g].row].ident
      BY <2>1, OutcomeTyped DEF TableOK
    <3>3. rows' = [rows EXCEPT ![gov[g].row] = Outcome(rows[gov[g].row], gov[g].unit)] /\ minted' = minted
      BY <1>5, <2>3 DEF Record
    <3>4. TableOK'
      BY <2>1, <2>3, <3>1, <3>2, <3>3 DEF TableOK, RowsHaveIdents
    <3> QED  BY <1>5, <3>4, FreeTyped DEF Record, systemd, history, SystemdOK, SweepOK, HistoryOK, RestartsLeft, RowsHaveIdents
  <2> QED  BY <2>2, <2>3
<1>6. CASE GovernorDies(g)
  BY <1>6, FreeTyped DEF GovernorDies, GovOK, table, systemd, TableOK, SystemdOK, SweepOK, HistoryOK, RestartsLeft, RowsHaveIdents
<1> QED  BY <1>1, <1>2, <1>3, <1>4, <1>5, <1>6 DEF Dispatch

-----------------------------------------------------------------------------
(* Types, units and sweeps *)

\* A stop ends down, or waiting for a restart that is left.
LEMMA StopCompletesTyped ==
    ASSUME SystemdOK, NEW u \in Units, StopCompletes(u), restarts' = restarts
    PROVE  unit' \in [Units -> UnitStates] /\ RestartsLeft'
BY DEF StopCompletes, SystemdOK, UnitStates, RestartsLeft

\* A step of a worker unit keeps everything well typed.
LEMMA UnitStepTyped ==
    ASSUME Typed, NEW u \in Units, UnitStep(u)
    PROVE  Typed'
<1> USE DEF Typed
<1>1. ASSUME NEW outcome \in {"failed", "blocked", "done", "killed"}, WorkerStops(u, outcome)
      PROVE  Typed'
  <2>1. (IF outcome = "killed" THEN report[u] ELSE outcome) \in {"in_progress", "failed", "blocked", "done"}
    BY DEF SystemdOK
  <2>2. report' = [report EXCEPT ![u] = IF outcome = "killed" THEN report[u] ELSE outcome]
    BY <1>1 DEF WorkerStops, SystemdOK
  <2>3. SystemdOK'
    BY <1>1, <2>1, <2>2 DEF WorkerStops, SystemdOK, UnitStates, RestartsLeft
  <2> QED  BY <1>1, <2>3 DEF WorkerStops, table, history, TableOK, GovOK, SweepOK, HistoryOK, RowsHaveIdents
<1>2. CASE BridgeReads(u)
  <2>1. CASE \E r \in ToBridge(u) : bridge' = [bridge EXCEPT ![u] = r] /\ UNCHANGED unit
    <3>1. PICK r \in ToBridge(u) : bridge' = [bridge EXCEPT ![u] = r]
      BY <2>1
    <3>2. r \in 0..MaxRows
      BY MaxRowsAssumption DEF ToBridge, BoundRows, Rows
    <3> QED  BY <1>2, <2>1, <3>1, <3>2 DEF BridgeReads, table, history, TableOK, SystemdOK, GovOK,
                SweepOK, HistoryOK, RestartsLeft, RowsHaveIdents
  <2>2. CASE StopCompletes(u) /\ UNCHANGED bridge
    BY <1>2, <2>2, StopCompletesTyped DEF BridgeReads, table, history, TableOK, SystemdOK, GovOK,
                SweepOK, HistoryOK, RowsHaveIdents
  <2> QED  BY <1>2, <2>1, <2>2 DEF BridgeReads
<1>3. CASE BridgeWrites(u)
  <2>1. rows' \in [Rows -> RowType] /\ RowsHaveIdents'
    BY <1>3, SetStatusTyped DEF BridgeWrites, Statuses
  <2>2. unit' \in [Units -> UnitStates] /\ RestartsLeft'
    BY <1>3, StopCompletesTyped DEF BridgeWrites
  <2>3. bridge' \in [Units -> 0..MaxRows]
    BY <1>3, MaxRowsAssumption DEF BridgeWrites, SystemdOK
  <2>4. SystemdOK'
    BY <1>3, <2>2, <2>3 DEF BridgeWrites, SystemdOK
  <2> QED  BY <1>3, <2>1, <2>4 DEF BridgeWrites, history, TableOK, GovOK, SweepOK, HistoryOK
<1>4. CASE AutoRestart(u)
  <2>1. restarts[u] + 1 \in 0..MaxRestarts
    BY <1>4, MaxRestartsAssumption DEF AutoRestart, SystemdOK, RestartsLeft
  <2>2. SystemdOK'
    BY <1>4, <2>1 DEF AutoRestart, SystemdOK, UnitStates, RestartsLeft
  <2> QED  BY <1>4, <2>2 DEF AutoRestart, table, history, TableOK, GovOK, SweepOK, HistoryOK, RowsHaveIdents
<1> QED  BY <1>1, <1>2, <1>3, <1>4 DEF UnitStep

\* A verdict on a row is a status to write.
LEMMA ConcludesTyped ==
    ASSUME SweepOK, NEW s \in Sweepers, NEW to \in Statuses, sweep[s].pc # "idle", Concludes(s, to)
    PROVE  SweepOK'
BY DEF SweepOK, Concludes, Pass

\* A pass that ends is idle.
LEMMA IdleSweepTyped ==
    ASSUME SweepOK, NEW s \in Sweepers, sweep' = [sweep EXCEPT ![s] = IdleSweep]
    PROVE  SweepOK'
BY MaxRowsAssumption DEF SweepOK, IdleSweep, Pass

\* A step of a sweep keeps everything well typed.
LEMMA SweepTyped ==
    ASSUME Typed, NEW s \in Sweepers,
           SweepActs(s) \/ \E r \in Rows : SweepReads(s, r)
    PROVE  Typed'
<1> USE DEF Typed
<1> DEFINE Rest == TableOK' /\ SystemdOK' /\ GovOK' /\ HistoryOK'
<1>1. ASSUME NEW r \in Rows, SweepReads(s, r)
      PROVE  Typed'
  <2>1. [pc |-> "read", row |-> r, unit |-> rows[r].unit, to |-> rows[r].status] \in Pass
    BY <1>1, MaxRowsAssumption DEF SweepReads, Pass, Statuses, ActiveStatuses, Rows
  <2>2. rows[r].status \in Statuses
    BY <1>1 DEF SweepReads, Statuses, ActiveStatuses
  <2>3. SweepOK'
    BY <1>1, <2>1, <2>2 DEF SweepReads, SweepOK
  <2> QED  BY <1>1, <2>3 DEF SweepReads, table, systemd, history, TableOK, SystemdOK, GovOK,
              HistoryOK, RestartsLeft, RowsHaveIdents
<1>2. CASE JudgesDeadWorker(s)
  <2>1. SweepOK'
    BY <1>2, ConcludesTyped DEF JudgesDeadWorker, DeadWorkerVerdicts, WithoutEvidence,
       Statuses, ActiveStatuses
  <2> QED  BY <1>2, <2>1 DEF JudgesDeadWorker, table, systemd, history, TableOK, SystemdOK, GovOK,
              HistoryOK, RestartsLeft, RowsHaveIdents
<1>3. CASE JudgesStaleHeartbeat(s)
  <2>1. ExitStatus(sweep[s].unit) \subseteq Statuses
    BY DEF ExitStatus, Statuses
  <2>2. SweepOK'
    BY <1>3, <2>1, ConcludesTyped DEF JudgesStaleHeartbeat
  <2> QED  BY <1>3, <2>2 DEF JudgesStaleHeartbeat, table, systemd, history, TableOK, SystemdOK, GovOK,
              HistoryOK, RestartsLeft, RowsHaveIdents
<1>4. CASE SendsSigterm(s)
  <2>1. SweepOK'
    BY <1>4, ConcludesTyped DEF SendsSigterm, Statuses
  <2> QED  BY <1>4, <2>1 DEF SendsSigterm, table, systemd, history, TableOK, SystemdOK, GovOK,
              HistoryOK, RestartsLeft, RowsHaveIdents
<1>5. CASE SendsSigkill(s)
  <2>1. SweepOK'
    BY <1>5, ConcludesTyped DEF SendsSigkill, Statuses
  <2> QED  BY <1>5, <2>1 DEF SendsSigkill, table, history, TableOK, SystemdOK, GovOK, HistoryOK,
              UnitStates, RestartsLeft, RowsHaveIdents
<1>6. CASE SweepSkips(s)
  BY <1>6, IdleSweepTyped DEF SweepSkips, table, systemd, history, TableOK, SystemdOK, GovOK,
              HistoryOK, RestartsLeft, RowsHaveIdents
<1>7. CASE SweepWrites(s)
  <2>1. sweep[s].row \in Rows /\ sweep[s].to \in Statuses
    BY <1>7 DEF SweepWrites, SweepOK
  <2>2. rows' \in [Rows -> RowType] /\ RowsHaveIdents' /\ fresh' \in SUBSET Rows
    BY <1>7, <2>1, RequeueQueued, SetStatusTyped DEF SweepWrites, HistoryOK
  <2> QED  BY <1>7, <2>2, IdleSweepTyped DEF SweepWrites, systemd, TableOK, SystemdOK, GovOK,
              HistoryOK, RestartsLeft
<1> QED  BY <1>1, <1>2, <1>3, <1>4, <1>5, <1>6, <1>7 DEF SweepActs

\* Every step keeps everything well typed.
LEMMA TypedNext == Typed /\ [Next]_vars => Typed'
<1> SUFFICES ASSUME Typed, [Next]_vars
             PROVE  Typed'
  OBVIOUS
<1>1. CASE UNCHANGED vars
  BY <1>1 DEF vars, Typed, TableOK, SystemdOK, GovOK, SweepOK, HistoryOK, RestartsLeft, RowsHaveIdents
<1> QED
  BY <1>1, SubmissionTyped, OperatorTyped, DispatchTyped, UnitStepTyped, SweepTyped DEF Next

\* The variables keep their types, and units restart within their limit, in
\* every reachable state.
THEOREM TypeCorrect == Spec => []TypeOK
<1>1. Typed => TypeOK
  BY TypedIsTypeOK
<1> QED  BY <1>1, TypedInit, TypedNext, PTL DEF Spec

-----------------------------------------------------------------------------
(* The flock and what it protects *)

FreshInv == LockInv /\ QueuedIsFresh /\ PickedIsFresh

\* Whoever does not hold the flock sees the critical section's state unchanged.
LEMMA OthersKeepFresh ==
    ASSUME Typed, FreshInv, gov' = gov, lock' = lock, lost' = lost,
           fresh \subseteq fresh', Queued' \subseteq Queued \cup fresh'
    PROVE  FreshInv'
<1>1. Unrecorded' = Unrecorded
  BY DEF Unrecorded
<1> QED  BY <1>1 DEF FreshInv, LockInv, QueuedIsFresh, PickedIsFresh

\* A submission queues rows anew, and only rows it inserts or revives.
LEMMA SubmissionFresh ==
    ASSUME Typed, FreshInv, NEW i \in Idents, Submission(i)
    PROVE  FreshInv'
<1>1. ASSUME NEW st \in Statuses, Insert(i, st)
      PROVE  Queued' \subseteq Queued \cup (IF st = "queued" THEN {minted + 1} ELSE {})
  <2>1. minted + 1 \in Rows
    BY <1>1, MaxRowsAssumption DEF Insert, Rows, Typed, TableOK
  <2> QED  BY <1>1, <2>1 DEF Insert, Queued, NoRow, Typed, TableOK, RowType
<1>2. CASE SubmitRejected(i)
  <2>1. Queued' \subseteq Queued
    BY <1>1, <1>2 DEF SubmitRejected, Statuses
  <2> QED  BY <1>2, <2>1, OthersKeepFresh DEF SubmitRejected, history
<1>3. CASE SubmitNew(i)
  <2>1. Queued' \subseteq Queued \cup fresh'
    BY <1>1, <1>3 DEF SubmitNew, Statuses, ActiveStatuses
  <2> QED  BY <1>3, <2>1, OthersKeepFresh DEF SubmitNew
<1>4. CASE SubmitReuse(i)
  <2>1. Queued' \subseteq Queued \cup fresh'
    BY <1>4 DEF SubmitReuse, Queued, Typed, TableOK, RowType
  <2> QED  BY <1>4, <2>1, OthersKeepFresh DEF SubmitReuse
<1> QED  BY <1>2, <1>3, <1>4 DEF Submission

\* An operator queues nothing.
LEMMA OperatorFresh ==
    ASSUME Typed, FreshInv, NEW r \in Rows, Operator(r)
    PROVE  FreshInv'
<1>1. Queued' \subseteq Queued
  BY DEF Operator, StopTask, ResumeTask, DeleteTask, Queued, NoRow, Typed, TableOK, RowType
<1> QED  BY <1>1, OthersKeepFresh DEF Operator, StopTask, ResumeTask, DeleteTask, history

\* Nor does a worker unit or its stop hook.
LEMMA UnitStepFresh ==
    ASSUME Typed, FreshInv, NEW u \in Units, UnitStep(u)
    PROVE  FreshInv'
<1>1. Queued' \subseteq Queued
  <2>1. CASE BridgeWrites(u)
    BY <2>1, SetStatusQueued DEF BridgeWrites, Statuses, Typed
  <2>2. CASE rows' = rows
    BY <2>2 DEF Queued
  <2> QED  BY <2>1, <2>2 DEF UnitStep, WorkerStops, BridgeReads, AutoRestart, table
<1> QED
  BY <1>1, OthersKeepFresh DEF UnitStep, WorkerStops, BridgeReads, BridgeWrites, AutoRestart, history

\* A sweep that queues a row queues it anew.
LEMMA SweepFresh ==
    ASSUME Typed, FreshInv, NEW s \in Sweepers,
           SweepActs(s) \/ \E r \in Rows : SweepReads(s, r)
    PROVE  FreshInv'
<1>1. CASE SweepWrites(s)
  <2>1. sweep[s].row \in Rows /\ sweep[s].to \in Statuses
    BY <1>1 DEF SweepWrites, Typed, SweepOK
  <2>2. fresh \subseteq fresh' /\ Queued' \subseteq Queued \cup fresh'
    BY <1>1, <2>1, RequeueQueued, SetStatusQueued DEF SweepWrites, Typed
  <2> QED  BY <1>1, <2>2, OthersKeepFresh DEF SweepWrites
<1>2. CASE rows' = rows /\ UNCHANGED <<gov, lock, history>>
  BY <1>2, OthersKeepFresh DEF Queued, history
<1> QED
  BY <1>1, <1>2 DEF SweepActs, SweepReads, JudgesDeadWorker, JudgesStaleHeartbeat, SendsSigterm,
                    SendsSigkill, SweepSkips, table

-----------------------------------------------------------------------------
(* The dispatcher's own steps *)

\* The holder's row is the only one whose record can be due.
LEMMA OneAtWork ==
    ASSUME Typed, FreshInv, NEW g \in Governors, gov[g].pc # "idle"
    PROVE  /\ lock = g
           /\ \A h \in Governors : h # g => gov[h].pc = "idle"
           /\ Unrecorded = IF gov[g].pc = "spawned" THEN {gov[g].row} ELSE {}
<1>1. lock = g
  BY DEF FreshInv, LockInv
<1>2. \A h \in Governors : h # g => gov[h].pc = "idle"
  BY <1>1 DEF FreshInv, LockInv
<1> QED  BY <1>1, <1>2 DEF Unrecorded

\* When the holder lets go, no record is due any more.
LEMMA FreeFresh ==
    ASSUME Typed, FreshInv, NEW g \in Governors, gov[g].pc # "idle", Free(g),
           Queued' \subseteq fresh' \cup lost'
    PROVE  FreshInv'
<1>1. \A h \in Governors : gov'[h].pc = "idle"
  BY OneAtWork DEF Free, IdleGov, Typed, GovOK
<1>2. lock' = NoGovernor
  BY DEF Free
<1> QED  BY <1>1, <1>2, NullsAssumption DEF FreshInv, LockInv, QueuedIsFresh, PickedIsFresh

\* The holder spawns for the row it chose, and owes its record.
LEMMA SpawnFresh ==
    ASSUME Typed, FreshInv, NEW g \in Governors, gov[g].pc = "picked",
           NEW u \in Units \cup {NoUnit}, SpawnOn(g, u)
    PROVE  FreshInv'
<1>1. /\ gov'[g].pc = "spawned" /\ gov'[g].row = gov[g].row
      /\ \A h \in Governors : h # g => gov'[h].pc = "idle"
  BY OneAtWork DEF SpawnOn, Typed, GovOK, Dispatcher
<1>2. Unrecorded' = {gov[g].row}
  BY <1>1 DEF Unrecorded
<1>3. Unrecorded = {}
  BY OneAtWork
<1>4. Queued' = Queued /\ fresh' = fresh \ {gov[g].row} /\ lost' = lost /\ lock' = lock
  BY DEF SpawnOn, table, Queued
<1>5. lock = g
  BY OneAtWork
<1> QED  BY <1>1, <1>2, <1>3, <1>4, <1>5 DEF FreshInv, LockInv, QueuedIsFresh, PickedIsFresh

\* A dispatcher keeps what is said of queued and chosen rows.
LEMMA DispatchFresh ==
    ASSUME Typed, FreshInv, NEW g \in Governors, Dispatch(g)
    PROVE  FreshInv'
<1>1. CASE Pick(g)
  <2>1. \A h \in Governors : gov[h].pc = "idle"
    BY <1>1, NullsAssumption DEF Pick, FreshInv, LockInv
  <2>2. PICK r \in Queued : /\ gov'[g].pc = "picked" /\ gov'[g].row = r
                            /\ \A h \in Governors : h # g => gov'[h] = gov[h]
    BY <1>1 DEF Pick, Typed, GovOK
  <2>3. Unrecorded = {} /\ Unrecorded' = {}
    BY <2>1, <2>2 DEF Unrecorded
  <2>4. Queued' = Queued /\ fresh' = fresh /\ lost' = lost /\ lock' = g
    BY <1>1 DEF Pick, table, history, Queued
  <2> QED  BY <2>1, <2>2, <2>3, <2>4 DEF FreshInv, LockInv, QueuedIsFresh, PickedIsFresh
<1>2. CASE Deferred(g)
  <2>1. Queued' = Queued /\ fresh' = fresh /\ lost' = lost
    BY <1>2 DEF Deferred, table, history, Queued
  <2> QED  BY <1>2, <2>1, OneAtWork, FreeFresh DEF Deferred, FreshInv, QueuedIsFresh
<1>3. CASE Refused(g)
  <2>1. Queued' \subseteq Queued /\ fresh' = fresh /\ lost' = lost
    BY <1>3, SetStatusQueued DEF Refused, history, Statuses, Typed
  <2> QED  BY <1>3, <2>1, OneAtWork, FreeFresh DEF Refused, FreshInv, QueuedIsFresh
<1>4. CASE Spawn(g)
  BY <1>4, SpawnFresh DEF Spawn, SpawnTask, SpawnAction, SpawnFails
<1>5. CASE Record(g)
  <2>1. gov[g].row \in Rows /\ gov[g].unit \in Units \cup {NoUnit}
    BY <1>5 DEF Record, Typed, GovOK, Dispatcher
  <2>2. Outcome(rows[gov[g].row], gov[g].unit).status # "queued"
    BY <2>1, OutcomeTyped DEF Typed, TableOK
  <2>3. Queued' \subseteq Queued \ {gov[g].row}
    BY <1>5, <2>1, <2>2 DEF Record, Queued, Typed, TableOK
  <2>4. fresh' = fresh /\ lost' = lost
    BY <1>5 DEF Record, history
  <2>5. Queued' \subseteq fresh' \cup lost'
    BY <1>5, <2>3, <2>4, OneAtWork DEF Record, FreshInv, QueuedIsFresh
  <2> QED  BY <1>5, <2>5, FreeFresh DEF Record
<1>6. CASE GovernorDies(g)
  <2>1. Queued' = Queued /\ fresh' = fresh
    BY <1>6 DEF GovernorDies, table, Queued
  <2>2. Unrecorded \cup lost \subseteq lost'
    BY <1>6, OneAtWork DEF GovernorDies
  <2> QED  BY <1>6, <2>1, <2>2, FreeFresh DEF GovernorDies, FreshInv, QueuedIsFresh
<1> QED  BY <1>1, <1>2, <1>3, <1>4, <1>5, <1>6 DEF Dispatch

-----------------------------------------------------------------------------
\* The strengthened invariant holds at the start.
LEMMA SpawnInvInit == Init => SpawnInv
<1> SUFFICES ASSUME Init PROVE SpawnInv
  OBVIOUS
<1>1. Queued = {}
  BY DEF Init, Queued, NoRow
<1>2. FreshInv
  BY <1>1, NullsAssumption DEF Init, FreshInv, LockInv, QueuedIsFresh, PickedIsFresh, IdleGov
<1> QED  BY <1>2, TypedInit, TypedIsTypeOK DEF SpawnInv, FreshInv

\* Every step preserves it.
LEMMA SpawnInvNext == SpawnInv /\ [Next]_vars => SpawnInv'
<1> SUFFICES ASSUME SpawnInv, [Next]_vars PROVE SpawnInv'
  OBVIOUS
<1>1. Typed /\ FreshInv
  BY TypedIsTypeOK DEF SpawnInv, FreshInv
<1>2. Typed'
  BY <1>1, TypedNext
<1>3. FreshInv'
  <2>1. CASE UNCHANGED vars
    BY <1>1, <2>1, OthersKeepFresh DEF vars, Queued
  <2> QED
    BY <1>1, <2>1, SubmissionFresh, OperatorFresh, DispatchFresh, UnitStepFresh, SweepFresh DEF Next
<1>4. TypeOK' /\ RowsHaveIdents' /\ RestartsLeft' /\ AtWorkOnARow'
  BY <1>2 DEF Typed, TypeOK, TableOK, SystemdOK, GovOK, SweepOK, HistoryOK, RowType,
              Dispatcher, Pass, UnitStates, AtWorkOnARow
<1> QED  BY <1>3, <1>4 DEF SpawnInv, FreshInv

\* Whatever the sweeps, operators and submitters write meanwhile, a dispatcher
\* spawns for a row once each time it is queued, unless one died between a spawn
\* and its record.
THEOREM OneSpawnPerQueuing == Spec => SpawnOncePerQueuing
<1>1. SpawnInv => \A g \in Governors :
          gov[g].pc = "picked" /\ gov'[g].pc = "spawned" => gov[g].row \in fresh \cup lost
  BY DEF SpawnInv, PickedIsFresh
<1>2. Spec => []SpawnInv
  BY SpawnInvInit, SpawnInvNext, PTL DEF Spec
<1> QED  BY <1>1, <1>2, PTL DEF SpawnOncePerQueuing

-----------------------------------------------------------------------------
(* Refused submissions *)

\* A refused submission, and the rows that somebody is at work on.
IsRefusal(r) ==
    rows[r].status = "rejected_duplicate" /\ ~rows[r].dispatched /\ r \notin fresh \cup lost
HeldRow(r) ==
    \/ \E g \in Governors : gov[g].pc # "idle" /\ gov[g].row = r
    \/ \E s \in Sweepers : sweep[s].pc # "idle" /\ sweep[s].row = r
    \/ \E u \in Units : bridge[u] = r

UnmintedFree ==
    \A r \in Rows : /\ r > minted => /\ rows[r].status = "absent" /\ rows[r].ident = NoIdent
                                   /\ ~rows[r].paused
                    /\ HeldRow(r) => r <= minted
RefusalsFree == \A r \in Rows : IsRefusal(r) => ~HeldRow(r) /\ ~rows[r].paused
PickedNotRefused ==
    \A g \in Governors : gov[g].pc = "picked" => rows[gov[g].row].status # "rejected_duplicate"
NothingRefusedLate ==
    \A s \in Sweepers : sweep[s].pc = "writing" => sweep[s].to # "rejected_duplicate"

\* Nobody is at work on a refused row: the dispatcher picks no such row, and what sweeps and
\* hooks read of a row says that it runs.
RefusedInv == UnmintedFree /\ RefusalsFree /\ PickedNotRefused /\ NothingRefusedLate

Final == \A r \in Rows : IsRefusal(r) => rows'[r] = rows[r]

\* What a step must do for refusals to stay free.
LEMMA RefusalsStayFree ==
    ASSUME Typed, RefusedInv, Final, minted' \in {minted, minted + 1},
           \A r \in Rows : r > minted' => rows'[r] = rows[r],
           \A r \in Rows : HeldRow(r)' => HeldRow(r) \/ rows[r].status \in {"queued", "running", "sigterm_sent"},
           \A r \in Rows : IsRefusal(r)' => IsRefusal(r) \/ (r = minted + 1 /\ ~rows'[r].paused)
    PROVE  UnmintedFree' /\ RefusalsFree'
<1>0. minted \in Nat
  BY MaxRowsAssumption DEF Typed, TableOK
<1>1. \A r \in Rows : HeldRow(r)' => r <= minted
  BY <1>0 DEF RefusedInv, UnmintedFree, Rows
<1>2. UnmintedFree'
  BY <1>0, <1>1 DEF RefusedInv, UnmintedFree, Rows
<1>3. ASSUME NEW r \in Rows, IsRefusal(r)' PROVE ~HeldRow(r)' /\ ~rows'[r].paused
  <2>1. CASE IsRefusal(r)
    <3>1. rows[r].status = "rejected_duplicate" /\ ~HeldRow(r) /\ ~rows[r].paused
      BY <2>1 DEF IsRefusal, RefusedInv, RefusalsFree
    <3>2. rows'[r] = rows[r]
      BY <2>1 DEF Final
    <3> QED  BY <3>1, <3>2
  <2>2. CASE r = minted + 1 /\ ~rows'[r].paused
    BY <1>0, <1>1, <2>2
  <2> QED  BY <1>3, <2>1, <2>2
<1> QED  BY <1>2, <1>3 DEF RefusalsFree

\* Steps that hold no row anew.
LEMMA HeldStays ==
    ASSUME gov' = gov, sweep' = sweep, bridge' = bridge
    PROVE  \A r \in Rows : HeldRow(r)' => HeldRow(r)
BY DEF HeldRow

LEMMA SubmissionFinal ==
    ASSUME Typed, FreshInv, RefusedInv, NEW i \in Idents, Submission(i)
    PROVE  RefusedInv' /\ Final
<1>0. minted \in Nat /\ rows \in [Rows -> RowType]
  BY MaxRowsAssumption DEF Typed, TableOK
<1>1. /\ gov' = gov /\ sweep' = sweep /\ bridge' = bridge
  BY DEF Submission, SubmitRejected, SubmitNew, SubmitReuse, systemd
<1>2. NothingRefusedLate' /\ \A r \in Rows : HeldRow(r)' => HeldRow(r)
  BY <1>1, HeldStays DEF RefusedInv, NothingRefusedLate
<1>3. ASSUME NEW st \in Statuses, Insert(i, st), fresh \subseteq fresh', lost' = lost
      PROVE  RefusedInv' /\ Final
  <2>1. PICK b \in BOOLEAN : b = FALSE
    OBVIOUS
  <2> DEFINE new == [NoRow EXCEPT !.ident = i, !.status = st, !.unit = TargetUnit[i]]
  <2>2. ~new.paused
    <3>1. NoRow = [ident |-> NoIdent, status |-> "absent", unit |-> NoUnit,
                   dispatched |-> b, paused |-> b]
      BY <2>1, Zenon DEF NoRow
    <3>2. new.paused = b
      BY <3>1
    <3> QED  BY <2>1, <3>2
  <2>3. minted + 1 \in Rows /\ minted' = minted + 1
    BY <1>3, MaxRowsAssumption DEF Insert, Rows, Typed, TableOK
  <2>4. rows' = [rows EXCEPT ![minted + 1] = new]
    BY <1>3 DEF Insert
  <2> HIDE DEF new
  <2>5. rows'[minted + 1] = new /\ \A r \in Rows : r # minted + 1 => rows'[r] = rows[r]
    BY <1>0, <2>3, <2>4
  <2>6. rows[minted + 1].status = "absent"
    BY <1>0, <2>3 DEF RefusedInv, UnmintedFree
  <2>7. Final
    BY <2>5, <2>6 DEF Final, IsRefusal
  <2>8. \A r \in Rows : IsRefusal(r)' => IsRefusal(r) \/ (r = minted + 1 /\ ~rows'[r].paused)
    BY <1>3, <2>2, <2>5 DEF IsRefusal
  <2>9. \A r \in Rows : r > minted' => rows'[r] = rows[r]
    BY <1>0, <2>3, <2>5 DEF Rows
  <2>10. UnmintedFree' /\ RefusalsFree'
    BY <1>2, <2>3, <2>7, <2>8, <2>9, RefusalsStayFree
  <2>11. PickedNotRefused'
    <3> SUFFICES ASSUME NEW g \in Governors, gov[g].pc = "picked"
                 PROVE  rows'[gov[g].row].status # "rejected_duplicate"
      BY <1>1 DEF PickedNotRefused
    <3>1. gov[g].row \in Rows
      BY DEF Typed, GovOK
    <3>2. gov[g].row <= minted
      BY <3>1 DEF RefusedInv, UnmintedFree, HeldRow
    <3>3. gov[g].row # minted + 1
      BY <1>0, <3>1, <3>2 DEF Rows
    <3> QED  BY <2>5, <3>1, <3>3 DEF RefusedInv, PickedNotRefused
  <2> QED  BY <1>2, <2>7, <2>10, <2>11 DEF RefusedInv
<1>4. CASE SubmitRejected(i)
  BY <1>3, <1>4 DEF SubmitRejected, Statuses, history
<1>5. CASE SubmitNew(i)
  BY <1>3, <1>5 DEF SubmitNew, Statuses, ActiveStatuses
<1>6. CASE SubmitReuse(i)
  <2>1. PICK r \in Rows :
          /\ IsNewest(r, PriorRows(i))
          /\ rows' = [rows EXCEPT ![r] = [@ EXCEPT !.status = "queued",
                                                   !.unit = TargetUnit[i],
                                                   !.paused = FALSE]]
          /\ fresh' = fresh \cup {r}
    BY <1>6 DEF SubmitReuse
  <2>2. rows[r].status # "rejected_duplicate"
    BY <2>1 DEF IsNewest, PriorRows
  <2>3. rows'[r].status = "queued" /\ \A q \in Rows : q # r => rows'[q] = rows[q]
    <3> DEFINE new == [rows[r] EXCEPT !.status = "queued", !.unit = TargetUnit[i], !.paused = FALSE]
    <3>1. new.status = "queued"
      BY <1>0 DEF RowType
    <3>2. rows' = [rows EXCEPT ![r] = new]
      BY <2>1, Zenon
    <3> HIDE DEF new
    <3> QED  BY <1>0, <3>1, <3>2
  <2>4. minted' = minted /\ lost' = lost
    BY <1>6 DEF SubmitReuse
  <2>5. Final
    BY <2>2, <2>3 DEF Final, IsRefusal
  <2>6. \A q \in Rows : IsRefusal(q)' => IsRefusal(q)
    BY <2>1, <2>3, <2>4 DEF IsRefusal
  <2>7. ~(r > minted)
    <3>1. rows[r].ident = i /\ i # NoIdent
      BY <2>1, NullsAssumption DEF IsNewest, PriorRows, RowsOf
    <3> QED  BY <3>1 DEF RefusedInv, UnmintedFree
  <2>8. UnmintedFree' /\ RefusalsFree'
    BY <1>2, <2>3, <2>4, <2>5, <2>6, <2>7, RefusalsStayFree
  <2>9. PickedNotRefused'
    BY <1>1, <2>3 DEF RefusedInv, PickedNotRefused, Typed, GovOK
  <2> QED  BY <1>2, <2>5, <2>8, <2>9 DEF RefusedInv
<1> QED  BY <1>4, <1>5, <1>6 DEF Submission

\* Steps that write no row but one that was no refusal, which they leave none.
LEMMA OneRowWritten ==
    ASSUME Typed, RefusedInv, NEW r \in Rows, r <= minted,
           rows[r].status # "rejected_duplicate" \/ HeldRow(r) \/ rows[r].paused \/ r \in fresh \cup lost,
           \A q \in Rows : q # r => rows'[q] = rows[q],
           \A q \in Rows : IsRefusal(q)' => IsRefusal(q),
           minted' = minted,
           \A q \in Rows : HeldRow(q)' => HeldRow(q)
    PROVE  UnmintedFree' /\ RefusalsFree' /\ Final
<1>0. minted \in Nat
  BY MaxRowsAssumption DEF Typed, TableOK
<1>1. ~IsRefusal(r)
  BY DEF RefusedInv, RefusalsFree, IsRefusal
<1>2. Final
  BY <1>1 DEF Final
<1>3. \A q \in Rows : q > minted' => rows'[q] = rows[q]
  BY <1>0 DEF Rows
<1> QED  BY <1>2, <1>3, RefusalsStayFree

\* Steps that leave the rows alone.
LEMMA NoRowWritten ==
    ASSUME Typed, RefusedInv, UNCHANGED table,
           fresh \cup lost \subseteq fresh' \cup lost',
           \A q \in Rows : HeldRow(q)' => HeldRow(q) \/ rows[q].status \in {"queued", "running", "sigterm_sent"}
    PROVE  UnmintedFree' /\ RefusalsFree' /\ Final
<1>1. rows' = rows /\ minted' = minted
  BY DEF table
<1>2. Final /\ \A q \in Rows : IsRefusal(q)' => IsRefusal(q)
  BY <1>1 DEF Final, IsRefusal
<1> QED  BY <1>1, <1>2, RefusalsStayFree

LEMMA OperatorFinal ==
    ASSUME Typed, FreshInv, RefusedInv, NEW r \in Rows, Operator(r)
    PROVE  RefusedInv' /\ Final
<1>0. minted \in Nat /\ rows \in [Rows -> RowType]
  BY MaxRowsAssumption DEF Typed, TableOK
<1>1. /\ gov' = gov /\ sweep' = sweep /\ bridge' = bridge /\ minted' = minted
      /\ fresh' = fresh /\ lost' = lost
  BY DEF Operator, StopTask, ResumeTask, DeleteTask, systemd, history
<1>2. NothingRefusedLate' /\ \A q \in Rows : HeldRow(q)' => HeldRow(q)
  BY <1>1, HeldStays DEF RefusedInv, NothingRefusedLate
<1>3. PICK x : /\ rows' = [rows EXCEPT ![r] = x]
               /\ x.status \in {rows[r].status, "absent"}
               /\ x.status = "rejected_duplicate" => x.dispatched = rows[r].dispatched
  <2>1. CASE StopTask(r) \/ ResumeTask(r)
    <3>1. PICK b \in BOOLEAN : rows' = [rows EXCEPT ![r] = [rows[r] EXCEPT !.paused = b]]
      <4>1. TRUE \in BOOLEAN /\ FALSE \in BOOLEAN
        OBVIOUS
      <4> QED  BY <2>1, <4>1, Zenon DEF StopTask, ResumeTask
    <3> DEFINE x == [rows[r] EXCEPT !.paused = b]
    <3>2. x.status = rows[r].status /\ x.dispatched = rows[r].dispatched
      BY <1>0 DEF RowType
    <3> HIDE DEF x
    <3> QED  BY <3>1, <3>2 DEF x
  <2>2. CASE DeleteTask(r)
    <3>1. NoRow.status = "absent"
      BY DEF NoRow
    <3>2. rows' = [rows EXCEPT ![r] = NoRow]
      BY <2>2 DEF DeleteTask
    <3> QED  BY <3>1, <3>2
  <2> QED  BY <2>1, <2>2 DEF Operator
<1>4. rows'[r] = x /\ \A q \in Rows : q # r => rows'[q] = rows[q]
  BY <1>0, <1>3
<1>5. rows[r].status # "rejected_duplicate" \/ rows[r].paused
  BY DEF Operator, StopTask, ResumeTask, DeleteTask
<1>6. r <= minted
  <2>1. rows[r].status # "absent" \/ rows[r].paused
    BY DEF Operator, StopTask, ResumeTask, DeleteTask
  <2> QED  BY <1>0, <2>1 DEF RefusedInv, UnmintedFree, Rows
<1>7. \A q \in Rows : IsRefusal(q)' => IsRefusal(q)
  BY <1>1, <1>3, <1>4 DEF IsRefusal
<1>8. UnmintedFree' /\ RefusalsFree' /\ Final
  BY <1>1, <1>2, <1>4, <1>5, <1>6, <1>7, OneRowWritten
<1>9. PickedNotRefused'
  BY <1>1, <1>3, <1>4 DEF RefusedInv, PickedNotRefused, Typed, GovOK
<1> QED  BY <1>2, <1>8, <1>9 DEF RefusedInv

LEMMA DispatchFinal ==
    ASSUME Typed, FreshInv, RefusedInv, NEW g \in Governors, Dispatch(g)
    PROVE  RefusedInv' /\ Final
<1>0. minted \in Nat /\ rows \in [Rows -> RowType]
  BY MaxRowsAssumption DEF Typed, TableOK
<1>1. sweep' = sweep /\ bridge' = bridge /\ minted' = minted
  BY DEF Dispatch, Pick, Deferred, Refused, Spawn, SpawnTask, SpawnAction, SpawnFails, SpawnOn,
         Record, GovernorDies, systemd, table
<1>2. NothingRefusedLate'
  BY <1>1 DEF RefusedInv, NothingRefusedLate
<1>3. CASE Pick(g)
  <2>1. PICK r \in Queued : gov' = [gov EXCEPT ![g] = [pc |-> "picked", row |-> r,
                                                       unit |-> TargetUnit[rows[r].ident]]]
    BY <1>3 DEF Pick
  <2>2. r \in Rows /\ rows[r].status = "queued"
    BY DEF Queued
  <2>3. /\ gov'[g].pc = "picked" /\ gov'[g].row = r
        /\ \A h \in Governors : h # g => gov'[h] = gov[h]
    BY <2>1 DEF Typed, GovOK
  <2>4. UNCHANGED table /\ fresh' = fresh /\ lost' = lost
    BY <1>3 DEF Pick, history
  <2>5. \A q \in Rows : HeldRow(q)' => HeldRow(q) \/ rows[q].status = "queued"
    BY <1>1, <2>2, <2>3 DEF HeldRow
  <2>6. UnmintedFree' /\ RefusalsFree' /\ Final
    BY <2>4, <2>5, NoRowWritten
  <2>7. PickedNotRefused'
    BY <2>2, <2>3, <2>4 DEF RefusedInv, PickedNotRefused, table
  <2> QED  BY <1>2, <2>6, <2>7 DEF RefusedInv
<1>4. ASSUME Free(g), gov[g].pc # "idle"
      PROVE  PickedNotRefused' /\ \A q \in Rows : HeldRow(q)' => HeldRow(q)
  <2>1. gov'[g].pc = "idle" /\ \A h \in Governors : h # g => gov'[h] = gov[h]
    BY <1>4 DEF Free, IdleGov, Typed, GovOK
  <2>2. \A h \in Governors : gov'[h].pc = "idle"
    BY <1>4, <2>1, OneAtWork
  <2> QED  BY <1>1, <2>1, <2>2 DEF PickedNotRefused, HeldRow
<1>5. CASE Deferred(g) \/ GovernorDies(g)
  <2>1. /\ Free(g) /\ gov[g].pc # "idle" /\ UNCHANGED table
        /\ fresh \cup lost \subseteq fresh' \cup lost'
    BY <1>5 DEF Deferred, GovernorDies, history
  <2>2. UnmintedFree' /\ RefusalsFree' /\ Final
    BY <1>4, <2>1, NoRowWritten
  <2> QED  BY <1>2, <1>4, <2>1, <2>2 DEF RefusedInv
<1>6. CASE Refused(g) \/ Record(g)
  <2>0. PICK r \in Rows : r = gov[g].row
    BY <1>6 DEF Refused, Record, Typed, GovOK
  <2>1. /\ Free(g) /\ gov[g].pc # "idle" /\ fresh' = fresh /\ lost' = lost
        /\ gov[g].unit \in Units \cup {NoUnit}
    BY <1>6 DEF Refused, Record, history, Typed, GovOK, Dispatcher
  <2>2. HeldRow(r)
    BY <2>0, <2>1 DEF HeldRow
  <2>3. \A q \in Rows : q # r => rows'[q] = rows[q]
    BY <1>0, <1>6, <2>0 DEF Refused, Record, SetStatus
  <2>4. \A q \in Rows : IsRefusal(q)' => IsRefusal(q)
    <3>1. CASE Refused(g)
      <4>1. r \in fresh \cup lost
        BY <2>0, <3>1 DEF Refused, FreshInv, PickedIsFresh
      <4> QED  BY <2>1, <2>3, <4>1 DEF IsRefusal
    <3>2. CASE Record(g)
      <4>1. rows[r].status # "absent" => rows'[r] = Outcome(rows[r], gov[g].unit)
        BY <1>0, <2>0, <2>1, <3>2 DEF Record
      <4>2. Outcome(rows[r], gov[g].unit).status # "rejected_duplicate"
        BY <1>0, <2>1 DEF Outcome, RowType
      <4>3. rows[r].status = "absent" => rows'[r] = rows[r]
        BY <2>0, <3>2 DEF Record
      <4>4. ~IsRefusal(r)'
        BY <4>1, <4>2, <4>3 DEF IsRefusal
      <4> QED  BY <2>1, <2>3, <4>4 DEF IsRefusal
    <3> QED  BY <1>6, <3>1, <3>2
  <2>5. r <= minted
    BY <2>2 DEF RefusedInv, UnmintedFree
  <2>6. UnmintedFree' /\ RefusalsFree' /\ Final
    BY <1>1, <1>4, <2>1, <2>2, <2>3, <2>4, <2>5, OneRowWritten
  <2> QED  BY <1>2, <1>4, <2>1, <2>6 DEF RefusedInv
<1>7. CASE Spawn(g)
  <2>1. PICK u \in Units \cup {NoUnit} : SpawnOn(g, u)
    BY <1>7 DEF Spawn, SpawnTask, SpawnAction, SpawnFails
  <2>2. gov[g].pc = "picked" /\ gov[g].row \in Rows
    BY <1>7 DEF Spawn, Typed, GovOK
  <2>3. /\ gov'[g].pc = "spawned" /\ gov'[g].row = gov[g].row
        /\ \A h \in Governors : h # g => gov'[h] = gov[h]
    BY <2>1 DEF SpawnOn, Typed, GovOK, Dispatcher
  <2>4. \A q \in Rows : HeldRow(q)' => HeldRow(q)
    BY <1>1, <2>2, <2>3 DEF HeldRow
  <2>5. rows' = rows /\ fresh' = fresh \ {gov[g].row} /\ lost' = lost
    BY <2>1 DEF SpawnOn, table
  <2>6. rows[gov[g].row].status # "rejected_duplicate"
    BY <2>2 DEF RefusedInv, PickedNotRefused
  <2>7. \A q \in Rows : IsRefusal(q)' => IsRefusal(q)
    BY <2>5, <2>6 DEF IsRefusal
  <2>8. Final
    BY <2>5 DEF Final
  <2>9. UnmintedFree' /\ RefusalsFree'
    BY <1>1, <2>4, <2>5, <2>7, <2>8, RefusalsStayFree
  <2>10. PickedNotRefused'
    BY <2>3, <2>5 DEF RefusedInv, PickedNotRefused
  <2> QED  BY <1>2, <2>8, <2>9, <2>10 DEF RefusedInv
<1> QED  BY <1>3, <1>5, <1>6, <1>7 DEF Dispatch

\* Steps that write one row, held or not, by its id, with a status that is no refusal.
LEMMA StatusFinal ==
    ASSUME Typed, FreshInv, RefusedInv, NEW r \in Rows, HeldRow(r),
           gov' = gov, minted' = minted, lost' = lost, fresh \subseteq fresh',
           \A q \in Rows : q # r => rows'[q] = rows[q],
           rows'[r].status # "rejected_duplicate" \/ rows'[r] = rows[r],
           \A q \in Rows : HeldRow(q)' => HeldRow(q)
    PROVE  UnmintedFree' /\ RefusalsFree' /\ Final /\ PickedNotRefused'
<1>1. r <= minted
  BY DEF RefusedInv, UnmintedFree
<1>2. \A q \in Rows : IsRefusal(q)' => IsRefusal(q)
  BY DEF IsRefusal
<1>3. PickedNotRefused'
  BY DEF RefusedInv, PickedNotRefused, Typed, GovOK
<1> QED  BY <1>1, <1>2, <1>3, OneRowWritten

LEMMA UnitStepFinal ==
    ASSUME Typed, FreshInv, RefusedInv, NEW u \in Units, UnitStep(u)
    PROVE  RefusedInv' /\ Final
<1>0. rows \in [Rows -> RowType] /\ bridge \in [Units -> 0..MaxRows] /\ MaxRows \in Nat
  BY MaxRowsAssumption DEF Typed, TableOK, SystemdOK
<1>1. gov' = gov /\ sweep' = sweep /\ minted' = minted /\ fresh' = fresh /\ lost' = lost
  BY DEF UnitStep, WorkerStops, BridgeReads, BridgeWrites, AutoRestart, table, history
<1>2. NothingRefusedLate'
  BY <1>1 DEF RefusedInv, NothingRefusedLate
<1>3. CASE BridgeWrites(u)
  <2>0. PICK r \in Rows : r = bridge[u]
    BY <1>0, <1>3 DEF BridgeWrites, Rows
  <2>1. HeldRow(r)
    BY <2>0 DEF HeldRow
  <2>2. bridge' = [bridge EXCEPT ![u] = 0] /\ SetStatus(r, "failed")
    BY <1>3, <2>0 DEF BridgeWrites
  <2>3. \A q \in Rows : HeldRow(q)' => HeldRow(q)
    BY <1>0, <1>1, <2>2 DEF HeldRow, Rows
  <2>4. /\ \A q \in Rows : q # r => rows'[q] = rows[q]
        /\ rows'[r].status # "rejected_duplicate" \/ rows'[r] = rows[r]
    BY <1>0, <2>2 DEF SetStatus, RowType
  <2>5. UnmintedFree' /\ RefusalsFree' /\ Final /\ PickedNotRefused'
    BY <1>1, <2>1, <2>3, <2>4, StatusFinal
  <2> QED  BY <1>2, <2>5 DEF RefusedInv
<1>4. CASE rows' = rows /\ ~BridgeWrites(u)
  <2>1. \A q \in Rows : HeldRow(q)' => HeldRow(q) \/ rows[q].status = "running"
    <3>1. CASE BridgeReads(u)
      <4>1. bridge' = bridge \/ \E q \in ToBridge(u) : bridge' = [bridge EXCEPT ![u] = q]
        BY <3>1 DEF BridgeReads
      <4> QED  BY <1>0, <1>1, <4>1 DEF HeldRow, ToBridge
    <3>2. CASE bridge' = bridge
      BY <1>1, <3>2 DEF HeldRow
    <3> QED  BY <1>4, <3>1, <3>2 DEF UnitStep, WorkerStops, AutoRestart
  <2>2. UNCHANGED table
    BY <1>1, <1>4 DEF table
  <2>3. UnmintedFree' /\ RefusalsFree' /\ Final
    BY <1>1, <2>1, <2>2, NoRowWritten
  <2>4. PickedNotRefused'
    BY <1>1, <1>4 DEF RefusedInv, PickedNotRefused
  <2> QED  BY <1>2, <2>3, <2>4 DEF RefusedInv
<1> QED  BY <1>3, <1>4 DEF UnitStep, WorkerStops, BridgeReads, AutoRestart, table

LEMMA SweepFinal ==
    ASSUME Typed, FreshInv, RefusedInv, NEW s \in Sweepers,
           SweepActs(s) \/ \E r \in Rows : SweepReads(s, r)
    PROVE  RefusedInv' /\ Final
<1>0. rows \in [Rows -> RowType] /\ sweep \in [Sweepers -> Pass]
  BY DEF Typed, TableOK, SweepOK
<1>1. gov' = gov /\ minted' = minted /\ lost' = lost /\ bridge' = bridge
  BY DEF SweepActs, SweepReads, JudgesDeadWorker, JudgesStaleHeartbeat, SendsSigterm,
         SendsSigkill, SweepSkips, SweepWrites, table, systemd, history
<1>2. ASSUME NEW r \in Rows, SweepReads(s, r) PROVE RefusedInv' /\ Final
  <2>1. rows[r].status \in {"running", "sigterm_sent"} /\ UNCHANGED table /\ fresh' = fresh
    BY <1>2 DEF SweepReads, history
  <2>2. /\ sweep'[s].pc = "read" /\ sweep'[s].row = r
        /\ \A t \in Sweepers : t # s => sweep'[t] = sweep[t]
    BY <1>0, <1>2 DEF SweepReads
  <2>3. \A q \in Rows : HeldRow(q)' => HeldRow(q) \/ rows[q].status \in {"running", "sigterm_sent"}
    BY <1>1, <2>1, <2>2 DEF HeldRow
  <2>4. UnmintedFree' /\ RefusalsFree' /\ Final
    BY <1>1, <2>1, <2>3, NoRowWritten
  <2>5. NothingRefusedLate' /\ PickedNotRefused'
    BY <1>1, <2>1, <2>2 DEF RefusedInv, NothingRefusedLate, PickedNotRefused, table
  <2> QED  BY <2>4, <2>5 DEF RefusedInv
<1>3. CASE SweepWrites(s)
  <2>0. PICK r \in Rows : r = sweep[s].row
    BY <1>3 DEF SweepWrites, Typed, SweepOK
  <2>1. HeldRow(r) /\ sweep[s].to # "rejected_duplicate"
    BY <1>3, <2>0 DEF SweepWrites, HeldRow, RefusedInv, NothingRefusedLate
  <2>2. sweep'[s].pc = "idle" /\ \A t \in Sweepers : t # s => sweep'[t] = sweep[t]
    BY <1>0, <1>3 DEF SweepWrites, IdleSweep
  <2>3. \A q \in Rows : HeldRow(q)' => HeldRow(q)
    BY <1>1, <2>2 DEF HeldRow
  <2>4. fresh \subseteq fresh'
    BY <1>3 DEF SweepWrites, Requeue
  <2>5. /\ \A q \in Rows : q # r => rows'[q] = rows[q]
        /\ rows'[r].status # "rejected_duplicate" \/ rows'[r] = rows[r]
    <3>1. CASE rows[r].status = "absent"
      BY <1>3, <2>0, <3>1 DEF SweepWrites, SetStatus, Requeue
    <3>2. CASE rows[r].status # "absent" /\ sweep[s].to = "queued"
      <4> DEFINE x == [rows[r] EXCEPT !.status = "queued", !.dispatched = FALSE]
      <4>1. x.status = "queued"
        BY <1>0 DEF RowType
      <4>2. rows' = [rows EXCEPT ![r] = x]
        BY <1>3, <2>0, <3>2, Zenon DEF SweepWrites, Requeue
      <4> HIDE DEF x
      <4> QED  BY <1>0, <4>1, <4>2
    <3>3. CASE rows[r].status # "absent" /\ sweep[s].to # "queued"
      BY <1>0, <1>3, <2>0, <2>1, <3>3 DEF SweepWrites, SetStatus, RowType
    <3> QED  BY <3>1, <3>2, <3>3
  <2>6. UnmintedFree' /\ RefusalsFree' /\ Final /\ PickedNotRefused'
    BY <1>1, <2>1, <2>3, <2>4, <2>5, StatusFinal
  <2>7. NothingRefusedLate'
    BY <2>2 DEF RefusedInv, NothingRefusedLate
  <2> QED  BY <2>6, <2>7 DEF RefusedInv
<1>4. CASE SweepActs(s) /\ ~SweepWrites(s)
  <2>1. UNCHANGED table /\ fresh' = fresh /\ sweep[s].pc = "read"
    BY <1>4 DEF SweepActs, JudgesDeadWorker, JudgesStaleHeartbeat, SendsSigterm,
                SendsSigkill, SweepSkips, history
  <2>2. PICK x : /\ sweep' = [sweep EXCEPT ![s] = x]
                 /\ x.pc = "idle" \/ (/\ x.row = sweep[s].row /\ x.to # "rejected_duplicate")
    <3>1. ASSUME NEW to, to # "rejected_duplicate", Concludes(s, to)
          PROVE  \E x : /\ sweep' = [sweep EXCEPT ![s] = x]
                        /\ x.pc = "idle" \/ (/\ x.row = sweep[s].row /\ x.to # "rejected_duplicate")
      <4> DEFINE x == [sweep[s] EXCEPT !.pc = "writing", !.to = to]
      <4>1. sweep' = [sweep EXCEPT ![s] = x]
        BY <3>1, Zenon DEF Concludes
      <4>2. x.row = sweep[s].row /\ x.to = to
        BY <1>0 DEF Pass
      <4> HIDE DEF x
      <4> QED  BY <3>1, <4>1, <4>2
    <3>2. CASE SweepSkips(s)
      <4>1. sweep' = [sweep EXCEPT ![s] = IdleSweep] /\ IdleSweep.pc = "idle"
        BY <3>2 DEF SweepSkips, IdleSweep
      <4> QED  BY <4>1
    <3>3. CASE JudgesDeadWorker(s)
      BY <3>1, <3>3 DEF JudgesDeadWorker, DeadWorkerVerdicts, WithoutEvidence
    <3>4. CASE JudgesStaleHeartbeat(s)
      <4>1. \A to \in ExitStatus(sweep[s].unit) : to # "rejected_duplicate"
        BY DEF ExitStatus
      <4> QED  BY <3>1, <3>4, <4>1 DEF JudgesStaleHeartbeat
    <3>5. CASE SendsSigterm(s) \/ SendsSigkill(s)
      BY <3>1, <3>5 DEF SendsSigterm, SendsSigkill
    <3> QED  BY <1>4, <3>2, <3>3, <3>4, <3>5 DEF SweepActs
  <2>3. sweep'[s] = x /\ \A t \in Sweepers : t # s => sweep'[t] = sweep[t]
    BY <1>0, <2>2
  <2>4. \A q \in Rows : HeldRow(q)' => HeldRow(q)
    BY <1>1, <2>1, <2>2, <2>3 DEF HeldRow
  <2>5. UnmintedFree' /\ RefusalsFree' /\ Final
    BY <1>1, <2>1, <2>4, NoRowWritten
  <2>6. NothingRefusedLate' /\ PickedNotRefused'
    BY <1>1, <2>1, <2>2, <2>3 DEF RefusedInv, NothingRefusedLate, PickedNotRefused, table
  <2> QED  BY <2>5, <2>6 DEF RefusedInv
<1> QED  BY <1>2, <1>3, <1>4

LEMMA RefusedInvInit == Init => RefusedInv
<1> SUFFICES ASSUME Init PROVE RefusedInv
  OBVIOUS
<1>1. PICK b \in BOOLEAN : b = FALSE
  OBVIOUS
<1>2. NoRow = [ident |-> NoIdent, status |-> "absent", unit |-> NoUnit,
               dispatched |-> b, paused |-> b]
  BY <1>1, Zenon DEF NoRow
<1>3. NoRow.ident = NoIdent /\ NoRow.status = "absent" /\ NoRow.paused = b
  BY <1>2
<1>4. \A r \in Rows : rows[r] = NoRow
  BY DEF Init
<1>5. \A r \in Rows : ~HeldRow(r)
  BY DEF HeldRow, Init, IdleGov, IdleSweep, Rows
<1>6. UnmintedFree /\ RefusalsFree
  BY <1>1, <1>3, <1>4, <1>5 DEF UnmintedFree, RefusalsFree, IsRefusal
<1>7. PickedNotRefused /\ NothingRefusedLate
  BY DEF Init, IdleGov, IdleSweep, PickedNotRefused, NothingRefusedLate
<1> QED  BY <1>6, <1>7 DEF RefusedInv

\* A refused submission stays what it is, whoever is at work on whichever rows.
THEOREM RefusedStayRefused == Spec => RefusalsAreFinal
<1>1. SpawnInv /\ RefusedInv /\ [Next]_vars => RefusedInv' /\ Final
  <2> SUFFICES ASSUME SpawnInv, RefusedInv, [Next]_vars PROVE RefusedInv' /\ Final
    OBVIOUS
  <2>1. Typed /\ FreshInv
    BY TypedIsTypeOK DEF SpawnInv, FreshInv
  <2>2. CASE UNCHANGED vars
    <3>1. UNCHANGED table /\ UNCHANGED <<gov, sweep, bridge, fresh, lost>>
      BY <2>2 DEF vars, table
    <3>2. \A q \in Rows : HeldRow(q)' => HeldRow(q)
      BY <3>1, HeldStays
    <3>3. UnmintedFree' /\ RefusalsFree' /\ Final
      BY <2>1, <3>1, <3>2, NoRowWritten
    <3>4. PickedNotRefused' /\ NothingRefusedLate'
      BY <3>1 DEF RefusedInv, PickedNotRefused, NothingRefusedLate, table
    <3> QED  BY <3>3, <3>4 DEF RefusedInv
  <2> QED
    BY <2>1, <2>2, SubmissionFinal, OperatorFinal, DispatchFinal, UnitStepFinal, SweepFinal DEF Next
<1>2. Final => \A r \in Rows :
          rows[r].status = "rejected_duplicate" /\ ~rows[r].dispatched /\ r \notin fresh \cup lost
             => rows'[r] = rows[r]
  BY DEF Final, IsRefusal
<1>3. Spec => []SpawnInv
  BY SpawnInvInit, SpawnInvNext, PTL DEF Spec
<1> QED  BY <1>1, <1>2, <1>3, RefusedInvInit, PTL DEF Spec, RefusalsAreFinal

-----------------------------------------------------------------------------
(* ChunkStore *)

\* What the index may say of a chunk, and where a call may be.
ChunkRecord == [status : ChunkStatuses, name : Names \cup {"none", "beside"},
                content : Contents \cup {"none"}]
NewSave == [pc : {"new"}]
SaveAtWork == [pc : {"absent", "same", "differs", "written", "beside"}, paste : Pastes]

\* What a call has found on disk or has put there is there yet, and so is what it recorded,
\* unless the file was disturbed.
ChunkInv ==
    /\ ChunkTypeOK
    /\ \A s \in Savers : saves[s].pc \in {"same", "written"} =>
          \/ disk[saves[s].paste.name] = saves[s].paste.content
          \/ saves[s].paste.name \in disturbed
    /\ \A c \in Chunks : chunkRows[c].status = "SAVED" =>
          /\ chunkRows[c].name \in Names /\ chunkRows[c].content \in Contents
          /\ Intact(c) \/ chunkRows[c].name \in disturbed

\* Nothing is saved yet.
LEMMA ChunkInitially == ChunkInit => ChunkInv
<1> SUFFICES ASSUME ChunkInit PROVE ChunkInv
  OBVIOUS
<1>1. NoChunkRow \in ChunkRecord /\ NoChunkRow.status # "SAVED"
  BY DEF NoChunkRow, ChunkRecord, ChunkStatuses
<1>2. [pc |-> "new"] \in NewSave
  BY DEF NewSave
<1> QED
  BY <1>1, <1>2, ChunkAssumption DEF ChunkInit, ChunkInv, ChunkTypeOK, ChunkRecord, NewSave

\* A call that moves on, with a record that its step and the disk agree with, keeps it all
\* when nothing but its record changes.
LEMMA SaveMovesOn ==
    ASSUME ChunkInv, NEW s \in Savers, NEW new \in NewSave \cup SaveAtWork,
           saves' = [saves EXCEPT ![s] = new],
           new.pc \in {"same", "written"} =>
              disk[new.paste.name] = new.paste.content \/ new.paste.name \in disturbed,
           UNCHANGED <<disk, chunkRows, disturbed, touches>>
    PROVE  ChunkInv'
BY DEF ChunkInv, ChunkTypeOK, NewSave, SaveAtWork, Intact

\* What a call that is at work holds.
LEMMA AtWorkHolds ==
    ASSUME ChunkInv, NEW s \in Savers, saves[s].pc # "new"
    PROVE  saves[s] \in SaveAtWork /\ saves[s].paste \in Pastes
           /\ saves[s].paste.name \in Names /\ saves[s].paste.content \in Contents
           /\ saves[s].paste.chunk \in Chunks
BY DEF ChunkInv, ChunkTypeOK, SaveAtWork, Pastes

\* A row that says saved may be written when the file has what it says.
LEMMA UpsertKeeps ==
    ASSUME ChunkInv, NEW s \in Savers, NEW as \in ChunkStatuses,
           NEW name \in Names \cup {"beside"},
           saves[s].pc # "new", Upserts(s, as, name),
           as = "SAVED" => /\ name \in Names
                           /\ disk[name] = saves[s].paste.content \/ name \in disturbed
    PROVE  ChunkInv'
<1> DEFINE row == [status |-> as, name |-> name, content |-> saves[s].paste.content]
           chunk == saves[s].paste.chunk
<1>1. /\ saves[s].paste.content \in Contents /\ chunk \in Chunks
  BY AtWorkHolds
<1>2. /\ row \in ChunkRecord /\ row.status = as /\ row.name = name
      /\ row.content = saves[s].paste.content
  BY <1>1 DEF ChunkRecord
<1>3. /\ chunkRows' = [chunkRows EXCEPT ![chunk] = row]
      /\ saves' = [saves EXCEPT ![s] = [pc |-> "new"]]
      /\ UNCHANGED <<disk, disturbed, touches>>
  BY Zenon DEF Upserts, Ends
<1>4. [pc |-> "new"] \in NewSave
  BY DEF NewSave
<1> HIDE DEF row, chunk
<1>5. ChunkTypeOK'
  BY <1>1, <1>2, <1>3, <1>4 DEF ChunkInv, ChunkTypeOK, ChunkRecord, NewSave
<1>6. ASSUME NEW o \in Savers, saves'[o].pc \in {"same", "written"}
      PROVE  saves'[o] = saves[o]
  BY <1>3, <1>6 DEF ChunkInv, ChunkTypeOK
<1>7. ASSUME NEW c \in Chunks, chunkRows'[c].status = "SAVED"
      PROVE  /\ chunkRows'[c].name \in Names /\ chunkRows'[c].content \in Contents
             /\ disk[chunkRows'[c].name] = chunkRows'[c].content \/ chunkRows'[c].name \in disturbed
  <2>1. CASE c = chunk
    BY <1>1, <1>2, <1>3, <1>7, <2>1 DEF ChunkInv, ChunkTypeOK
  <2>2. CASE c # chunk
    <3>1. chunkRows'[c] = chunkRows[c]
      BY <1>3, <2>2 DEF ChunkInv, ChunkTypeOK
    <3> QED  BY <1>7, <3>1 DEF ChunkInv, Intact
  <2> QED  BY <2>1, <2>2
<1> QED
  BY <1>3, <1>5, <1>6, <1>7 DEF ChunkInv, Intact

\* Every step preserves the invariant.
LEMMA ChunkStep == ChunkInv /\ [ChunkNext]_chunkvars => ChunkInv'
<1> SUFFICES ASSUME ChunkInv, [ChunkNext]_chunkvars PROVE ChunkInv'
  OBVIOUS
<1>1. ASSUME NEW s \in Savers, NEW paste \in Pastes, Looks(s, paste) PROVE ChunkInv'
  <2> DEFINE looked == CASE disk[paste.name] = "none" -> "absent"
                         [] disk[paste.name] = paste.content -> "same"
                         [] OTHER -> "differs"
  <2>1. PICK pc \in {"absent", "same", "differs"} :
          /\ pc = looked
          /\ pc = "same" => disk[paste.name] = paste.content
    <3>1. /\ looked \in {"absent", "same", "differs"}
          /\ looked = "same" => disk[paste.name] = paste.content
      BY ChunkAssumption DEF Pastes
    <3> QED  BY <3>1
  <2> DEFINE new == [paste |-> paste, pc |-> pc]
  <2>2. new \in SaveAtWork /\ new.pc = pc /\ new.paste = paste
    BY DEF SaveAtWork
  <2>3. saves' = [saves EXCEPT ![s] = new]
    BY <1>1, <2>1, Zenon DEF Looks
  <2> HIDE DEF new
  <2> QED
    BY <1>1, <2>1, <2>2, <2>3, SaveMovesOn DEF Looks
<1>2. ASSUME NEW s \in Savers, Writes(s) PROVE ChunkInv'
  <2> DEFINE paste == saves[s].paste
             new == [saves[s] EXCEPT !.pc = "written"]
  <2>1. /\ saves[s] \in SaveAtWork /\ paste.name \in Names /\ paste.content \in Contents
        /\ paste \in Pastes
    BY <1>2, AtWorkHolds DEF Writes
  <2>2. new \in SaveAtWork /\ new.pc = "written" /\ new.paste = paste
    BY <2>1 DEF SaveAtWork
  <2>3. /\ saves' = [saves EXCEPT ![s] = new]
        /\ disk' = [disk EXCEPT ![paste.name] = paste.content]
        /\ disturbed' = (IF disk[paste.name] = "none" THEN disturbed
                                                      ELSE disturbed \cup {paste.name})
        /\ UNCHANGED <<chunkRows, touches>>
    BY <1>2, Zenon DEF Writes, SaveGoes
  <2> HIDE DEF paste, new
  <2>4. ChunkTypeOK'
    BY <2>1, <2>2, <2>3 DEF ChunkInv, ChunkTypeOK, SaveAtWork
  <2>5. ASSUME NEW n \in Names, NEW content \in Contents, disk[n] = content \/ n \in disturbed
        PROVE  disk'[n] = content \/ n \in disturbed'
    BY <2>1, <2>3, <2>5, ChunkAssumption DEF ChunkInv, ChunkTypeOK
  <2>6. ASSUME NEW o \in Savers, saves'[o].pc \in {"same", "written"}
        PROVE  disk'[saves'[o].paste.name] = saves'[o].paste.content
                \/ saves'[o].paste.name \in disturbed'
    <3>1. CASE o = s
      BY <2>1, <2>2, <2>3, <3>1 DEF ChunkInv, ChunkTypeOK
    <3>2. CASE o # s
      <4>1. saves'[o] = saves[o] /\ saves[o].pc # "new"
        BY <2>3, <2>6, <3>2 DEF ChunkInv, ChunkTypeOK
      <4> QED
        BY <2>5, <2>6, <4>1, AtWorkHolds DEF ChunkInv
    <3> QED  BY <3>1, <3>2
  <2>7. ASSUME NEW c \in Chunks, chunkRows'[c].status = "SAVED"
        PROVE  /\ chunkRows'[c].name \in Names /\ chunkRows'[c].content \in Contents
               /\ Intact(c)' \/ chunkRows'[c].name \in disturbed'
    BY <2>3, <2>5, <2>7 DEF ChunkInv, Intact
  <2> QED
    BY <2>4, <2>6, <2>7 DEF ChunkInv
<1>3. ASSUME NEW s \in Savers, WritesBeside(s) PROVE ChunkInv'
  <2>1. saves[s] \in SaveAtWork
    BY <1>3, AtWorkHolds DEF WritesBeside
  <2> DEFINE new == [saves[s] EXCEPT !.pc = "beside"]
  <2>2. new \in SaveAtWork /\ new.pc = "beside" /\ saves' = [saves EXCEPT ![s] = new]
    <3>1. saves' = [saves EXCEPT ![s] = new]
      BY <1>3, Zenon DEF WritesBeside, SaveGoes
    <3> QED  BY <2>1, <3>1 DEF SaveAtWork
  <2> HIDE DEF new
  <2> QED
    BY <1>3, <2>2, SaveMovesOn DEF WritesBeside
<1>4. ASSUME NEW s \in Savers, RecordsSame(s) PROVE ChunkInv'
  <2>1. PICK as \in {"SAVED", "NEEDS_HUMAN_REVIEW"} : Upserts(s, as, saves[s].paste.name)
    BY <1>4 DEF RecordsSame
  <2> QED
    BY <1>4, <2>1, AtWorkHolds, UpsertKeeps DEF RecordsSame, ChunkStatuses, ChunkInv
<1>5. ASSUME NEW s \in Savers, RecordsConflict(s) PROVE ChunkInv'
  BY <1>5, UpsertKeeps DEF RecordsConflict, ChunkStatuses
<1>6. ASSUME NEW s \in Savers, RecordsNew(s) PROVE ChunkInv'
  <2>1. PICK as \in {"SAVED", "NEEDS_HUMAN_REVIEW"} : Upserts(s, as, saves[s].paste.name)
    BY <1>6 DEF RecordsNew
  <2> QED
    BY <1>6, <2>1, AtWorkHolds, UpsertKeeps DEF RecordsNew, ChunkStatuses, ChunkInv
<1>7. ASSUME NEW s \in Savers, SaveKilled(s) PROVE ChunkInv'
  <2>1. [pc |-> "new"] \in NewSave
    BY DEF NewSave
  <2> QED
    BY <1>7, <2>1, SaveMovesOn DEF SaveKilled, Ends, NewSave
<1>8. ASSUME NEW e \in Talks, Resumes(e) PROVE ChunkInv'
  <2>1. ASSUME NEW c \in Chunks
        PROVE  /\ chunkRows'[c] \in ChunkRecord
               /\ chunkRows'[c].status = "SAVED" => chunkRows'[c] = chunkRows[c]
    <3>1. chunkRows[c] \in ChunkRecord
      BY DEF ChunkInv, ChunkTypeOK, ChunkRecord
    <3>2. \/ chunkRows'[c] = chunkRows[c]
          \/ \E as \in {"FAILED", "NEEDS_HUMAN_REVIEW"} :
                chunkRows'[c] = [chunkRows[c] EXCEPT !.status = as]
      BY <1>8 DEF Resumes
    <3> QED
      BY <3>1, <3>2 DEF ChunkRecord, ChunkStatuses
  <2>2. chunkRows' \in [Chunks -> ChunkRecord]
    <3>1. DOMAIN chunkRows' = Chunks /\ chunkRows' = [c \in Chunks |-> chunkRows'[c]]
      BY <1>8 DEF Resumes
    <3> QED  BY <2>1, <3>1
  <2> QED
    BY <1>8, <2>1, <2>2 DEF Resumes, ChunkInv, ChunkTypeOK, ChunkRecord, Intact
<1>9. ASSUME NEW n \in Names, Touched(n) PROVE ChunkInv'
  <2>1. PICK content \in Contents \cup {"none"} : disk' = [disk EXCEPT ![n] = content]
    BY <1>9 DEF Touched
  <2> QED
    BY <1>9, <2>1, ChunkAssumption DEF Touched, ChunkInv, ChunkTypeOK, Intact
<1>10. CASE UNCHANGED chunkvars
  BY <1>10 DEF chunkvars, ChunkInv, ChunkTypeOK, Intact
<1> QED
  BY <1>1, <1>2, <1>3, <1>4, <1>5, <1>6, <1>7, <1>8, <1>9, <1>10 DEF ChunkNext

\* A chunk recorded as saved has its content on disk, for every number of sessions, calls
\* and names.
THEOREM SavesKept == ChunkSpec => []SavedIsOnDisk
<1>1. ChunkInv => SavedIsOnDisk
  BY DEF ChunkInv, SavedIsOnDisk
<1> QED
  BY ChunkInitially, ChunkStep, <1>1, PTL DEF ChunkSpec

-----------------------------------------------------------------------------
(* UmrSchema *)

\* Where a call may be.
EnsurePlaces == {"outside", "table", "index", "triggers", "columns", "adding",
           "searched", "utm triggers", "utm index", "utm create",
           "utm keep", "utm rebuild", "widen", "lock", "rebuild", "copy", "swap"}
AtUtm == {"searched", "utm triggers", "utm index", "utm create", "utm keep", "utm rebuild"}
AnEnsure == [at : EnsurePlaces, col : 1 .. Len(AddedCols), saw : SUBSET Cols]

\* Somebody is at one of these places.
SomeAt(S) == \E p \in Ensurers : ensure[p].at \in S

\* A call that is sure to look at the index, and one that is sure to add what is missing.
WillLook(p) ==
    \/ ensure[p].at \in {"index", "triggers", "searched", "utm triggers"}
    \/ /\ \E j \in ensure[p].col .. Len(AddedCols) : AddedCols[j] = "utm"
       /\ \/ ensure[p].at = "columns"
          \/ ensure[p].at = "adding" /\ AddedCols[ensure[p].col] \notin columns
WillAdd(p) ==
    \/ ensure[p].at \in {"index", "triggers", "columns"} \cup AtUtm
    \/ ensure[p].at = "adding" /\ AddedCols[ensure[p].col] \notin columns

\* What a call has behind it.
CallKnows(p) ==
    /\ ensure[p].at \in {"outside", "table", "index", "triggers"} => ensure[p].col = 1
    /\ ensure[p].at \in {"columns", "adding"} =>
          \A j \in 1 .. Len(AddedCols) : j < ensure[p].col => AddedCols[j] \in columns
    /\ ensure[p].at \in AtUtm =>
          \A j \in 1 .. Len(AddedCols) : j <= ensure[p].col => AddedCols[j] \in columns
    /\ ensure[p].at \in {"widen", "lock", "rebuild", "copy", "swap"} => columns = Cols
    /\ ensure[p].at \in {"lock", "rebuild", "copy", "swap"} => ensure[p].saw = Cols
    /\ ensure[p].at \notin {"outside", "table"} => status # "absent"
    /\ ensure[p].at \in {"rebuild", "copy", "swap"} <=> wlock = p
    /\ ensure[p].at \in {"copy", "swap"} => rebuilt.there
    /\ txn.by = p <=> ensure[p].at = "swap"

\* The rebuild copies every row and knows every column, also after a kill.
RowsSafe ==
    /\ \A p \in Ensurers : CallKnows(p)
    /\ rebuilt.there => rebuilt.columns = Cols
    /\ txn.by # "none" => txn.rows = umrRows
    /\ umrRows = inserted

\* As long as none was killed, whatever is missing has a call that will see to it.
TriggersDue ==
    \/ triggers
    \/ status = "absent"
    \/ SomeAt({"index", "triggers", "utm index", "utm create", "utm keep", "copy", "swap"})
WideTriggersDue ==
    search.columns = "wide" =>
        triggers \/ SomeAt({"utm index", "utm create", "utm keep", "copy", "swap"})
IndexDue ==
    search.columns # "none" \/ status = "absent" \/ SomeAt({"index", "utm create", "copy", "swap"})
RowsDue ==
    \/ search.rows = umrRows
    \/ SomeAt({"utm index", "utm create", "utm keep", "utm rebuild", "copy", "swap"})
    \/ search.columns # "wide" /\ \E p \in Ensurers : WillLook(p)
ColumnsDue ==
    status = "new" => columns = Cols \/ \E p \in Ensurers : WillAdd(p)
SwapDue == rebuilt.there => SomeAt({"copy", "swap"})

AllDue == /\ TriggersDue /\ WideTriggersDue /\ IndexDue
          /\ RowsDue /\ ColumnsDue /\ SwapDue

\* Kills excuse what is due, never the rows.
SchemaInv == SchemaTypeOK /\ RowsSafe /\ (killed = 0 => AllDue)

\* One call goes to another place, and the others stay.
CallMoves(p, at, col, saw) ==
    /\ ensure' \in [Ensurers -> AnEnsure]
    /\ ensure'[p].at = at /\ ensure'[p].col = col /\ ensure'[p].saw = saw
    /\ \A q \in Ensurers : q # p => ensure'[q] = ensure[q]

\* The columns are numbered, that of the index among them.
LEMMA NumCols ==
    /\ Len(AddedCols) \in Nat /\ Len(AddedCols) >= 1
    /\ \A k \in 1 .. Len(AddedCols) : AddedCols[k] \in Cols
    /\ \A c \in Cols : \E k \in 1 .. Len(AddedCols) : AddedCols[k] = c
    /\ \E k \in 1 .. Len(AddedCols) : AddedCols[k] = "utm"
    /\ \A j, k \in 1 .. Len(AddedCols) : AddedCols[j] = AddedCols[k] => j = k
<1>1. DOMAIN AddedCols = 1 .. Len(AddedCols) /\ Len(AddedCols) \in Nat
  BY UmrSchemaAssumption
<1>2. PICK k \in 1 .. Len(AddedCols) : AddedCols[k] = "utm"
  BY <1>1, UmrSchemaAssumption
<1> QED
  BY <1>1, <1>2, UmrSchemaAssumption DEF Cols

LEMMA CallTyped ==
    ASSUME SchemaInv, NEW p \in Ensurers
    PROVE  /\ ensure \in [Ensurers -> AnEnsure]
           /\ ensure[p].at \in EnsurePlaces /\ ensure[p].col \in 1 .. Len(AddedCols)
           /\ ensure[p].saw \in SUBSET Cols
BY DEF SchemaInv, SchemaTypeOK, AnEnsure, EnsurePlaces

\* The ways in which a call moves.
LEMMA StepsMoves ==
    ASSUME SchemaInv, NEW p \in Ensurers, NEW at \in EnsurePlaces, Steps(p, at)
    PROVE  CallMoves(p, at, ensure[p].col, ensure[p].saw)
<1> DEFINE new == [ensure[p] EXCEPT !.at = at]
<1>1. new \in AnEnsure /\ new.at = at /\ new.col = ensure[p].col /\ new.saw = ensure[p].saw
  BY CallTyped DEF AnEnsure
<1>2. ensure' = [ensure EXCEPT ![p] = new]
  BY Zenon DEF Steps
<1> HIDE DEF new
<1> QED
  BY <1>1, <1>2, CallTyped DEF CallMoves

LEMMA LeavesMoves ==
    ASSUME SchemaInv, NEW p \in Ensurers, Leaves(p)
    PROVE  CallMoves(p, "outside", 1, {})
<1>1. Outside \in AnEnsure /\ Outside.at = "outside" /\ Outside.col = 1 /\ Outside.saw = {}
  BY NumCols DEF Outside, AnEnsure, EnsurePlaces
<1> QED
  BY <1>1, CallTyped DEF CallMoves, Leaves

LEMMA NextColumnMoves ==
    ASSUME SchemaInv, NEW p \in Ensurers, NextColumn(p)
    PROVE  \/ /\ ensure[p].col < Len(AddedCols) /\ ensure[p].col + 1 \in 1 .. Len(AddedCols)
              /\ CallMoves(p, "columns", ensure[p].col + 1, ensure[p].saw)
           \/ /\ ensure[p].col = Len(AddedCols)
              /\ CallMoves(p, "widen", ensure[p].col, ensure[p].saw)
<1>1. CASE ensure[p].col < Len(AddedCols)
  <2> DEFINE new == [ensure[p] EXCEPT !.at = "columns", !.col = ensure[p].col + 1]
  <2>1. ensure[p].col + 1 \in 1 .. Len(AddedCols)
    BY <1>1, CallTyped, NumCols
  <2>2. new \in AnEnsure /\ new.at = "columns" /\ new.col = ensure[p].col + 1 /\ new.saw = ensure[p].saw
    BY <2>1, CallTyped DEF AnEnsure, EnsurePlaces
  <2>3. ensure' = [ensure EXCEPT ![p].at = "columns", ![p].col = @ + 1]
    BY <1>1, CallTyped, NumCols DEF NextColumn
  <2>4. ensure' = [ensure EXCEPT ![p] = new]
    BY <2>3, Zenon
  <2> HIDE DEF new
  <2> QED
    BY <1>1, <2>1, <2>2, <2>4, CallTyped DEF CallMoves
<1>2. CASE ~(ensure[p].col < Len(AddedCols))
  <2>1. ensure[p].col = Len(AddedCols) /\ Steps(p, "widen") /\ "widen" \in EnsurePlaces
    BY <1>2 DEF NextColumn, EnsurePlaces
  <2> QED
    BY <2>1, StepsMoves
<1> QED  BY <1>1, <1>2


\* What the others know stays so, while columns are only added.
LEMMA Knows ==
    ASSUME SchemaInv, NEW p \in Ensurers
    PROVE  CallKnows(p) /\ ensure[p].col \in 1 .. Len(AddedCols)
BY CallTyped DEF SchemaInv, RowsSafe

\* While columns are only added, what the other calls have behind them stays so.
LEMMA OthersKnow ==
    ASSUME SchemaInv, NEW p \in Ensurers, NEW at, NEW col, NEW saw, CallMoves(p, at, col, saw),
           columns \subseteq columns', columns' \subseteq Cols,
           status # "absent" => status' # "absent",
           UNCHANGED <<rebuilt, txn, wlock, umrRows, inserted>>, CallKnows(p)'
    PROVE  RowsSafe'
<1>1. ASSUME NEW q \in Ensurers, q # p PROVE CallKnows(q)'
  <2>1. ensure'[q] = ensure[q] /\ CallKnows(q)
    BY <1>1 DEF CallMoves, SchemaInv, RowsSafe
  <2> QED
    BY <2>1 DEF CallKnows
<1>2. \A q \in Ensurers : CallKnows(q)'
  BY <1>1
<1> QED
  BY <1>2 DEF SchemaInv, RowsSafe

\* The base objects: each creation keeps the invariant.
LEMMA CreatesTableKeeps ==
    ASSUME SchemaInv, NEW p \in Ensurers, CreatesTable(p) PROVE SchemaInv'
<1>1. /\ ensure[p].at = "table" /\ CallMoves(p, "index", ensure[p].col, ensure[p].saw)
      /\ status' = IF status = "absent" THEN "new" ELSE status
      /\ UNCHANGED <<columns, rebuilt, umrRows, search, triggers, txn, wlock, inserted, killed>>
  BY StepsMoves DEF CreatesTable, EnsurePlaces, At, searchIndex
<1>2. SchemaTypeOK'
  BY <1>1 DEF SchemaInv, SchemaTypeOK, CallMoves, AnEnsure, EnsurePlaces
<1>3. RowsSafe'
  <2>1. CallKnows(p)'
    BY <1>1, CallTyped DEF SchemaInv, RowsSafe, CallKnows, CallMoves, AtUtm
  <2> QED  BY <1>1, <2>1, OthersKnow DEF SchemaInv, SchemaTypeOK
<1>4. AllDue => AllDue'
  BY <1>1 DEF CallMoves, AllDue, TriggersDue, WideTriggersDue, IndexDue, RowsDue, ColumnsDue, SwapDue,
              SomeAt, WillLook, WillAdd
<1> QED  BY <1>1, <1>2, <1>3, <1>4 DEF SchemaInv

LEMMA CallsEnsureKeeps ==
    ASSUME SchemaInv, NEW p \in Ensurers, CallsEnsure(p) PROVE SchemaInv'
<1>1. /\ ensure[p].at = "outside" /\ CallMoves(p, "table", ensure[p].col, ensure[p].saw)
      /\ UNCHANGED <<status, columns, umrRows, inserted, rebuilt, search, triggers, txn, wlock, killed>>
  BY StepsMoves DEF CallsEnsure, EnsurePlaces, At, umrTable, searchIndex
<1>2. SchemaTypeOK'
  BY <1>1 DEF SchemaInv, SchemaTypeOK, CallMoves, AnEnsure, EnsurePlaces
<1>3. RowsSafe'
  <2>1. CallKnows(p)'
    BY <1>1, Knows, NumCols DEF CallKnows, CallMoves, AtUtm
  <2> QED  BY <1>1, <2>1, OthersKnow DEF SchemaInv, SchemaTypeOK
<1>4. AllDue => AllDue'
  <2> SUFFICES ASSUME AllDue PROVE AllDue'
    OBVIOUS
  <2>1. TriggersDue' /\ WideTriggersDue' /\ IndexDue'
    BY <1>1 DEF CallMoves, AllDue, TriggersDue, WideTriggersDue, IndexDue, SomeAt
  <2>2. RowsDue'
    BY <1>1 DEF CallMoves, AllDue, RowsDue, SomeAt, WillLook
  <2>3. ColumnsDue'
    BY <1>1 DEF CallMoves, AllDue, ColumnsDue, WillAdd, AtUtm
  <2>4. SwapDue'
    BY <1>1 DEF CallMoves, AllDue, SwapDue, SomeAt
  <2> QED  BY <2>1, <2>2, <2>3, <2>4 DEF AllDue
<1> QED  BY <1>1, <1>2, <1>3, <1>4 DEF SchemaInv

LEMMA CreatesIndexKeeps ==
    ASSUME SchemaInv, NEW p \in Ensurers, CreatesIndex(p) PROVE SchemaInv'
<1>1. /\ ensure[p].at = "index" /\ CallMoves(p, "triggers", ensure[p].col, ensure[p].saw)
      /\ search' = IF search.columns = "none" THEN [columns |-> "narrow", rows |-> {}] ELSE search
      /\ UNCHANGED <<status, columns, umrRows, inserted, rebuilt, triggers, txn, wlock, killed>>
  BY StepsMoves DEF CreatesIndex, EnsurePlaces, At, umrTable, searchIndex, NewIndex
<1>2. SchemaTypeOK'
  BY <1>1 DEF SchemaInv, SchemaTypeOK, CallMoves, AnEnsure, EnsurePlaces
<1>3. RowsSafe'
  <2>1. CallKnows(p)'
    BY <1>1, Knows, NumCols DEF CallKnows, CallMoves, AtUtm
  <2> QED  BY <1>1, <2>1, OthersKnow DEF SchemaInv, SchemaTypeOK
<1>4. AllDue => AllDue'
  <2> SUFFICES ASSUME AllDue PROVE AllDue'
    OBVIOUS
  <2>1. TriggersDue' /\ WideTriggersDue' /\ IndexDue'
    BY <1>1 DEF CallMoves, AllDue, TriggersDue, WideTriggersDue, IndexDue, SomeAt
  <2>2. RowsDue'
    BY <1>1 DEF CallMoves, AllDue, RowsDue, SomeAt, WillLook
  <2>3. ColumnsDue'
    BY <1>1 DEF CallMoves, AllDue, ColumnsDue, WillAdd, AtUtm
  <2>4. SwapDue'
    BY <1>1 DEF CallMoves, AllDue, SwapDue, SomeAt
  <2> QED  BY <2>1, <2>2, <2>3, <2>4 DEF AllDue
<1> QED  BY <1>1, <1>2, <1>3, <1>4 DEF SchemaInv

\* The index is dropped and created anew by a call that is going to fill it.
LEMMA DropsTriggersKeeps ==
    ASSUME SchemaInv, NEW p \in Ensurers, DropsTriggers(p) PROVE SchemaInv'
<1>1. /\ ensure[p].at = "utm triggers" /\ CallMoves(p, "utm index", ensure[p].col, ensure[p].saw)
      /\ triggers' = FALSE
      /\ UNCHANGED <<status, columns, umrRows, inserted, rebuilt, search, txn, wlock, killed>>
  BY StepsMoves DEF DropsTriggers, EnsurePlaces, At, umrTable, searchIndex
<1>2. SchemaTypeOK'
  BY <1>1 DEF SchemaInv, SchemaTypeOK, CallMoves, AnEnsure, EnsurePlaces
<1>3. RowsSafe'
  <2>1. CallKnows(p)'
    BY <1>1, Knows, NumCols DEF CallKnows, CallMoves, AtUtm
  <2> QED  BY <1>1, <2>1, OthersKnow DEF SchemaInv, SchemaTypeOK
<1>4. AllDue => AllDue'
  <2> SUFFICES ASSUME AllDue PROVE AllDue'
    OBVIOUS
  <2>1. TriggersDue' /\ WideTriggersDue' /\ IndexDue'
    BY <1>1 DEF CallMoves, AllDue, TriggersDue, WideTriggersDue, IndexDue, SomeAt
  <2>2. RowsDue'
    BY <1>1 DEF CallMoves, AllDue, RowsDue, SomeAt, WillLook
  <2>3. ColumnsDue'
    BY <1>1 DEF CallMoves, AllDue, ColumnsDue, WillAdd, AtUtm
  <2>4. SwapDue'
    BY <1>1 DEF CallMoves, AllDue, SwapDue, SomeAt
  <2> QED  BY <2>1, <2>2, <2>3, <2>4 DEF AllDue
<1> QED  BY <1>1, <1>2, <1>3, <1>4 DEF SchemaInv

LEMMA DropsIndexKeeps ==
    ASSUME SchemaInv, NEW p \in Ensurers, DropsIndex(p) PROVE SchemaInv'
<1>1. /\ ensure[p].at = "utm index" /\ CallMoves(p, "utm create", ensure[p].col, ensure[p].saw)
      /\ search' = [columns |-> "none", rows |-> {}]
      /\ UNCHANGED <<status, columns, umrRows, inserted, rebuilt, triggers, txn, wlock, killed>>
  BY StepsMoves DEF DropsIndex, EnsurePlaces, At, umrTable, searchIndex
<1>2. SchemaTypeOK'
  BY <1>1 DEF SchemaInv, SchemaTypeOK, CallMoves, AnEnsure, EnsurePlaces
<1>3. RowsSafe'
  <2>1. CallKnows(p)'
    BY <1>1, Knows, NumCols DEF CallKnows, CallMoves, AtUtm
  <2> QED  BY <1>1, <2>1, OthersKnow DEF SchemaInv, SchemaTypeOK
<1>4. AllDue => AllDue'
  <2> SUFFICES ASSUME AllDue PROVE AllDue'
    OBVIOUS
  <2>1. TriggersDue' /\ WideTriggersDue' /\ IndexDue'
    BY <1>1 DEF CallMoves, AllDue, TriggersDue, WideTriggersDue, IndexDue, SomeAt
  <2>2. RowsDue'
    BY <1>1 DEF CallMoves, AllDue, RowsDue, SomeAt, WillLook
  <2>3. ColumnsDue'
    BY <1>1 DEF CallMoves, AllDue, ColumnsDue, WillAdd, AtUtm
  <2>4. SwapDue'
    BY <1>1 DEF CallMoves, AllDue, SwapDue, SomeAt
  <2> QED  BY <2>1, <2>2, <2>3, <2>4 DEF AllDue
<1> QED  BY <1>1, <1>2, <1>3, <1>4 DEF SchemaInv

LEMMA CreatesUtmIndexKeeps ==
    ASSUME SchemaInv, NEW p \in Ensurers, CreatesUtmIndex(p) PROVE SchemaInv'
<1>1. /\ ensure[p].at = "utm create" /\ CallMoves(p, "utm keep", ensure[p].col, ensure[p].saw)
      /\ search' = IF search.columns = "none" THEN [columns |-> "wide", rows |-> {}] ELSE search
      /\ UNCHANGED <<status, columns, umrRows, inserted, rebuilt, triggers, txn, wlock, killed>>
  BY StepsMoves DEF CreatesUtmIndex, EnsurePlaces, At, umrTable, searchIndex, NewIndex
<1>2. SchemaTypeOK'
  BY <1>1 DEF SchemaInv, SchemaTypeOK, CallMoves, AnEnsure, EnsurePlaces
<1>3. RowsSafe'
  <2>1. CallKnows(p)'
    BY <1>1, Knows, NumCols DEF CallKnows, CallMoves, AtUtm
  <2> QED  BY <1>1, <2>1, OthersKnow DEF SchemaInv, SchemaTypeOK
<1>4. AllDue => AllDue'
  <2> SUFFICES ASSUME AllDue PROVE AllDue'
    OBVIOUS
  <2>1. TriggersDue' /\ WideTriggersDue' /\ IndexDue'
    BY <1>1 DEF CallMoves, AllDue, TriggersDue, WideTriggersDue, IndexDue, SomeAt
  <2>2. RowsDue'
    BY <1>1 DEF CallMoves, AllDue, RowsDue, SomeAt, WillLook
  <2>3. ColumnsDue'
    BY <1>1 DEF CallMoves, AllDue, ColumnsDue, WillAdd, AtUtm
  <2>4. SwapDue'
    BY <1>1 DEF CallMoves, AllDue, SwapDue, SomeAt
  <2> QED  BY <2>1, <2>2, <2>3, <2>4 DEF AllDue
<1> QED  BY <1>1, <1>2, <1>3, <1>4 DEF SchemaInv

LEMMA KeepsUtmIndexKeeps ==
    ASSUME SchemaInv, NEW p \in Ensurers, KeepsUtmIndex(p) PROVE SchemaInv'
<1>1. /\ ensure[p].at = "utm keep" /\ CallMoves(p, "utm rebuild", ensure[p].col, ensure[p].saw)
      /\ triggers' = TRUE
      /\ UNCHANGED <<status, columns, umrRows, inserted, rebuilt, search, txn, wlock, killed>>
  BY StepsMoves DEF KeepsUtmIndex, EnsurePlaces, At, umrTable, searchIndex
<1>2. SchemaTypeOK'
  BY <1>1 DEF SchemaInv, SchemaTypeOK, CallMoves, AnEnsure, EnsurePlaces
<1>3. RowsSafe'
  <2>1. CallKnows(p)'
    BY <1>1, Knows, NumCols DEF CallKnows, CallMoves, AtUtm
  <2> QED  BY <1>1, <2>1, OthersKnow DEF SchemaInv, SchemaTypeOK
<1>4. AllDue => AllDue'
  <2> SUFFICES ASSUME AllDue PROVE AllDue'
    OBVIOUS
  <2>1. TriggersDue' /\ WideTriggersDue' /\ IndexDue'
    BY <1>1 DEF CallMoves, AllDue, TriggersDue, WideTriggersDue, IndexDue, SomeAt
  <2>2. RowsDue'
    BY <1>1 DEF CallMoves, AllDue, RowsDue, SomeAt, WillLook
  <2>3. ColumnsDue'
    BY <1>1 DEF CallMoves, AllDue, ColumnsDue, WillAdd, AtUtm
  <2>4. SwapDue'
    BY <1>1 DEF CallMoves, AllDue, SwapDue, SomeAt
  <2> QED  BY <2>1, <2>2, <2>3, <2>4 DEF AllDue
<1> QED  BY <1>1, <1>2, <1>3, <1>4 DEF SchemaInv

\* From the triggers a call goes on to the first column.
LEMMA CreatesTriggersKeeps ==
    ASSUME SchemaInv, NEW p \in Ensurers, CreatesTriggers(p) PROVE SchemaInv'
<1>1. /\ ensure[p].at = "triggers" /\ CallMoves(p, "columns", ensure[p].col, ensure[p].saw)
      /\ triggers' = TRUE
      /\ UNCHANGED <<status, columns, umrRows, inserted, rebuilt, search, txn, wlock, killed>>
  BY StepsMoves DEF CreatesTriggers, EnsurePlaces, At, umrTable, searchIndex
<1>2. SchemaTypeOK'
  BY <1>1 DEF SchemaInv, SchemaTypeOK, CallMoves, AnEnsure, EnsurePlaces
<1>3. /\ ensure[p].col = 1 /\ \E j \in ensure[p].col .. Len(AddedCols) : AddedCols[j] = "utm"
      /\ \A j \in 1 .. Len(AddedCols) : ~(j < ensure[p].col)
  BY <1>1, Knows, NumCols DEF CallKnows
<1>4. RowsSafe'
  <2>1. CallKnows(p)'
    BY <1>1, <1>3, Knows DEF CallKnows, CallMoves, AtUtm
  <2> QED  BY <1>1, <2>1, OthersKnow DEF SchemaInv, SchemaTypeOK
<1>5. AllDue => AllDue'
  <2> SUFFICES ASSUME AllDue PROVE AllDue'
    OBVIOUS
  <2>1. TriggersDue' /\ WideTriggersDue' /\ IndexDue'
    BY <1>1 DEF CallMoves, AllDue, TriggersDue, WideTriggersDue, IndexDue, SomeAt
  <2>2. WillLook(p)' /\ WillAdd(p)'
    BY <1>1, <1>3 DEF CallMoves, WillLook, WillAdd
  <2>3. RowsDue'
    BY <1>1, <2>2 DEF CallMoves, AllDue, RowsDue, SomeAt, WillLook
  <2>4. ColumnsDue'
    BY <1>1, <2>2 DEF CallMoves, AllDue, ColumnsDue
  <2>5. SwapDue'
    BY <1>1 DEF CallMoves, AllDue, SwapDue, SomeAt
  <2> QED  BY <2>1, <2>3, <2>4, <2>5 DEF AllDue
<1> QED  BY <1>1, <1>2, <1>4, <1>5 DEF SchemaInv

\* A call that is done with a column, or with the index after it.
LEMMA GoesOn ==
    ASSUME SchemaInv, NEW p \in Ensurers, AfterColumn(p) \/ NextColumn(p),
           \A j \in 1 .. Len(AddedCols) : j <= ensure[p].col => AddedCols[j] \in columns',
           columns' \subseteq Cols, UNCHANGED <<rebuilt, txn, wlock, status>>,
           ensure[p].at \in {"columns", "adding"} \cup AtUtm
    PROVE  /\ \E at \in {"searched", "columns", "widen"}, col \in 1 .. Len(AddedCols) :
                 CallMoves(p, at, col, ensure[p].saw)
           /\ CallKnows(p)'
           /\ columns' = Cols \/ WillAdd(p)'
           /\ AfterColumn(p) =>
                 \A j \in ensure[p].col .. Len(AddedCols) : AddedCols[j] = "utm" => WillLook(p)'
<1>1. /\ txn.by # p /\ wlock # p /\ status # "absent"
      /\ ensure[p].col \in 1 .. Len(AddedCols)
  BY Knows DEF CallKnows, AtUtm
<1>2. CASE CallMoves(p, "searched", ensure[p].col, ensure[p].saw)
  <2>1. CallKnows(p)'
    BY <1>1, <1>2, NumCols DEF CallMoves, CallKnows, AtUtm
  <2>2. WillAdd(p)' /\ WillLook(p)'
    BY <1>2 DEF CallMoves, WillAdd, WillLook, AtUtm
  <2> QED  BY <1>1, <1>2, <2>1, <2>2
<1>3. ASSUME NextColumn(p),
             AfterColumn(p) => AddedCols[ensure[p].col] # "utm"
      PROVE  /\ \E at \in {"searched", "columns", "widen"}, col \in 1 .. Len(AddedCols) :
                   CallMoves(p, at, col, ensure[p].saw)
             /\ CallKnows(p)'
             /\ columns' = Cols \/ WillAdd(p)'
             /\ AfterColumn(p) =>
                   \A j \in ensure[p].col .. Len(AddedCols) : AddedCols[j] = "utm" => WillLook(p)'
  <2>1. CASE /\ ensure[p].col < Len(AddedCols) /\ ensure[p].col + 1 \in 1 .. Len(AddedCols)
             /\ CallMoves(p, "columns", ensure[p].col + 1, ensure[p].saw)
    <3>1. /\ \A j \in 1 .. Len(AddedCols) : j < ensure[p].col + 1 => AddedCols[j] \in columns'
          /\ \A j \in ensure[p].col .. Len(AddedCols) :
                j # ensure[p].col => j \in ensure[p].col + 1 .. Len(AddedCols)
      BY <1>1, <2>1, NumCols
    <3> DEFINE k == ensure[p].col + 1
    <3>2. CallMoves(p, "columns", k, ensure[p].saw)
      BY <2>1
    <3> HIDE DEF k
    <3>3. CallKnows(p)' /\ WillAdd(p)'
      BY <1>1, <3>1, <3>2 DEF CallMoves, CallKnows, WillAdd, AtUtm, k
    <3>4. ASSUME AfterColumn(p), NEW j \in ensure[p].col .. Len(AddedCols), AddedCols[j] = "utm"
          PROVE  WillLook(p)'
      BY <1>3, <3>1, <3>2, <3>4 DEF CallMoves, WillLook, k
    <3> QED  BY <2>1, <3>3, <3>4
  <2>2. CASE /\ ensure[p].col = Len(AddedCols)
             /\ CallMoves(p, "widen", ensure[p].col, ensure[p].saw)
    <3>1. columns' = Cols
      <4>1. \A j \in 1 .. Len(AddedCols) : AddedCols[j] \in columns'
        BY <2>2, NumCols
      <4>2. Cols \subseteq columns'
        BY <4>1, NumCols
      <4> QED  BY <4>2
    <3>2. CallKnows(p)'
      BY <1>1, <2>2, <3>1 DEF CallMoves, CallKnows, AtUtm, Cols
    <3>3. AfterColumn(p) =>
             \A j \in ensure[p].col .. Len(AddedCols) : AddedCols[j] # "utm"
      BY <1>1, <1>3, <2>2, NumCols
    <3> QED  BY <1>1, <2>2, <3>1, <3>2, <3>3
  <2> QED  BY <1>3, <2>1, <2>2, NextColumnMoves
<1> QED
  <2>1. CASE AfterColumn(p) /\ AddedCols[ensure[p].col] = "utm"
    BY <1>2, <2>1, StepsMoves DEF AfterColumn, EnsurePlaces
  <2>2. CASE ~(AfterColumn(p) /\ AddedCols[ensure[p].col] = "utm")
    BY <1>3, <2>2 DEF AfterColumn
  <2> QED  BY <2>1, <2>2

\* The added columns.
LEMMA LooksForColumnKeeps ==
    ASSUME SchemaInv, NEW p \in Ensurers, LooksForColumn(p) PROVE SchemaInv'
<1>1. /\ ensure[p].at = "columns"
      /\ UNCHANGED <<status, columns, umrRows, inserted, rebuilt, search, triggers, txn, wlock, killed>>
      /\ columns \subseteq Cols
  BY DEF LooksForColumn, At, umrTable, searchIndex, SchemaInv, SchemaTypeOK
<1>2. /\ \E at \in {"searched", "columns", "widen", "adding"}, col \in 1 .. Len(AddedCols) :
            CallMoves(p, at, col, ensure[p].saw)
      /\ CallKnows(p)'
      /\ columns = Cols \/ WillAdd(p)'
      /\ WillLook(p) => WillLook(p)'
  <2>1. CASE AddedCols[ensure[p].col] \in columns
    <3>1. AfterColumn(p)
      BY <2>1 DEF LooksForColumn
    <3>2. \A j \in 1 .. Len(AddedCols) : j <= ensure[p].col => AddedCols[j] \in columns'
      BY <1>1, <2>1, Knows, NumCols DEF CallKnows
    <3>3. /\ \E at \in {"searched", "columns", "widen"}, col \in 1 .. Len(AddedCols) :
                CallMoves(p, at, col, ensure[p].saw)
          /\ CallKnows(p)'
          /\ columns' = Cols \/ WillAdd(p)'
          /\ \A j \in ensure[p].col .. Len(AddedCols) : AddedCols[j] = "utm" => WillLook(p)'
      BY <1>1, <3>1, <3>2, GoesOn
    <3>4. WillLook(p) => WillLook(p)'
      BY <1>1, <3>3 DEF WillLook
    <3> QED  BY <1>1, <3>3, <3>4
  <2>2. CASE AddedCols[ensure[p].col] \notin columns
    <3>1. CallMoves(p, "adding", ensure[p].col, ensure[p].saw)
      BY <2>2, StepsMoves DEF LooksForColumn, EnsurePlaces
    <3>2. CallKnows(p)'
      BY <1>1, <3>1, Knows, NumCols DEF CallKnows, CallMoves, AtUtm
    <3>3. WillAdd(p)' /\ (WillLook(p) => WillLook(p)')
      BY <1>1, <2>2, <3>1 DEF WillAdd, WillLook, CallMoves
    <3> QED  BY <3>1, <3>2, <3>3, Knows
  <2> QED  BY <2>1, <2>2
<1>3. PICK at \in {"searched", "columns", "widen", "adding"}, col \in 1 .. Len(AddedCols) :
         CallMoves(p, at, col, ensure[p].saw)
  BY <1>2
<1>4. SchemaTypeOK'
  BY <1>1, <1>3 DEF SchemaInv, SchemaTypeOK, CallMoves, AnEnsure, EnsurePlaces
<1>5. RowsSafe'
  BY <1>1, <1>2, <1>3, OthersKnow
<1>6. AllDue => AllDue'
  <2> SUFFICES ASSUME AllDue PROVE AllDue'
    OBVIOUS
  <2>1. TriggersDue' /\ WideTriggersDue' /\ IndexDue'
    BY <1>1, <1>3 DEF CallMoves, AllDue, TriggersDue, WideTriggersDue, IndexDue, SomeAt
  <2>2. \A q \in Ensurers : q # p => (WillLook(q) => WillLook(q)') /\ (WillAdd(q) => WillAdd(q)')
    BY <1>1, <1>3 DEF CallMoves, WillLook, WillAdd
  <2>3. RowsDue'
    BY <1>1, <1>2, <1>3, <2>2 DEF CallMoves, AllDue, RowsDue, SomeAt
  <2>4. ColumnsDue'
    BY <1>1, <1>2, <2>2 DEF AllDue, ColumnsDue
  <2>5. SwapDue'
    BY <1>1, <1>3 DEF CallMoves, AllDue, SwapDue, SomeAt
  <2> QED  BY <2>1, <2>3, <2>4, <2>5 DEF AllDue
<1> QED  BY <1>1, <1>4, <1>5, <1>6 DEF SchemaInv

\* If the column is there by now the call fails; the one that added it goes on.
LEMMA AddsColumnKeeps ==
    ASSUME SchemaInv, NEW p \in Ensurers, AddsColumn(p) PROVE SchemaInv'
<1>1. /\ ensure[p].at = "adding"
      /\ UNCHANGED <<status, rebuilt, umrRows, inserted, search, triggers, killed>>
      /\ columns \subseteq Cols /\ txn.by # p /\ wlock # p
  BY Knows DEF AddsColumn, At, umrTable, searchIndex, SchemaInv, SchemaTypeOK, CallKnows
<1> DEFINE column == AddedCols[ensure[p].col]
<1>2. CASE column \in columns /\ Leaves(p) /\ UNCHANGED columns
  <2>1. CallMoves(p, "outside", 1, {}) /\ UNCHANGED <<columns, txn, wlock>>
    BY <1>1, <1>2, LeavesMoves DEF Leaves
  <2>2. SchemaTypeOK'
    BY <1>1, <2>1 DEF SchemaInv, SchemaTypeOK, CallMoves, AnEnsure, EnsurePlaces
  <2>3. CallKnows(p)'
    BY <1>1, <2>1 DEF CallKnows, CallMoves, AtUtm
  <2>4. RowsSafe'
    BY <1>1, <2>1, <2>3, OthersKnow
  <2>5. AllDue => AllDue'
    <3> SUFFICES ASSUME AllDue PROVE AllDue'
      OBVIOUS
    <3>1. ~WillLook(p) /\ ~WillAdd(p)
      BY <1>1, <1>2 DEF WillLook, WillAdd, AtUtm
    <3>2. \A q \in Ensurers : q # p => (WillLook(q) => WillLook(q)') /\ (WillAdd(q) => WillAdd(q)')
      BY <1>1, <2>1 DEF CallMoves, WillLook, WillAdd
    <3>3. TriggersDue' /\ WideTriggersDue' /\ IndexDue' /\ SwapDue'
      BY <1>1, <2>1 DEF CallMoves, AllDue, TriggersDue, WideTriggersDue, IndexDue, SwapDue, SomeAt
    <3>4. RowsDue'
      BY <1>1, <2>1, <3>1, <3>2 DEF CallMoves, AllDue, RowsDue, SomeAt
    <3>5. ColumnsDue'
      BY <1>1, <2>1, <3>1, <3>2 DEF AllDue, ColumnsDue
    <3> QED  BY <3>3, <3>4, <3>5 DEF AllDue
  <2> QED  BY <1>1, <2>2, <2>4, <2>5 DEF SchemaInv
<1>3. CASE /\ column \notin columns /\ columns' = columns \cup {column} /\ AfterColumn(p)
           /\ UNCHANGED <<txn, wlock>>
  <2>1. column \in Cols
    BY Knows, NumCols
  <2>2. columns \subseteq columns' /\ columns' \subseteq Cols
    BY <1>1, <1>3, <2>1
  <2>3. \A j \in 1 .. Len(AddedCols) : j <= ensure[p].col => AddedCols[j] \in columns'
    BY <1>1, <1>3, Knows, NumCols DEF CallKnows
  <2>4. /\ \E at \in {"searched", "columns", "widen"}, col \in 1 .. Len(AddedCols) :
              CallMoves(p, at, col, ensure[p].saw)
        /\ CallKnows(p)'
        /\ columns' = Cols \/ WillAdd(p)'
        /\ \A j \in ensure[p].col .. Len(AddedCols) : AddedCols[j] = "utm" => WillLook(p)'
    BY <1>1, <1>3, <2>2, <2>3, GoesOn
  <2>5. PICK at \in {"searched", "columns", "widen"}, col \in 1 .. Len(AddedCols) :
           CallMoves(p, at, col, ensure[p].saw)
    BY <2>4
  <2>6. SchemaTypeOK'
    BY <1>1, <1>3, <2>2, <2>5 DEF SchemaInv, SchemaTypeOK, CallMoves, AnEnsure, EnsurePlaces
  <2>7. RowsSafe'
    BY <1>1, <1>3, <2>2, <2>4, <2>5, OthersKnow
  <2>8. AllDue => AllDue'
    <3> SUFFICES ASSUME AllDue PROVE AllDue'
      OBVIOUS
    <3>1. ASSUME NEW q \in Ensurers, WillLook(q) PROVE WillLook(q)' \/ WillLook(p)'
      <4>1. CASE q # p /\ ~(ensure[q].at = "adding" /\ AddedCols[ensure[q].col] = column)
        BY <1>1, <1>3, <2>5, <3>1, <4>1 DEF CallMoves, WillLook
      <4>2. CASE q = p \/ (ensure[q].at = "adding" /\ AddedCols[ensure[q].col] = column)
        <5>1. ensure[q].at = "adding" /\ ensure[q].col = ensure[p].col
          BY <1>1, <4>2, Knows, NumCols, SMTT(30)
        <5>2. \E j \in ensure[p].col .. Len(AddedCols) : AddedCols[j] = "utm"
          BY <3>1, <5>1 DEF WillLook
        <5> QED  BY <2>4, <5>2
      <4> QED  BY <4>1, <4>2
    <3>2. TriggersDue' /\ WideTriggersDue' /\ IndexDue' /\ SwapDue'
      BY <1>1, <2>5 DEF CallMoves, AllDue, TriggersDue, WideTriggersDue, IndexDue, SwapDue, SomeAt
    <3>3. RowsDue'
      BY <1>1, <2>5, <3>1 DEF CallMoves, AllDue, RowsDue, SomeAt
    <3>4. ColumnsDue'
      BY <2>4 DEF ColumnsDue
    <3> QED  BY <3>2, <3>3, <3>4 DEF AllDue
  <2> QED  BY <1>1, <2>6, <2>7, <2>8 DEF SchemaInv
<1> QED  BY <1>2, <1>3 DEF AddsColumn

\* A call that goes on from the index.
LEMMA GoesOnFromIndex ==
    ASSUME SchemaInv, NEW p \in Ensurers, NextColumn(p), ensure[p].at \in {"searched", "utm rebuild"},
           UNCHANGED <<status, columns, umrRows, inserted, rebuilt, triggers, txn, wlock, killed>>,
           search' \in [columns : {"none", "narrow", "wide"}, rows : SUBSET UmrIds],
           search'.columns = search.columns,
           search'.rows = search.rows \/ search'.rows = umrRows,
           search'.rows = umrRows \/ (ensure[p].at = "searched" /\ search.columns # "narrow")
    PROVE  SchemaInv'
<1>1. columns \subseteq Cols
  BY DEF SchemaInv, SchemaTypeOK
<1>2. \A j \in 1 .. Len(AddedCols) : j <= ensure[p].col => AddedCols[j] \in columns'
  BY Knows DEF CallKnows, AtUtm
<1>3. /\ \E at \in {"searched", "columns", "widen"}, col \in 1 .. Len(AddedCols) :
            CallMoves(p, at, col, ensure[p].saw)
      /\ CallKnows(p)'
      /\ columns' = Cols \/ WillAdd(p)'
  BY <1>1, <1>2, GoesOn DEF AtUtm
<1>4. PICK at \in {"searched", "columns", "widen"}, col \in 1 .. Len(AddedCols) :
         CallMoves(p, at, col, ensure[p].saw)
  BY <1>3
<1>5. SchemaTypeOK'
  BY <1>1, <1>4 DEF SchemaInv, SchemaTypeOK, CallMoves, AnEnsure, EnsurePlaces
<1>6. RowsSafe'
  BY <1>1, <1>3, <1>4, OthersKnow
<1>7. AllDue => AllDue'
  <2> SUFFICES ASSUME AllDue PROVE AllDue'
    OBVIOUS
  <2>1. \A q \in Ensurers : q # p => (WillLook(q) => WillLook(q)')
    BY <1>4 DEF CallMoves, WillLook
  <2>2. TriggersDue' /\ WideTriggersDue' /\ IndexDue' /\ SwapDue'
    BY <1>4, ZenonT(30) DEF CallMoves, AllDue, TriggersDue, WideTriggersDue, IndexDue, SwapDue, SomeAt
  <2>3. RowsDue'
    <3>1. CASE search'.rows = umrRows
      BY <3>1 DEF RowsDue
    <3>2. CASE /\ search'.rows = search.rows /\ ensure[p].at = "searched"
               /\ search.columns # "narrow" /\ search.rows # umrRows
      <4>1. CASE SomeAt({"utm index", "utm create", "utm keep", "utm rebuild", "copy", "swap"})
        BY <1>4, <3>2, <4>1 DEF CallMoves, RowsDue, SomeAt
      <4>2. CASE ~SomeAt({"utm index", "utm create", "utm keep", "utm rebuild", "copy", "swap"})
        <5>1. search.columns = "none"
          BY <3>2, <4>2 DEF AllDue, RowsDue, SchemaInv, SchemaTypeOK
        <5>2. PICK q \in Ensurers : ensure[q].at = "index"
          <6>1. status # "absent"
            BY <3>2, Knows DEF CallKnows
          <6> QED  BY <4>2, <5>1, <6>1 DEF AllDue, IndexDue, SomeAt
        <5>3. WillLook(q)'
          BY <1>4, <3>2, <5>2 DEF CallMoves, WillLook
        <5> QED  BY <5>1, <5>3 DEF RowsDue
      <4> QED  BY <4>1, <4>2
    <3> QED  BY <3>1, <3>2
  <2>4. ColumnsDue'
    BY <1>3 DEF ColumnsDue
  <2> QED  BY <2>2, <2>3, <2>4 DEF AllDue
<1> QED  BY <1>5, <1>6, <1>7 DEF SchemaInv

\* An index that is being created by another is left to that one.
LEMMA LooksAtIndexKeeps ==
    ASSUME SchemaInv, NEW p \in Ensurers, LooksAtIndex(p) PROVE SchemaInv'
<1>1. /\ ensure[p].at = "searched"
      /\ UNCHANGED <<status, columns, umrRows, inserted, rebuilt, search, triggers, txn, wlock, killed>>
      /\ search \in [columns : {"none", "narrow", "wide"}, rows : SUBSET UmrIds]
  BY DEF LooksAtIndex, At, umrTable, searchIndex, SchemaInv, SchemaTypeOK
<1>2. CASE search.columns = "narrow"
  <2>1. CallMoves(p, "utm triggers", ensure[p].col, ensure[p].saw)
    BY <1>2, StepsMoves DEF LooksAtIndex, EnsurePlaces
  <2>2. SchemaTypeOK'
    BY <1>1, <2>1 DEF SchemaInv, SchemaTypeOK, CallMoves, AnEnsure, EnsurePlaces
  <2>3. RowsSafe'
    <3>1. CallKnows(p)'
      BY <1>1, <2>1, Knows DEF CallKnows, CallMoves, AtUtm
    <3> QED  BY <1>1, <2>1, <3>1, OthersKnow DEF SchemaInv, SchemaTypeOK
  <2>4. AllDue => AllDue'
    <3> SUFFICES ASSUME AllDue PROVE AllDue'
      OBVIOUS
    <3>1. TriggersDue' /\ WideTriggersDue' /\ IndexDue' /\ SwapDue'
      BY <1>1, <2>1 DEF CallMoves, AllDue, TriggersDue, WideTriggersDue, IndexDue, SwapDue, SomeAt
    <3>2. RowsDue'
      BY <1>1, <1>2, <2>1 DEF CallMoves, AllDue, RowsDue, SomeAt, WillLook
    <3>3. ColumnsDue'
      BY <1>1, <2>1 DEF CallMoves, AllDue, ColumnsDue, WillAdd, AtUtm
    <3> QED  BY <3>1, <3>2, <3>3 DEF AllDue
  <2> QED  BY <1>1, <2>2, <2>3, <2>4 DEF SchemaInv
<1>3. CASE search.columns # "narrow"
  BY <1>1, <1>3, GoesOnFromIndex DEF LooksAtIndex
<1> QED  BY <1>2, <1>3

\* If the index was dropped meanwhile the call fails; the one that dropped it goes on.
LEMMA FillsUtmIndexKeeps ==
    ASSUME SchemaInv, NEW p \in Ensurers, FillsUtmIndex(p) PROVE SchemaInv'
<1>1. /\ ensure[p].at = "utm rebuild"
      /\ UNCHANGED <<status, columns, umrRows, inserted, rebuilt, triggers, killed>>
      /\ columns \subseteq Cols /\ txn.by # p /\ wlock # p /\ status # "absent"
      /\ search \in [columns : {"none", "narrow", "wide"}, rows : SUBSET UmrIds]
      /\ umrRows \subseteq UmrIds
  BY Knows DEF FillsUtmIndex, At, umrTable, searchIndex, SchemaInv, SchemaTypeOK, CallKnows, AtUtm
<1>2. CASE search.columns = "none" /\ Leaves(p) /\ UNCHANGED search
  <2>1. CallMoves(p, "outside", 1, {}) /\ UNCHANGED <<columns, txn, wlock>>
    BY <1>1, <1>2, LeavesMoves DEF Leaves
  <2>2. SchemaTypeOK'
    BY <1>1, <1>2, <2>1 DEF SchemaInv, SchemaTypeOK, CallMoves, AnEnsure, EnsurePlaces
  <2>3. CallKnows(p)'
    BY <1>1, <2>1 DEF CallKnows, CallMoves, AtUtm
  <2>4. RowsSafe'
    BY <1>1, <2>1, <2>3, OthersKnow
  <2>5. AllDue => AllDue'
    <3> SUFFICES ASSUME AllDue PROVE AllDue'
      OBVIOUS
    <3>1. PICK q \in Ensurers : q # p /\ ensure[q].at \in {"index", "utm create", "copy", "swap"}
      BY <1>1, <1>2 DEF AllDue, IndexDue, SomeAt
    <3>2. ensure'[q] = ensure[q]
      BY <2>1, <3>1 DEF CallMoves
    <3>3. TriggersDue' /\ WideTriggersDue' /\ IndexDue' /\ SwapDue'
      BY <1>1, <1>2, <2>1 DEF CallMoves, AllDue, TriggersDue, WideTriggersDue, IndexDue, SwapDue, SomeAt
    <3>4. RowsDue'
      BY <1>1, <1>2, <3>1, <3>2 DEF RowsDue, SomeAt, WillLook
    <3>5. ColumnsDue'
      <4>1. CASE ensure[q].at \in {"index", "utm create"}
        <5>1. WillAdd(q)'
          BY <3>2, <4>1 DEF WillAdd, AtUtm
        <5> QED  BY <5>1 DEF ColumnsDue
      <4>2. CASE ensure[q].at \in {"copy", "swap"}
        BY <1>1, <4>2, Knows DEF ColumnsDue, CallKnows
      <4> QED  BY <3>1, <4>1, <4>2
    <3> QED  BY <3>3, <3>4, <3>5 DEF AllDue
  <2> QED  BY <1>1, <2>2, <2>4, <2>5 DEF SchemaInv
<1>3. CASE /\ search' = [search EXCEPT !.rows = umrRows] /\ NextColumn(p)
           /\ UNCHANGED <<txn, wlock>>
  <2>1. /\ search' \in [columns : {"none", "narrow", "wide"}, rows : SUBSET UmrIds]
        /\ search'.columns = search.columns /\ search'.rows = umrRows
    BY <1>1, <1>3
  <2>2. /\ ensure[p].at \in {"searched", "utm rebuild"} /\ NextColumn(p)
        /\ UNCHANGED <<status, columns, umrRows, inserted, rebuilt, triggers, txn, wlock, killed>>
        /\ search'.rows = search.rows \/ search'.rows = umrRows
        /\ search'.rows = umrRows \/ (ensure[p].at = "searched" /\ search.columns # "narrow")
    BY <1>1, <1>3, <2>1
  <2> QED  BY <2>1, <2>2, GoesOnFromIndex
<1> QED  BY <1>2, <1>3 DEF FillsUtmIndex

\* A call that leaves without having had the lock.
LEMMA LeavesQuietly ==
    ASSUME SchemaInv, NEW p \in Ensurers, CallMoves(p, "outside", 1, {}),
           ensure[p].at \in {"widen", "lock"},
           UNCHANGED <<status, columns, umrRows, inserted, rebuilt, search, triggers, txn, wlock, killed>>
    PROVE  SchemaInv'
<1>1. SchemaTypeOK'
  BY DEF SchemaInv, SchemaTypeOK, CallMoves, AnEnsure, EnsurePlaces
<1>2. RowsSafe'
  <2>1. CallKnows(p)'
    BY Knows DEF CallKnows, CallMoves, AtUtm
  <2> QED  BY <2>1, OthersKnow DEF SchemaInv, SchemaTypeOK
<1>3. AllDue => AllDue'
  <2> SUFFICES ASSUME AllDue PROVE AllDue'
    OBVIOUS
  <2>1. TriggersDue' /\ WideTriggersDue' /\ IndexDue' /\ SwapDue'
    BY DEF CallMoves, AllDue, TriggersDue, WideTriggersDue, IndexDue, SwapDue, SomeAt
  <2>2. RowsDue'
    BY DEF CallMoves, AllDue, RowsDue, SomeAt, WillLook
  <2>3. ColumnsDue'
    BY DEF CallMoves, AllDue, ColumnsDue, WillAdd, AtUtm
  <2> QED  BY <2>1, <2>2, <2>3 DEF AllDue
<1> QED  BY <1>1, <1>2, <1>3 DEF SchemaInv

LEMMA OutsideTyped ==
    Outside \in AnEnsure /\ Outside.at = "outside" /\ Outside.col = 1 /\ Outside.saw = {}
BY NumCols DEF Outside, AnEnsure, EnsurePlaces

\* The rebuild of the table: whoever comes so far has seen every column.
LEMMA ReadsStatusKeeps ==
    ASSUME SchemaInv, NEW p \in Ensurers, ReadsStatus(p) PROVE SchemaInv'
<1>1. /\ ensure[p].at = "widen" /\ columns = Cols /\ txn.by # p /\ wlock # p /\ status # "absent"
      /\ UNCHANGED <<status, columns, umrRows, inserted, rebuilt, search, triggers, txn, wlock, killed>>
  BY Knows DEF ReadsStatus, At, umrTable, searchIndex, CallKnows
<1>2. CASE status = "new"
  <2>1. CallMoves(p, "outside", 1, {})
    BY <1>2, CallTyped, OutsideTyped DEF CallMoves, ReadsStatus
  <2> QED  BY <1>1, <2>1, LeavesQuietly
<1>3. CASE status # "new"
  <2> DEFINE new == [ensure[p] EXCEPT !.at = "lock", !.saw = columns]
  <2>1. new \in AnEnsure /\ new.at = "lock" /\ new.saw = Cols
    BY <1>1, CallTyped DEF AnEnsure, EnsurePlaces
  <2>2. ensure' = [ensure EXCEPT ![p].at = "lock", ![p].saw = columns]
    BY <1>3 DEF ReadsStatus
  <2>3. ensure' = [ensure EXCEPT ![p] = new]
    BY <2>2, Zenon
  <2> HIDE DEF new
  <2>4. CallMoves(p, "lock", new.col, Cols)
    BY <2>1, <2>3, CallTyped DEF CallMoves
  <2>5. SchemaTypeOK'
    BY <1>1, <2>4 DEF SchemaInv, SchemaTypeOK, CallMoves, AnEnsure, EnsurePlaces
  <2>6. RowsSafe'
    <3>1. CallKnows(p)'
      BY <1>1, <2>4 DEF CallKnows, CallMoves, AtUtm, Cols
    <3> QED  BY <1>1, <2>4, <3>1, OthersKnow
  <2>7. AllDue => AllDue'
    <3> SUFFICES ASSUME AllDue PROVE AllDue'
      OBVIOUS
    <3>1. TriggersDue' /\ WideTriggersDue' /\ IndexDue' /\ SwapDue'
      BY <1>1, <2>4 DEF CallMoves, AllDue, TriggersDue, WideTriggersDue, IndexDue, SwapDue, SomeAt
    <3>2. RowsDue'
      BY <1>1, <2>4 DEF CallMoves, AllDue, RowsDue, SomeAt, WillLook
    <3>3. ColumnsDue'
      BY <1>1 DEF ColumnsDue, Cols
    <3> QED  BY <3>1, <3>2, <3>3 DEF AllDue
  <2> QED  BY <1>1, <2>5, <2>6, <2>7 DEF SchemaInv
<1> QED  BY <1>2, <1>3

LEMMA TakesLockKeeps ==
    ASSUME SchemaInv, NEW p \in Ensurers, TakesLock(p) PROVE SchemaInv'
<1>1. /\ ensure[p].at = "lock" /\ wlock = "none" /\ ensure[p].saw = Cols
      /\ columns = Cols /\ txn.by # p /\ status # "absent" /\ p # "none"
      /\ UNCHANGED <<status, columns, umrRows, inserted, rebuilt, search, triggers, txn, killed>>
  BY Knows, UmrSchemaAssumption DEF TakesLock, At, umrTable, searchIndex, CallKnows
<1>2. CASE status = "new" /\ ensure' = [ensure EXCEPT ![p] = Outside] /\ UNCHANGED wlock
  <2>1. CallMoves(p, "outside", 1, {})
    BY <1>2, CallTyped, OutsideTyped DEF CallMoves
  <2> QED  BY <1>1, <1>2, <2>1, LeavesQuietly
<1>3. CASE status = "old" /\ wlock' = p /\ Steps(p, "rebuild")
  <2>1. CallMoves(p, "rebuild", ensure[p].col, Cols)
    BY <1>1, <1>3, StepsMoves DEF EnsurePlaces
  <2>2. SchemaTypeOK'
    BY <1>1, <1>3, <2>1 DEF SchemaInv, SchemaTypeOK, CallMoves, AnEnsure, EnsurePlaces
  <2>3. RowsSafe'
    <3>1. CallKnows(p)'
      BY <1>1, <1>3, <2>1 DEF CallKnows, CallMoves, AtUtm, Cols
    <3>2. ASSUME NEW q \in Ensurers, q # p PROVE CallKnows(q)'
      <4>1. ensure'[q] = ensure[q] /\ CallKnows(q) /\ wlock # q /\ wlock' # q
        BY <1>1, <1>3, <2>1, <3>2, Knows, UmrSchemaAssumption DEF CallMoves
      <4> QED  BY <1>1, <4>1 DEF CallKnows
    <3> QED  BY <1>1, <3>1, <3>2 DEF SchemaInv, RowsSafe
  <2>4. AllDue => AllDue'
    <3> SUFFICES ASSUME AllDue PROVE AllDue'
      OBVIOUS
    <3>1. TriggersDue' /\ WideTriggersDue' /\ IndexDue' /\ SwapDue'
      BY <1>1, <2>1 DEF CallMoves, AllDue, TriggersDue, WideTriggersDue, IndexDue, SwapDue, SomeAt
    <3>2. RowsDue'
      BY <1>1, <2>1 DEF CallMoves, AllDue, RowsDue, SomeAt, WillLook
    <3>3. ColumnsDue'
      BY <1>1 DEF ColumnsDue, Cols
    <3> QED  BY <3>1, <3>2, <3>3 DEF AllDue
  <2> QED  BY <1>1, <2>2, <2>3, <2>4 DEF SchemaInv
<1> QED  BY <1>2, <1>3 DEF TakesLock

LEMMA TablesTyped ==
    /\ NotRebuilt \in [there : BOOLEAN, columns : SUBSET Cols] /\ ~NotRebuilt.there
    /\ NoTxn \in [by : Ensurers \cup {"none"}, rows : SUBSET UmrIds] /\ NoTxn.by = "none"
<1>1. PICK no \in BOOLEAN : no = FALSE
  OBVIOUS
<1>2. NotRebuilt = [there |-> no, columns |-> {}]
  BY <1>1 DEF NotRebuilt
<1>3. NotRebuilt \in [there : BOOLEAN, columns : SUBSET Cols] /\ NotRebuilt.there = no
  BY <1>2
<1> QED
  BY <1>1, <1>3 DEF NoTxn

LEMMA CreatesRebuiltKeeps ==
    ASSUME SchemaInv, NEW p \in Ensurers, CreatesRebuilt(p) PROVE SchemaInv'
<1>1. /\ ensure[p].at = "rebuild" /\ wlock = p /\ ensure[p].saw = Cols
      /\ columns = Cols /\ txn.by # p /\ status # "absent" /\ p # "none"
      /\ UNCHANGED <<status, columns, umrRows, inserted, killed>>
      /\ triggers' = FALSE
      /\ search' = [columns |-> "none", rows |-> {}]
  BY Knows, UmrSchemaAssumption DEF CreatesRebuilt, At, umrTable, CallKnows
<1>2. \A q \in Ensurers : q # p => ensure[q].at \notin {"rebuild", "copy", "swap"}
  BY <1>1, Knows DEF CallKnows
<1>3. CASE rebuilt.there /\ Leaves(p) /\ UNCHANGED rebuilt
  <2>1. CallMoves(p, "outside", 1, {}) /\ txn' = txn /\ wlock' = "none"
    BY <1>1, <1>3, LeavesMoves DEF Leaves
  <2>2. SchemaTypeOK'
    BY <1>1, <1>3, <2>1 DEF SchemaInv, SchemaTypeOK, CallMoves, AnEnsure, EnsurePlaces
  <2>3. RowsSafe'
    <3>1. CallKnows(p)'
      BY <1>1, <2>1 DEF CallKnows, CallMoves, AtUtm
    <3>2. ASSUME NEW q \in Ensurers, q # p PROVE CallKnows(q)'
      <4>1. ensure'[q] = ensure[q] /\ CallKnows(q) /\ wlock' # q
        BY <2>1, <3>2, Knows, UmrSchemaAssumption DEF CallMoves
      <4>2. ensure[q].at \notin {"rebuild", "copy", "swap"}
        BY <1>2, <3>2
      <4> QED  BY <1>1, <1>3, <2>1, <4>1, <4>2 DEF CallKnows
    <3> QED  BY <1>1, <1>3, <2>1, <3>1, <3>2 DEF SchemaInv, RowsSafe
  <2>4. ~AllDue
    BY <1>1, <1>2, <1>3 DEF AllDue, SwapDue, SomeAt
  <2> QED  BY <1>1, <2>2, <2>3, <2>4 DEF SchemaInv
<1>4. CASE /\ rebuilt' = [there |-> TRUE, columns |-> ensure[p].saw]
           /\ Steps(p, "copy") /\ UNCHANGED <<txn, wlock>>
  <2>1. CallMoves(p, "copy", ensure[p].col, Cols)
    BY <1>1, <1>4, StepsMoves DEF EnsurePlaces
  <2>2. /\ rebuilt' \in [there : BOOLEAN, columns : SUBSET Cols]
        /\ rebuilt'.there /\ rebuilt'.columns = Cols
    <3>1. PICK yes \in BOOLEAN : yes = TRUE
      OBVIOUS
    <3>2. rebuilt' = [there |-> yes, columns |-> Cols]
      BY <1>1, <1>4, <3>1
    <3>3. /\ rebuilt' \in [there : BOOLEAN, columns : SUBSET Cols]
          /\ rebuilt'.there = yes /\ rebuilt'.columns = Cols
      BY <3>2
    <3> QED  BY <3>1, <3>3
  <2>3. SchemaTypeOK'
    BY <1>1, <1>4, <2>1, <2>2 DEF SchemaInv, SchemaTypeOK, CallMoves, AnEnsure, EnsurePlaces
  <2>4. RowsSafe'
    <3>1. CallKnows(p)'
      BY <1>1, <1>4, <2>1, <2>2 DEF CallKnows, CallMoves, AtUtm, Cols
    <3>2. ASSUME NEW q \in Ensurers, q # p PROVE CallKnows(q)'
      <4>1. ensure'[q] = ensure[q] /\ CallKnows(q)
        BY <2>1, <3>2, Knows DEF CallMoves
      <4> QED  BY <1>1, <1>4, <2>2, <4>1 DEF CallKnows
    <3> QED  BY <1>1, <1>4, <2>2, <3>1, <3>2 DEF SchemaInv, RowsSafe, Cols
  <2>5. AllDue'
    BY <1>1, <2>1 DEF CallMoves, AllDue, TriggersDue, WideTriggersDue, IndexDue, RowsDue,
                      ColumnsDue, SwapDue, SomeAt, Cols
  <2> QED  BY <1>1, <2>3, <2>4, <2>5 DEF SchemaInv
<1> QED  BY <1>3, <1>4 DEF CreatesRebuilt

LEMMA CopiesKeeps ==
    ASSUME SchemaInv, NEW p \in Ensurers, Copies(p) PROVE SchemaInv'
<1>1. /\ ensure[p].at = "copy" /\ wlock = p /\ ensure[p].saw = Cols
      /\ columns = Cols /\ txn.by = "none" /\ status # "absent" /\ p # "none" /\ rebuilt.there
      /\ UNCHANGED <<status, columns, umrRows, inserted, rebuilt, search, triggers, killed>>
  BY Knows, UmrSchemaAssumption DEF Copies, At, umrTable, searchIndex, CallKnows
<1>2. rebuilt.columns = Cols /\ umrRows \subseteq UmrIds
  BY <1>1 DEF SchemaInv, RowsSafe, SchemaTypeOK
<1>3. txn' = [by |-> p, rows |-> umrRows] /\ Steps(p, "swap") /\ UNCHANGED wlock
  BY <1>1, <1>2 DEF Copies
<1>4. CallMoves(p, "swap", ensure[p].col, Cols)
  BY <1>1, <1>3, StepsMoves DEF EnsurePlaces
<1>5. SchemaTypeOK'
  BY <1>1, <1>2, <1>3, <1>4 DEF SchemaInv, SchemaTypeOK, CallMoves, AnEnsure, EnsurePlaces
<1>6. RowsSafe'
  <2>1. CallKnows(p)'
    BY <1>1, <1>3, <1>4 DEF CallKnows, CallMoves, AtUtm, Cols
  <2>2. ASSUME NEW q \in Ensurers, q # p PROVE CallKnows(q)'
    <3>1. ensure'[q] = ensure[q] /\ CallKnows(q) /\ txn.by # q /\ txn'.by # q
      BY <1>1, <1>3, <1>4, <2>2, Knows, UmrSchemaAssumption DEF CallMoves
    <3> QED  BY <1>1, <1>3, <3>1 DEF CallKnows
  <2> QED  BY <1>1, <1>2, <1>3, <2>1, <2>2 DEF SchemaInv, RowsSafe, Cols
<1>7. AllDue => AllDue'
  BY <1>1, <1>4 DEF CallMoves, AllDue, TriggersDue, WideTriggersDue, IndexDue, RowsDue,
                    ColumnsDue, SwapDue, SomeAt, Cols
<1> QED  BY <1>1, <1>5, <1>6, <1>7 DEF SchemaInv

\* The rows are exchanged for their copies in one transaction.
LEMMA SwapsKeeps ==
    ASSUME SchemaInv, NEW p \in Ensurers, Swaps(p) PROVE SchemaInv'
<1>1. /\ ensure[p].at = "swap" /\ wlock = p /\ columns = Cols /\ txn.by = p /\ rebuilt.there
      /\ p # "none"
  BY Knows, UmrSchemaAssumption DEF Swaps, At, CallKnows
<1>2. rebuilt.columns = Cols /\ txn.rows = umrRows
  BY <1>1 DEF SchemaInv, RowsSafe
<1>3. /\ status' = "new" /\ umrRows' = umrRows /\ columns' = Cols /\ rebuilt' = NotRebuilt
      /\ search' = [columns |-> IF search.columns = "none" THEN "narrow" ELSE search.columns,
                    rows |-> umrRows]
      /\ triggers' = TRUE /\ UNCHANGED <<inserted, killed>>
      /\ CallMoves(p, "outside", 1, {}) /\ txn' = NoTxn /\ wlock' = "none"
  BY <1>1, <1>2, LeavesMoves DEF Swaps, Leaves
<1>4. /\ search'.columns # "none" /\ search'.rows = umrRows
      /\ search' \in [columns : {"none", "narrow", "wide"}, rows : SUBSET UmrIds]
  BY <1>3 DEF SchemaInv, SchemaTypeOK
<1>5. ~rebuilt'.there /\ txn'.by = "none"
  BY <1>3, TablesTyped
<1>6. SchemaTypeOK'
  BY <1>3, <1>4, TablesTyped DEF SchemaInv, SchemaTypeOK, CallMoves, AnEnsure, EnsurePlaces, Cols
<1>7. RowsSafe'
  <2>1. CallKnows(p)'
    BY <1>1, <1>3, <1>5 DEF CallKnows, CallMoves, AtUtm
  <2>2. ASSUME NEW q \in Ensurers, q # p PROVE CallKnows(q)'
    <3>1. ensure'[q] = ensure[q] /\ CallKnows(q) /\ q # "none"
      BY <1>3, <2>2, Knows, UmrSchemaAssumption DEF CallMoves
    <3>2. ensure[q].at \notin {"rebuild", "copy", "swap"}
      BY <1>1, <2>2, <3>1 DEF CallKnows
    <3>3. \A j \in 1 .. Len(AddedCols) : AddedCols[j] \in columns'
      BY <1>3, NumCols
    <3> QED  BY <1>1, <1>3, <1>5, <3>1, <3>2, <3>3 DEF CallKnows, Cols
  <2> QED  BY <1>3, <1>5, <2>1, <2>2 DEF SchemaInv, RowsSafe
<1>8. AllDue'
  BY <1>3, <1>4, <1>5 DEF AllDue, TriggersDue, WideTriggersDue, IndexDue, RowsDue,
                          ColumnsDue, SwapDue, Cols
<1> QED  BY <1>6, <1>7, <1>8 DEF SchemaInv

\* A kill gives up the transaction and the lock.
LEMMA EnsureKilledKeeps ==
    ASSUME SchemaInv, NEW p \in Ensurers, EnsureKilled(p) PROVE SchemaInv'
<1>1. /\ CallMoves(p, "outside", 1, {})
      /\ UNCHANGED <<status, columns, umrRows, inserted, rebuilt, search, triggers>>
      /\ txn' = IF txn.by = p THEN NoTxn ELSE txn
      /\ wlock' = IF wlock = p THEN "none" ELSE wlock
  BY LeavesMoves DEF EnsureKilled, Leaves, umrTable, searchIndex
<1>2. killed' \in 0 .. MaxKilled /\ killed' # 0
  <2>1. killed \in 0 .. MaxKilled /\ MaxKilled \in Nat
    BY UmrSchemaAssumption DEF SchemaInv, SchemaTypeOK
  <2>2. killed < MaxKilled /\ killed' = killed + 1
    BY DEF EnsureKilled
  <2> QED  BY <2>1, <2>2
<1>3. txn' \in [by : Ensurers \cup {"none"}, rows : SUBSET UmrIds] /\ p # "none"
  BY <1>1, TablesTyped, UmrSchemaAssumption DEF SchemaInv, SchemaTypeOK
<1>4. SchemaTypeOK'
  BY <1>1, <1>2, <1>3 DEF SchemaInv, SchemaTypeOK, CallMoves, AnEnsure, EnsurePlaces
<1>5. RowsSafe'
  <2>1. CallKnows(p)'
    BY <1>1, <1>3, TablesTyped DEF CallKnows, CallMoves, AtUtm
  <2>2. ASSUME NEW q \in Ensurers, q # p PROVE CallKnows(q)'
    <3>1. ensure'[q] = ensure[q] /\ CallKnows(q) /\ q # "none"
      BY <1>1, <2>2, Knows, UmrSchemaAssumption DEF CallMoves
    <3>2. (txn'.by = q <=> txn.by = q) /\ (wlock' = q <=> wlock = q)
      BY <1>1, <2>2, <3>1, TablesTyped
    <3> QED  BY <1>1, <3>1, <3>2 DEF CallKnows
  <2>3. txn'.by # "none" => txn'.rows = umrRows
    BY <1>1, TablesTyped DEF SchemaInv, RowsSafe
  <2> QED  BY <1>1, <2>1, <2>2, <2>3 DEF SchemaInv, RowsSafe
<1> QED  BY <1>2, <1>4, <1>5 DEF SchemaInv

\* A row inserted without triggers is one that a call will fill the index with.
LEMMA InsertsKeeps ==
    ASSUME SchemaInv, NEW r \in UmrIds, Inserts(r) PROVE SchemaInv'
<1>1. /\ umrRows' = umrRows \cup {r} /\ inserted' = inserted \cup {r} /\ txn.by = "none"
      /\ status # "absent"
      /\ UNCHANGED <<status, columns, rebuilt, triggers, txn, wlock, ensure, killed>>
  BY DEF Inserts
<1>2. /\ search' \in [columns : {"none", "narrow", "wide"}, rows : SUBSET UmrIds]
      /\ search'.columns = search.columns
      /\ search'.rows = IF triggers THEN search.rows \cup {r} ELSE search.rows
  BY DEF Inserts, SchemaInv, SchemaTypeOK
<1>3. SchemaTypeOK'
  BY <1>1, <1>2 DEF SchemaInv, SchemaTypeOK
<1>4. RowsSafe'
  BY <1>1 DEF SchemaInv, RowsSafe, CallKnows
<1>5. AllDue => AllDue'
  <2> SUFFICES ASSUME AllDue PROVE AllDue'
    OBVIOUS
  <2>1. TriggersDue' /\ WideTriggersDue' /\ IndexDue' /\ SwapDue'
    BY <1>1, <1>2 DEF AllDue, TriggersDue, WideTriggersDue, IndexDue, SwapDue, SomeAt
  <2>2. \A q \in Ensurers : WillLook(q)' <=> WillLook(q)
    BY <1>1 DEF WillLook
  <2>3. RowsDue'
    <3>1. CASE search.rows = umrRows /\ triggers
      BY <1>1, <1>2, <3>1 DEF RowsDue
    <3>2. CASE ~triggers
      <4>1. CASE SomeAt({"utm index", "utm create", "utm keep", "copy", "swap"})
        BY <1>1, <4>1 DEF RowsDue, SomeAt
      <4>2. CASE ~SomeAt({"utm index", "utm create", "utm keep", "copy", "swap"})
        <5>1. PICK q \in Ensurers : ensure[q].at \in {"index", "triggers"}
          BY <1>1, <3>2, <4>2 DEF AllDue, TriggersDue, SomeAt
        <5>2. search.columns # "wide"
          BY <3>2, <4>2 DEF AllDue, WideTriggersDue
        <5>3. WillLook(q)
          BY <5>1 DEF WillLook
        <5> QED  BY <1>2, <2>2, <5>2, <5>3 DEF RowsDue
      <4> QED  BY <4>1, <4>2
    <3>3. CASE search.rows # umrRows
      BY <1>1, <1>2, <2>2, <3>3 DEF AllDue, RowsDue, SomeAt
    <3> QED  BY <3>1, <3>2, <3>3
  <2>4. ColumnsDue'
    BY <1>1 DEF AllDue, ColumnsDue, WillAdd
  <2> QED  BY <2>1, <2>3, <2>4 DEF AllDue
<1> QED  BY <1>1, <1>3, <1>4, <1>5 DEF SchemaInv

LEMMA SchemaInitially == SchemaInit => SchemaInv
<1> SUFFICES ASSUME SchemaInit PROVE SchemaInv
  OBVIOUS
<1>1. SchemaTypeOK
  <2>1. killed \in 0 .. MaxKilled
    BY UmrSchemaAssumption DEF SchemaInit
  <2>2. ensure \in [Ensurers -> AnEnsure]
    BY OutsideTyped DEF SchemaInit
  <2>3. search \in [columns : {"none", "narrow", "wide"}, rows : SUBSET UmrIds]
    BY DEF SchemaInit
  <2> QED
    BY <2>1, <2>2, <2>3, TablesTyped DEF SchemaInit, SchemaTypeOK, AnEnsure, EnsurePlaces
<1>2. RowsSafe
  <2>1. ASSUME NEW p \in Ensurers PROVE CallKnows(p)
    <3>1. ensure[p].at = "outside" /\ ensure[p].col = 1
      BY OutsideTyped DEF SchemaInit
    <3> QED  BY <3>1, TablesTyped, UmrSchemaAssumption DEF SchemaInit, CallKnows, AtUtm
  <2> QED  BY <2>1, TablesTyped DEF SchemaInit, RowsSafe
<1>3. AllDue
  <2>1. /\ search.rows = {} /\ umrRows = {} /\ ~rebuilt.there /\ search.columns # "wide"
        /\ status # "new" /\ (status = "absent" \/ (triggers /\ search.columns # "none"))
    BY TablesTyped DEF SchemaInit
  <2> QED
    BY <2>1 DEF AllDue, TriggersDue, WideTriggersDue, IndexDue, RowsDue, ColumnsDue, SwapDue
<1> QED  BY <1>1, <1>2, <1>3 DEF SchemaInv

LEMMA SchemaStep == SchemaInv /\ [SchemaNext]_schemavars => SchemaInv'
<1> SUFFICES ASSUME SchemaInv, [SchemaNext]_schemavars PROVE SchemaInv'
  OBVIOUS
<1>1. CASE UNCHANGED schemavars
  <2>1. SchemaTypeOK' /\ RowsSafe'
    BY <1>1 DEF schemavars, SchemaInv, SchemaTypeOK, RowsSafe, CallKnows
  <2>2. AllDue => (TriggersDue /\ WideTriggersDue /\ IndexDue /\ SwapDue)'
    BY <1>1 DEF schemavars, AllDue, TriggersDue, WideTriggersDue, IndexDue, SwapDue, SomeAt
  <2>3. AllDue => RowsDue' /\ ColumnsDue'
    <3>1. \A q \in Ensurers : (WillLook(q)' <=> WillLook(q)) /\ (WillAdd(q)' <=> WillAdd(q))
      BY <1>1 DEF schemavars, WillLook, WillAdd
    <3> QED
      BY <1>1, <3>1 DEF schemavars, AllDue, RowsDue, ColumnsDue, SomeAt
  <2> QED  BY <1>1, <2>1, <2>2, <2>3 DEF schemavars, SchemaInv, AllDue
<1>2. ASSUME NEW p \in Ensurers,
             \/ CallsEnsure(p) \/ CreatesTable(p) \/ CreatesIndex(p) \/ CreatesTriggers(p)
             \/ LooksForColumn(p) \/ AddsColumn(p) \/ LooksAtIndex(p)
             \/ DropsTriggers(p) \/ DropsIndex(p) \/ CreatesUtmIndex(p) \/ KeepsUtmIndex(p)
             \/ FillsUtmIndex(p)
             \/ ReadsStatus(p) \/ TakesLock(p) \/ CreatesRebuilt(p) \/ Copies(p) \/ Swaps(p)
             \/ EnsureKilled(p)
      PROVE  SchemaInv'
  BY <1>2, CallsEnsureKeeps, CreatesTableKeeps, CreatesIndexKeeps, CreatesTriggersKeeps,
     LooksForColumnKeeps, AddsColumnKeeps, LooksAtIndexKeeps, DropsTriggersKeeps, DropsIndexKeeps,
     CreatesUtmIndexKeeps, KeepsUtmIndexKeeps, FillsUtmIndexKeeps, ReadsStatusKeeps, TakesLockKeeps,
     CreatesRebuiltKeeps, CopiesKeeps, SwapsKeeps, EnsureKilledKeeps
<1>3. ASSUME NEW r \in UmrIds, Inserts(r) PROVE SchemaInv'
  BY <1>3, InsertsKeeps
<1> QED  BY <1>1, <1>2, <1>3 DEF SchemaNext

\* No row and no column is lost by an upgrade of the schema, and once no call is at work and
\* none was killed the index holds every row: for any number of callers, rows and columns
\* (_ensure_umr_table).
THEOREM UpgradeKeepsRows == SchemaSpec => []RowsKeptAndFound
<1>1. SchemaInv => RowsKeptAndFound
  <2> SUFFICES ASSUME SchemaInv, status = "new", \A p \in Ensurers : At(p, "outside"), killed = 0
               PROVE  search.rows = umrRows /\ columns = Cols
    BY DEF RowsKeptAndFound, SchemaInv, RowsSafe
  <2>1. search.rows = umrRows
    BY DEF SchemaInv, AllDue, RowsDue, SomeAt, WillLook, At
  <2>2. columns = Cols
    BY DEF SchemaInv, AllDue, ColumnsDue, WillAdd, At, AtUtm
  <2> QED  BY <2>1, <2>2
<1> QED
  BY SchemaInitially, SchemaStep, <1>1, PTL DEF SchemaSpec

-----------------------------------------------------------------------------
(* Backups *)

\* A set of naturals that is not empty and has a bound has a greatest member.
LEMMA Greatest ==
    ASSUME NEW N \in Nat, NEW S \in SUBSET (1 .. N), S # {}
    PROVE  \E m \in S : \A c \in S : c <= m
<1> DEFINE T == {N - c : c \in S}
           R == OpToRel(<, Nat)
<1>1. IsWellFoundedOn(R, Nat)
  BY NatLessThanWellFounded
<1>2. T \subseteq Nat /\ T # {}
  <2>1. \A c \in S : N - c \in Nat
    OBVIOUS
  <2>2. PICK c \in S : TRUE
    OBVIOUS
  <2>3. N - c \in T
    BY <2>2
  <2> QED  BY <2>1, <2>3
<1> HIDE DEF T
<1>3. \E x \in T : \A y \in T : ~(<<y, x>> \in R)
  <2> HIDE DEF R
  <2> QED  BY <1>1, <1>2, WFMin
<1>4. PICK x \in T : \A y \in T : ~(<<y, x>> \in R)
  BY <1>3
<1>5. ASSUME NEW y \in T PROVE ~(y < x)
  <2>1. <<y, x>> \in Nat \X Nat /\ <<y, x>>[1] = y /\ <<y, x>>[2] = x
    BY <1>2
  <2> QED  BY <1>4, <2>1 DEF OpToRel
<1>6. PICK m \in S : x = N - m
  BY DEF T
<1>7. ASSUME NEW c \in S PROVE c <= m
  <2>1. N - c \in T /\ N - c \in Nat
    BY <1>2 DEF T
  <2> QED  BY <1>5, <1>6, <2>1
<1> QED  BY <1>7

(* Backups *)

\* A snapshot and a prune at their work.
ASnapper == [pc : {"idle", "look", "write", "copying", "copied"}, copy : 0 .. MaxCopies]
APruner == [pc : {"idle", "verify", "delete"}, left : SUBSET CopyIds,
            verified : SUBSET CopyIds, doomed : SUBSET CopyIds]

\* A part of the copies is finite.
LEMMA CopiesFinite ==
    /\ CopyIds \subseteq Nat /\ MaxCopies \in Nat /\ Keep \in Nat
    /\ \A S \in SUBSET CopyIds :
          /\ IsFiniteSet(S) /\ Cardinality(S) \in Nat
          /\ \A T \in SUBSET S : Cardinality(T) <= Cardinality(S)
<1>1. MaxCopies \in Nat /\ Keep \in Nat
  BY BackupsAssumption
<1>2. IsFiniteSet(1 .. MaxCopies)
  BY <1>1, FS_Interval
<1>3. ASSUME NEW S \in SUBSET CopyIds
      PROVE  /\ IsFiniteSet(S) /\ Cardinality(S) \in Nat
             /\ \A T \in SUBSET S : Cardinality(T) <= Cardinality(S)
  BY <1>2, FS_Subset, FS_CardinalityType DEF CopyIds
<1> QED  BY <1>1, <1>3 DEF CopyIds

\* The newest n of a set of copies are n of them, or all: if one is left out, n are newer than
\* the newest that is, and all of those are taken.
LEMMA NewestAreEnough ==
    ASSUME NEW S \in SUBSET CopyIds, NEW n \in Nat
    PROVE  Newest(S, n) = S \/ Cardinality(Newest(S, n)) >= n
<1> DEFINE M == S \ Newest(S, n)
<1>1. CASE M = {}
  BY <1>1 DEF Newest
<1>2. CASE M # {}
  <2>1. M \in SUBSET (1 .. MaxCopies)
    BY DEF CopyIds
  <2>2. PICK m \in M : \A c \in M : c <= m
    <3> HIDE DEF M
    <3> QED  BY <1>2, <2>1, CopiesFinite, Greatest
  <2> DEFINE Newer == {d \in S : d > m}
  <2>3. Newer \in SUBSET CopyIds /\ Newest(S, n) \in SUBSET CopyIds
    BY DEF Newest
  <2>4. Cardinality(Newer) >= n
    <3>1. Cardinality(Newer) \in Nat
      BY <2>3, CopiesFinite
    <3>2. ~(Cardinality(Newer) < n)
      BY <2>2 DEF Newest
    <3> HIDE DEF Newer
    <3> QED  BY <3>1, <3>2
  <2>5. Newer \subseteq Newest(S, n)
    <3> SUFFICES ASSUME NEW d \in Newer PROVE d \in Newest(S, n)
      OBVIOUS
    <3>1. d \in Nat /\ m \in Nat /\ d > m
      BY <2>1, <2>3, CopiesFinite
    <3>2. d \notin M
      BY <2>2, <3>1
    <3> QED  BY <3>2
  <2> HIDE DEF Newer
  <2>6. Cardinality(Newer) <= Cardinality(Newest(S, n)) /\ Cardinality(Newer) \in Nat
        /\ Cardinality(Newest(S, n)) \in Nat
    BY <2>3, <2>5, CopiesFinite
  <2> QED  BY <2>4, <2>6
<1> QED  BY <1>1, <1>2

\* The copies a prune knows of were begun; those it found to verify are good until it
\* deletes, and from then on the newest of them are, which it does not delete.
PruneInv ==
    /\ BackupsTypeOK
    /\ \A c \in CopyIds : c > begun => backup[c] = "absent"
    /\ \A p \in Pruners :
          /\ \A c \in pruner[p].verified : c <= begun
          /\ pruner[p].pc = "idle" => pruner[p].verified = {}
          /\ pruner[p].pc = "verify" => \A c \in pruner[p].verified : backup[c] = "good"
          /\ pruner[p].pc = "delete" =>
                /\ \A c \in Newest(pruner[p].verified, Keep) : backup[c] = "good"
                /\ Newest(pruner[p].verified, Keep) \cap pruner[p].doomed = {}

LEMMA NewestArePart == \A S, n : Newest(S, n) \subseteq S
BY DEF Newest

LEMMA PruneInitially == BackupsInit => PruneInv
<1> SUFFICES ASSUME BackupsInit PROVE PruneInv
  OBVIOUS
<1>1. NoSnap \in ASnapper /\ NoPrune \in APruner /\ NoPrune.pc = "idle" /\ NoPrune.verified = {}
  BY CopiesFinite DEF NoSnap, NoPrune, ASnapper, APruner
<1>2. BackupsTypeOK
  BY <1>1, BackupsAssumption DEF BackupsInit, BackupsTypeOK, ASnapper, APruner
<1> QED
  BY <1>1, <1>2 DEF BackupsInit, PruneInv

\* What is good stays good, and new copies have new numbers.
GoodStays ==
    /\ backup' \in [CopyIds -> {"absent", "partial", "good", "corrupt"}]
    /\ begun' \in 0 .. MaxCopies /\ begun <= begun'
    /\ \A c \in CopyIds : c <= begun /\ backup[c] = "good" => backup'[c] = "good"
    /\ \A c \in CopyIds : c > begun' => backup'[c] = "absent"

\* A step that leaves the prunes alone, and what is good.
LEMMA PrunesKept ==
    ASSUME PruneInv, GoodStays, BackupsTypeOK', UNCHANGED pruner
    PROVE  PruneInv'
<1>1. ASSUME NEW p \in Pruners, NEW c \in pruner[p].verified
      PROVE  c \in CopyIds /\ c <= begun /\ c <= begun' /\ (backup[c] = "good" => backup'[c] = "good")
  <2>1. c \in CopyIds /\ c <= begun /\ begun \in Nat /\ begun' \in Nat /\ c \in Nat
    BY <1>1, CopiesFinite DEF PruneInv, BackupsTypeOK, APruner
  <2> QED  BY <2>1 DEF GoodStays
<1> QED
  BY <1>1, NewestArePart DEF PruneInv, GoodStays

\* A prune that moves on while the copies stay.
LEMMA PruneMovesOn ==
    ASSUME PruneInv, NEW p \in Pruners, NEW new \in APruner,
           pruner' = [pruner EXCEPT ![p] = new],
           UNCHANGED <<backup, begun, dayStart, healthy, snapper>>,
           unwells' \in 0 .. MaxUnwells,
           \A c \in new.verified : c <= begun,
           new.pc = "idle" => new.verified = {},
           new.pc = "verify" => \A c \in new.verified : backup[c] = "good",
           new.pc = "delete" => /\ \A c \in Newest(new.verified, Keep) : backup[c] = "good"
                                /\ Newest(new.verified, Keep) \cap new.doomed = {}
    PROVE  PruneInv'
<1>1. BackupsTypeOK'
  BY DEF PruneInv, BackupsTypeOK, APruner
<1>2. \A q \in Pruners : pruner'[q] = IF q = p THEN new ELSE pruner[q]
  BY DEF PruneInv, BackupsTypeOK
<1> QED
  BY <1>1, <1>2 DEF PruneInv

LEMMA NoPruneTyped ==
    NoPrune \in APruner /\ NoPrune.pc = "idle" /\ NoPrune.verified = {}
BY DEF NoPrune, APruner

LEMMA SnapAtTyped ==
    ASSUME PruneInv, NEW s \in Snappers, NEW pc \in {"idle", "look", "write", "copying", "copied"},
           NEW c \in 0 .. MaxCopies, SnapAt(s, pc, c)
    PROVE  snapper' \in [Snappers -> ASnapper]
<1>1. [pc |-> pc, copy |-> c] \in ASnapper
  BY DEF ASnapper
<1> QED
  BY <1>1 DEF SnapAt, PruneInv, BackupsTypeOK, ASnapper

\* Snapshots.
LEMMA SnapStep ==
    ASSUME PruneInv, NEW s \in Snappers,
           SnapBegins(s) \/ SnapLooks(s) \/ SnapOpens(s) \/ SnapCopies(s) \/ SnapVerifies(s)
    PROVE  PruneInv'
<1>1. 0 \in 0 .. MaxCopies /\ begun \in Nat
  BY CopiesFinite DEF PruneInv, BackupsTypeOK
<1>2. CASE SnapBegins(s) \/ SnapLooks(s)
  <2>1. snapper' \in [Snappers -> ASnapper]
    BY <1>1, <1>2, SnapAtTyped DEF SnapBegins, SnapLooks
  <2>2. UNCHANGED <<backup, begun, dayStart, healthy, pruner, unwells>>
    BY <1>2 DEF SnapBegins, SnapLooks
  <2>3. GoodStays /\ BackupsTypeOK'
    BY <1>1, <2>1, <2>2 DEF GoodStays, PruneInv, BackupsTypeOK, ASnapper
  <2> QED  BY <2>2, <2>3, PrunesKept
<1>3. CASE SnapOpens(s)
  <2>1. /\ begun < MaxCopies /\ begun' = begun + 1
        /\ backup' = [backup EXCEPT ![begun + 1] = "partial"]
        /\ SnapAt(s, "copying", begun + 1)
        /\ UNCHANGED <<dayStart, healthy, pruner, unwells>>
    BY <1>3 DEF SnapOpens
  <2>2. begun + 1 \in CopyIds /\ begun + 1 \in 0 .. MaxCopies
    BY <1>1, <2>1, CopiesFinite DEF CopyIds
  <2>3. snapper' \in [Snappers -> ASnapper]
    BY <2>1, <2>2, SnapAtTyped
  <2>4. GoodStays
    BY <1>1, <2>1, <2>2, CopiesFinite DEF GoodStays, PruneInv, BackupsTypeOK
  <2>5. dayStart' \in 0 .. begun'
    BY <1>1, <2>1 DEF PruneInv, BackupsTypeOK
  <2>6. BackupsTypeOK'
    BY <2>1, <2>3, <2>4, <2>5 DEF GoodStays, PruneInv, BackupsTypeOK, ASnapper
  <2> QED  BY <2>1, <2>4, <2>6, PrunesKept
<1>4. CASE SnapCopies(s)
  <2> DEFINE c == snapper[s].copy
  <2>1. c \in 0 .. MaxCopies
    BY DEF PruneInv, BackupsTypeOK
  <2>2. UNCHANGED <<begun, dayStart, healthy, pruner, unwells>>
    BY <1>4 DEF SnapCopies
  <2>3. snapper' \in [Snappers -> ASnapper]
    BY <1>1, <1>4, <2>1, SnapAtTyped DEF SnapCopies
  <2>4. \/ backup' = backup
        \/ /\ backup[c] = "partial"
           /\ \E new \in {"good", "corrupt"} : backup' = [backup EXCEPT ![c] = new]
    BY <1>4 DEF SnapCopies
  <2>5. GoodStays
    <3>1. CASE backup' = backup
      BY <1>1, <2>2, <3>1 DEF GoodStays, PruneInv, BackupsTypeOK
    <3>2. CASE /\ backup[c] = "partial"
               /\ \E new \in {"good", "corrupt"} : backup' = [backup EXCEPT ![c] = new]
      <4>1. PICK new \in {"good", "corrupt"} : backup' = [backup EXCEPT ![c] = new]
        BY <3>2
      <4>2. /\ backup' \in [CopyIds -> {"absent", "partial", "good", "corrupt"}]
            /\ \A d \in CopyIds : d # c => backup'[d] = backup[d]
        BY <4>1 DEF PruneInv, BackupsTypeOK
      <4>3. c \in CopyIds => c <= begun
        BY <3>2 DEF PruneInv, BackupsTypeOK
      <4>4. /\ begun' = begun /\ begun \in 0 .. MaxCopies /\ begun <= begun'
            /\ \A d \in CopyIds : d > begun => backup[d] = "absent"
        BY <1>1, <2>2 DEF PruneInv, BackupsTypeOK
      <4>5. \A d \in CopyIds : d > begun' => d # c
        BY <3>2, <4>4
      <4> QED  BY <3>2, <4>2, <4>4, <4>5 DEF GoodStays
    <3> QED  BY <2>4, <3>1, <3>2
  <2>6. BackupsTypeOK'
    BY <2>2, <2>3, <2>5 DEF GoodStays, PruneInv, BackupsTypeOK, ASnapper
  <2> QED  BY <2>2, <2>5, <2>6, PrunesKept
<1>5. CASE SnapVerifies(s)
  <2> DEFINE c == snapper[s].copy
  <2>1. UNCHANGED <<begun, dayStart, healthy, pruner, unwells>> /\ SnapAt(s, "idle", 0)
        /\ backup' = [backup EXCEPT ![c] = IF backup[c] = "good" THEN backup[c] ELSE "absent"]
    BY <1>5 DEF SnapVerifies
  <2>2. snapper' \in [Snappers -> ASnapper]
    BY <1>1, <2>1, SnapAtTyped
  <2>3. GoodStays
    <3>1. PICK to : to = (IF backup[c] = "good" THEN backup[c] ELSE "absent")
      OBVIOUS
    <3>2. backup' = [backup EXCEPT ![c] = to] /\ to \in {"good", "absent"}
      BY <2>1, <3>1
    <3>3. /\ backup' \in [CopyIds -> {"absent", "partial", "good", "corrupt"}]
          /\ \A d \in CopyIds : backup'[d] = (IF d = c THEN to ELSE backup[d])
      BY <3>2 DEF PruneInv, BackupsTypeOK
    <3>4. /\ begun' = begun /\ begun \in 0 .. MaxCopies /\ begun <= begun'
          /\ \A d \in CopyIds : d > begun => backup[d] = "absent"
      BY <1>1, <2>1 DEF PruneInv, BackupsTypeOK
    <3>5. \A d \in CopyIds : /\ backup[d] = "good" => backup'[d] = "good"
                             /\ backup[d] = "absent" => backup'[d] = "absent"
      BY <3>1, <3>2, <3>3
    <3> QED  BY <3>3, <3>4, <3>5 DEF GoodStays
  <2>4. BackupsTypeOK'
    BY <2>1, <2>2, <2>3 DEF GoodStays, PruneInv, BackupsTypeOK, ASnapper
  <2> QED  BY <2>1, <2>3, <2>4, PrunesKept
<1> QED  BY <1>2, <1>3, <1>4, <1>5

\* A prune, of which there is one.
LEMMA PruneStep ==
    ASSUME PruneInv, NEW p \in Pruners, Pruners = {p},
           PruneBegins(p) \/ PruneVerifies(p) \/ PrunePlans(p) \/ PruneDeletes(p)
    PROVE  PruneInv'
<1>1. /\ pruner[p] \in APruner /\ OnDisk \in SUBSET CopyIds
      /\ \A c \in CopyIds : backup[c] # "absent" => c <= begun
  BY CopiesFinite DEF PruneInv, BackupsTypeOK, APruner, OnDisk
<1>2. unwells \in 0 .. MaxUnwells
  BY DEF PruneInv, BackupsTypeOK
<1>3. CASE PruneBegins(p)
  <2> DEFINE new == [pc |-> "verify", left |-> OnDisk, verified |-> {}, doomed |-> OnDisk]
  <2>1. new \in APruner /\ new.pc = "verify" /\ new.verified = {}
    BY <1>1 DEF APruner
  <2>2. /\ pruner' = [pruner EXCEPT ![p] = new]
        /\ UNCHANGED <<backup, begun, dayStart, healthy, snapper, unwells>>
    BY <1>3, Zenon DEF PruneBegins
  <2> HIDE DEF new
  <2> QED  BY <1>2, <2>1, <2>2, PruneMovesOn
<1>4. CASE PruneVerifies(p)
  <2>1. PICK c \in pruner[p].left :
          pruner' = [pruner EXCEPT ![p].left = @ \ {c},
                                   ![p].verified = IF backup[c] = "good" THEN @ \cup {c} ELSE @]
    BY <1>4 DEF PruneVerifies
  <2> DEFINE seen == IF backup[c] = "good" THEN pruner[p].verified \cup {c} ELSE pruner[p].verified
             new == [pruner[p] EXCEPT !.left = pruner[p].left \ {c}, !.verified = seen]
  <2>2. c \in CopyIds
    BY <1>1 DEF APruner
  <2>3. /\ seen \in SUBSET CopyIds /\ pruner[p].pc = "verify"
        /\ \A d \in seen : d <= begun /\ backup[d] = "good"
    BY <1>1, <1>4, <2>2 DEF PruneVerifies, APruner, PruneInv
  <2>4. pruner' = [pruner EXCEPT ![p] = new]
    BY <2>1, Zenon
  <2> HIDE DEF seen
  <2>5. new \in APruner /\ new.pc = "verify" /\ new.verified = seen
    BY <1>1, <2>3 DEF APruner
  <2> HIDE DEF new
  <2> QED
    BY <1>2, <1>4, <2>3, <2>4, <2>5, PruneMovesOn DEF PruneVerifies
<1>5. CASE PrunePlans(p)
  <2> DEFINE spared == Newest(pruner[p].verified, Keep)
             new == [pruner[p] EXCEPT !.pc = "delete", !.doomed = pruner[p].doomed \ spared]
  <2>1. pruner' = [pruner EXCEPT ![p] = new]
    BY <1>5, Zenon DEF PrunePlans, Spared
  <2>2. /\ new \in APruner /\ new.pc = "delete" /\ new.verified = pruner[p].verified
        /\ new.doomed = pruner[p].doomed \ spared
    BY <1>1 DEF APruner
  <2>3. \A c \in pruner[p].verified : c <= begun /\ backup[c] = "good"
    BY <1>5 DEF PrunePlans, PruneInv
  <2> HIDE DEF new
  <2> QED
    BY <1>2, <1>5, <2>1, <2>2, <2>3, NewestArePart, PruneMovesOn DEF PrunePlans
<1>6. CASE PruneDeletes(p)
  <2>1. CASE pruner' = [pruner EXCEPT ![p] = NoPrune] /\ backup' = backup
    BY <1>2, <1>6, <2>1, NoPruneTyped, PruneMovesOn DEF PruneDeletes
  <2>2. ASSUME NEW c \in Newest(pruner[p].doomed, 1),
               backup' = [backup EXCEPT ![c] = "absent"],
               pruner' = [pruner EXCEPT ![p].doomed = @ \ {c}]
        PROVE  PruneInv'
    <3> DEFINE new == [pruner[p] EXCEPT !.doomed = pruner[p].doomed \ {c}]
    <3>1. pruner' = [pruner EXCEPT ![p] = new]
      BY <2>2, Zenon
    <3>2. /\ new \in APruner /\ new.pc = pruner[p].pc /\ new.verified = pruner[p].verified
          /\ new.doomed \subseteq pruner[p].doomed
      BY <1>1 DEF APruner
    <3> HIDE DEF new
    <3>3. c \in pruner[p].doomed /\ pruner[p].pc = "delete"
          /\ UNCHANGED <<begun, dayStart, healthy, snapper, unwells>>
      BY <1>6, NewestArePart DEF PruneDeletes
    <3>4. pruner'[p] = new /\ pruner' \in [Pruners -> APruner]
      BY <3>1, <3>2 DEF PruneInv, BackupsTypeOK, APruner
    <3>5. /\ backup' \in [CopyIds -> {"absent", "partial", "good", "corrupt"}]
          /\ \A d \in CopyIds : backup'[d] = "absent" \/ (d # c /\ backup'[d] = backup[d])
          /\ \A d \in CopyIds : d # c => backup'[d] = backup[d]
      BY <2>2 DEF PruneInv, BackupsTypeOK
    <3>6. BackupsTypeOK'
      BY <3>3, <3>4, <3>5 DEF PruneInv, BackupsTypeOK, APruner
    <3>7. \A d \in Newest(new.verified, Keep) : d \in CopyIds /\ d # c
      BY <1>1, <3>2, <3>3, NewestArePart DEF PruneInv, APruner
    <3> QED
      BY <3>2, <3>3, <3>4, <3>5, <3>6, <3>7 DEF PruneInv
  <2> QED  BY <1>6, <2>1, <2>2 DEF PruneDeletes
<1> QED  BY <1>3, <1>4, <1>5, <1>6

\* The database, the day and kills.
LEMMA UnwellKeeps == PruneInv /\ Unwell => PruneInv'
<1> SUFFICES ASSUME PruneInv, Unwell PROVE PruneInv'
  OBVIOUS
<1>1. unwells' \in 0 .. MaxUnwells /\ begun \in Nat
  BY BackupsAssumption DEF Unwell, PruneInv, BackupsTypeOK
<1>2. GoodStays \/ ~UNCHANGED <<backup, begun>>
  BY <1>1 DEF GoodStays, PruneInv, BackupsTypeOK
<1>3. CASE healthy' = ~healthy /\ UNCHANGED <<backup, begun, dayStart, snapper, pruner>>
  BY <1>1, <1>2, <1>3, PrunesKept DEF PruneInv, BackupsTypeOK
<1>4. ASSUME NEW s \in Snappers, SnapAt(s, "idle", 0),
             UNCHANGED <<backup, begun, dayStart, healthy, pruner>>
      PROVE  PruneInv'
  <2>1. snapper' \in [Snappers -> ASnapper]
    BY <1>4, CopiesFinite, SnapAtTyped
  <2> QED
    BY <1>1, <1>2, <1>4, <2>1, PrunesKept DEF PruneInv, BackupsTypeOK, ASnapper
<1>5. ASSUME NEW p \in Pruners, pruner' = [pruner EXCEPT ![p] = NoPrune],
             UNCHANGED <<backup, begun, dayStart, healthy, snapper>>
      PROVE  PruneInv'
  BY <1>1, <1>5, NoPruneTyped, PruneMovesOn
<1>6. CASE dayStart' = begun /\ UNCHANGED <<backup, begun, healthy, snapper, pruner>>
  <2>1. dayStart' \in 0 .. begun'
    BY <1>1, <1>6
  <2> QED
    BY <1>1, <1>2, <1>6, <2>1, PrunesKept DEF PruneInv, BackupsTypeOK
<1> QED
  BY <1>3, <1>4, <1>5, <1>6 DEF Unwell

\* Of the copies that one prune has found to verify it leaves Keep, or all, for every number
\* of copies and of snapshots at once.
THEOREM PruneKeepsEnough ==
    ASSUME NEW P, Pruners = {P}
    PROVE  BackupsSpec => []PruneSpares
<1>1. PruneInv /\ [BackupsNext]_bakvars => PruneInv'
  <2> SUFFICES ASSUME PruneInv, [BackupsNext]_bakvars PROVE PruneInv'
    OBVIOUS
  <2>1. CASE UNCHANGED bakvars
    BY <2>1 DEF bakvars, PruneInv, BackupsTypeOK
  <2> QED
    BY <2>1, SnapStep, PruneStep, UnwellKeeps DEF BackupsNext
<1>2. PruneInv => PruneSpares
  <2> SUFFICES ASSUME PruneInv, NEW p \in Pruners
               PROVE  LET seen == pruner[p].verified
                          enough == IF Cardinality(seen) < Keep THEN Cardinality(seen) ELSE Keep
                      IN  Cardinality({c \in seen : backup[c] = "good"}) >= enough
    BY DEF PruneSpares
  <2> DEFINE seen == pruner[p].verified
             good == {c \in seen : backup[c] = "good"}
  <2>1. seen \in SUBSET CopyIds /\ pruner[p].pc \in {"idle", "verify", "delete"}
    BY DEF PruneInv, BackupsTypeOK
  <2>2. /\ Cardinality(good) \in Nat /\ Cardinality(seen) \in Nat /\ Keep \in Nat
        /\ \A T \in SUBSET good : Cardinality(T) <= Cardinality(good)
        /\ \A T \in SUBSET seen : Cardinality(T) \in Nat
    BY <2>1, CopiesFinite
  <2>3. CASE pruner[p].pc # "delete"
    <3>1. good = seen
      BY <2>1, <2>3 DEF PruneInv
    <3> QED  BY <2>2, <3>1
  <2>4. CASE pruner[p].pc = "delete"
    <3> DEFINE N == Newest(seen, Keep)
    <3>1. N \in SUBSET good /\ N \in SUBSET seen
      BY <2>4, NewestArePart DEF PruneInv
    <3>2. N = seen \/ Cardinality(N) >= Keep
      BY <2>1, <2>2, NewestAreEnough
    <3> HIDE DEF N, good, seen
    <3>3. Cardinality(N) <= Cardinality(good) /\ Cardinality(N) \in Nat
      BY <2>2, <3>1
    <3>4. Cardinality(good) >= (IF Cardinality(seen) < Keep THEN Cardinality(seen) ELSE Keep)
      BY <2>2, <3>2, <3>3
    <3> QED  BY <3>4 DEF good, seen
  <2> QED  BY <2>3, <2>4
<1> QED
  BY PruneInitially, <1>1, <1>2, PTL DEF BackupsSpec

\* The record of copies, snapshots and prunes has its type, for any number of prunes at once.
LEMMA BackupsTyped == BackupsSpec => []BackupsTypeOK
<1>1. BackupsInit => BackupsTypeOK
  BY PruneInitially DEF PruneInv
<1>2. BackupsTypeOK /\ [BackupsNext]_bakvars => BackupsTypeOK'
  <2> SUFFICES ASSUME BackupsTypeOK, [BackupsNext]_bakvars PROVE BackupsTypeOK'
    OBVIOUS
  <2>1. 0 \in 0 .. MaxCopies /\ begun \in Nat /\ begun \in 0 .. MaxCopies
    BY CopiesFinite DEF BackupsTypeOK
  <2>2. \A s \in Snappers, pc \in {"idle", "look", "write", "copying", "copied"},
           c \in 0 .. MaxCopies :
           SnapAt(s, pc, c) => snapper' \in [Snappers -> ASnapper]
    BY DEF SnapAt, BackupsTypeOK, ASnapper
  <2>3. CASE UNCHANGED bakvars
    BY <2>3 DEF bakvars, BackupsTypeOK
  <2>4. ASSUME NEW s \in Snappers, SnapBegins(s) \/ SnapLooks(s)
        PROVE  BackupsTypeOK'
    <3>1. snapper' \in [Snappers -> ASnapper]
      BY <2>1, <2>2, <2>4 DEF SnapBegins, SnapLooks
    <3>2. UNCHANGED <<backup, begun, dayStart, healthy, pruner, unwells>>
      BY <2>4 DEF SnapBegins, SnapLooks
    <3> QED  BY <3>1, <3>2 DEF BackupsTypeOK, ASnapper
  <2>5. ASSUME NEW s \in Snappers, SnapOpens(s)
        PROVE  BackupsTypeOK'
    <3>1. begun + 1 \in 0 .. MaxCopies /\ begun' = begun + 1
      BY <2>1, <2>5, CopiesFinite DEF SnapOpens
    <3>2. snapper' \in [Snappers -> ASnapper]
      BY <2>2, <2>5, <3>1 DEF SnapOpens
    <3>3. dayStart \in 0 .. begun'
      BY <2>1, <3>1 DEF BackupsTypeOK
    <3>4. backup' \in [CopyIds -> {"absent", "partial", "good", "corrupt"}]
      BY <2>5 DEF SnapOpens, BackupsTypeOK
    <3> QED  BY <2>5, <3>1, <3>2, <3>3, <3>4 DEF SnapOpens, BackupsTypeOK, ASnapper
  <2>6. ASSUME NEW s \in Snappers, SnapCopies(s)
        PROVE  BackupsTypeOK'
    <3> DEFINE c == snapper[s].copy
    <3>1. c \in 0 .. MaxCopies
      BY DEF BackupsTypeOK
    <3>2. snapper' \in [Snappers -> ASnapper]
      BY <2>1, <2>2, <2>6, <3>1 DEF SnapCopies
    <3>3. backup' = backup \/ \E new \in {"good", "corrupt"} : backup' = [backup EXCEPT ![c] = new]
      BY <2>6 DEF SnapCopies
    <3>4. backup' \in [CopyIds -> {"absent", "partial", "good", "corrupt"}]
      BY <3>3 DEF BackupsTypeOK
    <3> QED  BY <2>6, <3>2, <3>4 DEF SnapCopies, BackupsTypeOK, ASnapper
  <2>7. ASSUME NEW s \in Snappers, SnapVerifies(s)
        PROVE  BackupsTypeOK'
    <3>1. snapper' \in [Snappers -> ASnapper]
      BY <2>1, <2>2, <2>7 DEF SnapVerifies
    <3>2. PICK to : to = (IF backup[snapper[s].copy] = "good" THEN backup[snapper[s].copy]
                          ELSE "absent")
      OBVIOUS
    <3>3. backup' = [backup EXCEPT ![snapper[s].copy] = to] /\ to \in {"good", "absent"}
      BY <2>7, <3>2 DEF SnapVerifies
    <3>4. backup' \in [CopyIds -> {"absent", "partial", "good", "corrupt"}]
      BY <3>3 DEF BackupsTypeOK
    <3> QED  BY <2>7, <3>1, <3>4 DEF SnapVerifies, BackupsTypeOK, ASnapper
  <2>8. ASSUME NEW p \in Pruners,
               PruneBegins(p) \/ PruneVerifies(p) \/ PrunePlans(p) \/ PruneDeletes(p)
        PROVE  BackupsTypeOK'
    <3>1. pruner \in [Pruners -> APruner] /\ pruner[p] \in APruner /\ OnDisk \in SUBSET CopyIds
      BY DEF BackupsTypeOK, APruner, OnDisk
    <3>2. ASSUME NEW new \in APruner, pruner' = [pruner EXCEPT ![p] = new]
          PROVE  pruner' \in [Pruners -> APruner]
      BY <3>1, <3>2
    <3>3. CASE PruneBegins(p)
      <4> DEFINE new == [pc |-> "verify", left |-> OnDisk, verified |-> {}, doomed |-> OnDisk]
      <4>1. new \in APruner
        BY <3>1 DEF APruner
      <4>2. pruner' = [pruner EXCEPT ![p] = new]
            /\ UNCHANGED <<backup, begun, dayStart, healthy, snapper, unwells>>
        BY <3>3, Zenon DEF PruneBegins
      <4> HIDE DEF new
      <4> QED  BY <3>2, <4>1, <4>2 DEF BackupsTypeOK, APruner
    <3>4. CASE PruneVerifies(p)
      <4>1. PICK c \in pruner[p].left :
              pruner' = [pruner EXCEPT ![p].left = @ \ {c},
                                       ![p].verified = IF backup[c] = "good" THEN @ \cup {c} ELSE @]
        BY <3>4 DEF PruneVerifies
      <4> DEFINE seen == IF backup[c] = "good" THEN pruner[p].verified \cup {c}
                         ELSE pruner[p].verified
                 new == [pruner[p] EXCEPT !.left = pruner[p].left \ {c}, !.verified = seen]
      <4>2. pruner' = [pruner EXCEPT ![p] = new]
        BY <4>1, Zenon
      <4>3. c \in CopyIds
        BY <3>1 DEF APruner
      <4>4. seen \in SUBSET CopyIds
        BY <3>1, <4>3 DEF APruner
      <4> HIDE DEF seen
      <4>5. new \in APruner
        BY <3>1, <4>4 DEF APruner
      <4> HIDE DEF new
      <4> QED  BY <3>2, <3>4, <4>2, <4>5 DEF PruneVerifies, BackupsTypeOK, APruner
    <3>5. CASE PrunePlans(p)
      <4> DEFINE new == [pruner[p] EXCEPT !.pc = "delete",
                                          !.doomed = pruner[p].doomed \ Spared(pruner[p].verified)]
      <4>1. pruner' = [pruner EXCEPT ![p] = new]
        BY <3>5, Zenon DEF PrunePlans
      <4>2. new \in APruner
        BY <3>1 DEF APruner
      <4> HIDE DEF new
      <4> QED  BY <3>2, <3>5, <4>1, <4>2 DEF PrunePlans, BackupsTypeOK, APruner
    <3>6. CASE PruneDeletes(p)
      <4>1. UNCHANGED <<begun, dayStart, healthy, snapper, unwells>>
        BY <3>6 DEF PruneDeletes
      <4>2. CASE pruner' = [pruner EXCEPT ![p] = NoPrune] /\ backup' = backup
        BY <3>2, <4>1, <4>2, NoPruneTyped DEF BackupsTypeOK, APruner
      <4>3. ASSUME NEW c \in Newest(pruner[p].doomed, 1),
                   backup' = [backup EXCEPT ![c] = "absent"],
                   pruner' = [pruner EXCEPT ![p].doomed = @ \ {c}]
            PROVE  BackupsTypeOK'
        <5> DEFINE new == [pruner[p] EXCEPT !.doomed = pruner[p].doomed \ {c}]
        <5>1. pruner' = [pruner EXCEPT ![p] = new]
          BY <4>3, Zenon
        <5>2. new \in APruner
          BY <3>1 DEF APruner
        <5> HIDE DEF new
        <5>3. backup' \in [CopyIds -> {"absent", "partial", "good", "corrupt"}]
          BY <4>3 DEF BackupsTypeOK
        <5> QED  BY <3>2, <4>1, <5>1, <5>2, <5>3 DEF BackupsTypeOK, APruner
      <4> QED  BY <3>6, <4>2, <4>3 DEF PruneDeletes
    <3> QED  BY <2>8, <3>3, <3>4, <3>5, <3>6
  <2>9. ASSUME Unwell PROVE BackupsTypeOK'
    <3>1. unwells' \in 0 .. MaxUnwells
      BY <2>9, BackupsAssumption DEF Unwell, BackupsTypeOK
    <3>2. CASE healthy' = ~healthy /\ UNCHANGED <<backup, begun, dayStart, snapper, pruner>>
      BY <3>1, <3>2 DEF BackupsTypeOK
    <3>3. ASSUME NEW s \in Snappers, SnapAt(s, "idle", 0),
                 UNCHANGED <<backup, begun, dayStart, healthy, pruner>>
          PROVE  BackupsTypeOK'
      BY <2>1, <2>2, <3>1, <3>3 DEF BackupsTypeOK, ASnapper
    <3>4. ASSUME NEW p \in Pruners, pruner' = [pruner EXCEPT ![p] = NoPrune],
                 UNCHANGED <<backup, begun, dayStart, healthy, snapper>>
          PROVE  BackupsTypeOK'
      BY <3>1, <3>4, NoPruneTyped DEF BackupsTypeOK, APruner
    <3>5. CASE dayStart' = begun /\ UNCHANGED <<backup, begun, healthy, snapper, pruner>>
      BY <2>1, <3>1, <3>5 DEF BackupsTypeOK
    <3> QED  BY <2>9, <3>2, <3>3, <3>4, <3>5 DEF Unwell
  <2> QED
    BY <2>3, <2>4, <2>5, <2>6, <2>7, <2>8, <2>9 DEF BackupsNext
<1> QED
  BY <1>1, <1>2, PTL DEF BackupsSpec

-----------------------------------------------------------------------------
(* CompletionGate *)

\* What a run of the worker remembers, and a checkpoint.
ARun == [at : {"off", "agent", "ended", "asking", "passed", "rejected", "over"},
         fixes : 0..MaxFixes, send : PointStatuses \cup {"none"}, empty : BOOLEAN]
APoint == [status : PointStatuses, lead : Leads]

RunTyped ==
    /\ run \in ARun
    /\ prompt \in Prompts /\ lead \in Leads
    /\ points \in Seq(APoint)
    /\ told \in PointStatuses \cup {"pending"}
    /\ past \in [edits : 0..MaxEdits, changed : SUBSET Files]
    /\ cited \subseteq opened /\ opened \subseteq Pulls

\* What differs in the workspace, the task has changed some time.
ChangedIsOwn == tree \in [Files -> TreeStates] /\ \A f \in Files : tree[f] # "same" => f \in past.changed

\* The gate asks gh only when no named file differs.
AskedIsBare == run.at \in {"asking", "rejected"} => ~Matches(Diff)

JudgeInv == RunTyped /\ ChangedIsOwn /\ AskedIsBare /\ PassedOnOwnWork /\ CompletedInOrder

LEMMA JudgeInit == GatekeepInit => JudgeInv
<1> SUFFICES ASSUME GatekeepInit PROVE JudgeInv
  OBVIOUS
<1> USE DEF GatekeepInit
<1>1. run \in ARun
  <2>1. PICK b \in BOOLEAN : b = FALSE
    OBVIOUS
  <2>2. run = [at |-> "off", fixes |-> 0, send |-> "none", empty |-> b]
    BY <2>1, Zenon
  <2>3. 0 \in 0..MaxFixes
    BY GateAssumption
  <2> QED  BY <2>2, <2>3 DEF ARun, PointStatuses
<1>2. run.at = "off"
  OBVIOUS
<1>3. past \in [edits : 0..MaxEdits, changed : SUBSET Files]
  BY GateAssumption
<1>4. RunTyped
  BY <1>1, <1>3 DEF RunTyped, Leads
<1>5. ChangedIsOwn
  BY DEF ChangedIsOwn, TreeStates
<1>6. points = <<>> /\ DOMAIN points = {}
  OBVIOUS
<1> QED  BY <1>2, <1>4, <1>5, <1>6 DEF JudgeInv, AskedIsBare, PassedOnOwnWork, CompletedInOrder

\* A checkpoint with another status than completed, or one that may be, keeps the order.
LEMMA PointKeeps ==
    ASSUME points \in Seq(APoint), lead \in Leads, CompletedInOrder,
           NEW s \in PointStatuses, Point(s), s = "completed" => MayComplete
    PROVE  points' \in Seq(APoint) /\ CompletedInOrder'
<1> DEFINE n == Len(points)
<1>1. [status |-> s, lead |-> lead] \in APoint
  BY DEF APoint
<1>2. /\ points' \in Seq(APoint) /\ n \in Nat /\ Len(points') = n + 1
      /\ DOMAIN points = 1..n /\ DOMAIN points' = 1..(n + 1)
      /\ \A i \in 1..n : points'[i] = points[i]
      /\ points'[n + 1] = [status |-> s, lead |-> lead]
  BY <1>1 DEF Point
<1> HIDE DEF n
<1>3. SUFFICES ASSUME NEW i \in 1..(n + 1), points'[i].status = "completed"
               PROVE  /\ \E j \in 1..(i - 1) : points'[j].status = "pending_review"
                      /\ points'[i].lead \in {"BLOCKED on a", "BLOCKED on b"}
                            => points'[i].lead # points'[i - 1].lead
  BY <1>2 DEF CompletedInOrder
<1>4. CASE i \in 1..n
  <2>1. points[i].status = "completed"
    BY <1>2, <1>3, <1>4
  <2>2. PICK j \in 1..(i - 1) : points[j].status = "pending_review"
    BY <1>2, <1>4, <2>1 DEF CompletedInOrder
  <2>3. j \in 1..n /\ points'[j].status = "pending_review"
    BY <1>2, <1>4, <2>2
  <2>4. i - 1 \in 1..n
    BY <1>2, <1>4, <2>2
  <2>5. points'[i] = points[i] /\ points'[i - 1] = points[i - 1]
    BY <1>2, <1>4, <2>4
  <2> QED  BY <1>2, <1>4, <2>1, <2>2, <2>3, <2>5 DEF CompletedInOrder
<1>5. CASE i = n + 1
  <2>1. s = "completed" /\ MayComplete
    BY <1>2, <1>3, <1>5
  <2>2. PICK j \in 1..n : points[j].status = "pending_review"
    BY <1>2, <2>1 DEF MayComplete
  <2>3. j \in 1..(i - 1) /\ points'[j].status = "pending_review"
    BY <1>2, <1>5, <2>2
  <2>4. n \in 1..n /\ points # <<>>
    BY <1>2, <2>2
  <2>5. points'[i].lead = lead /\ points'[i - 1] = points[n]
    BY <1>2, <1>5, <2>4
  <2>6. lead \in {"BLOCKED on a", "BLOCKED on b"} => points[n].lead # lead
    BY <2>1, <2>4 DEF MayComplete, StillBlocked, n
  <2> QED  BY <2>3, <2>5, <2>6
<1>6. i \in 1..n \/ i = n + 1
  BY <1>2, <1>3
<1> QED  BY <1>4, <1>5, <1>6

\* Files changed, requests opened: what the task can call its own only grows.
LEMMA OwnGrows ==
    ASSUME past.changed \subseteq past'.changed, opened \subseteq opened', run'.empty = run.empty,
           PassedOnOwnWork, prompt' = prompt, run.at = "passed"
    PROVE  PassedOnOwnWork'
<1>1. OwnFiles \subseteq OwnFiles' /\ Named' = Named
  BY DEF OwnFiles, Named
<1> QED  BY <1>1 DEF PassedOnOwnWork, Matches

\* An edit is remembered.
LEMMA EditIsOwn ==
    ASSUME JudgeInv, NEW f \in Files, Edits(f)
    PROVE  /\ ChangedIsOwn' /\ past.changed \subseteq past'.changed
           /\ past' \in [edits : 0..MaxEdits, changed : SUBSET Files]
<1>1. past \in [edits : 0..MaxEdits, changed : SUBSET Files] /\ past.edits < MaxEdits
  BY DEF JudgeInv, RunTyped, Edits
<1>2. past' = [past EXCEPT !.edits = past.edits + 1, !.changed = past.changed \cup {f}]
  BY DEF Edits
<1>3. past' \in [edits : 0..MaxEdits, changed : SUBSET Files] /\ past'.changed = past.changed \cup {f}
  <2>1. MaxEdits \in Nat
    BY GateAssumption
  <2>2. past.edits + 1 \in 0..MaxEdits
    BY <1>1, <2>1
  <2> QED  BY <1>1, <1>2, <2>2
<1>4. \E s \in TreeStates : tree' = [tree EXCEPT ![f] = s]
  BY DEF Edits, TreeStates
<1>5. ChangedIsOwn'
  BY <1>3, <1>4 DEF ChangedIsOwn, JudgeInv
<1> QED  BY <1>3, <1>5

\* Committing changes no more files than differed.
LEMMA CommitIsOwn ==
    ASSUME ChangedIsOwn, tree' = Committed, past' = past
    PROVE  ChangedIsOwn'
BY DEF ChangedIsOwn, Committed, TreeStates

\* Where the run is changes, and nothing the gate has judged by.
LEMMA Elsewhere ==
    ASSUME run' \in ARun, run'.at \notin {"asking", "passed", "rejected"}
    PROVE  AskedIsBare' /\ PassedOnOwnWork'
BY DEF AskedIsBare, PassedOnOwnWork

\* A run goes to another place.
LEMMA RunGoes ==
    ASSUME run \in ARun, NEW a \in {"off", "agent", "ended", "asking", "passed", "rejected", "over"},
           NEW s \in PointStatuses \cup {"none"}
    PROVE  /\ [run EXCEPT !.at = a] \in ARun /\ [run EXCEPT !.at = a].at = a
           /\ [run EXCEPT !.at = a].empty = run.empty
           /\ [run EXCEPT !.send = s] \in ARun /\ [run EXCEPT !.send = s].at = run.at
           /\ [run EXCEPT !.send = s].empty = run.empty
           /\ [run EXCEPT !.at = a, !.send = s] \in ARun /\ [run EXCEPT !.at = a, !.send = s].at = a
BY DEF ARun

LEMMA JudgeNext == JudgeInv /\ [GatekeepNext]_gatekeepvars => JudgeInv'
<1> SUFFICES ASSUME JudgeInv, [GatekeepNext]_gatekeepvars PROVE JudgeInv'
  OBVIOUS
<1>0. RunTyped /\ ChangedIsOwn /\ AskedIsBare /\ PassedOnOwnWork /\ CompletedInOrder
  BY DEF JudgeInv
<1>a. run \in ARun /\ points \in Seq(APoint) /\ lead \in Leads
  BY <1>0 DEF RunTyped
<1>1. CASE Begins
  <2>1. 0 \in 0..MaxFixes
    BY GateAssumption
  <2>2. run' \in ARun /\ run'.at = "agent"
    BY <1>1, <1>a, <2>1 DEF Begins, ARun, PointStatuses
  <2>3. points' \in Seq(APoint) /\ CompletedInOrder'
    BY <1>0, <1>1, <1>a, PointKeeps DEF Begins, PointStatuses
  <2>4. RunTyped' /\ ChangedIsOwn'
    BY <1>0, <1>1, <2>2, <2>3 DEF Begins, RunTyped, ChangedIsOwn
  <2> QED  BY <2>2, <2>3, <2>4, Elsewhere DEF JudgeInv
<1>2. CASE AgentCommits
  <2>1. ChangedIsOwn'
    BY <1>0, <1>2, CommitIsOwn DEF AgentCommits
  <2>2. RunTyped' /\ CompletedInOrder' /\ run'.at = "agent"
    BY <1>0, <1>2 DEF AgentCommits, RunTyped, CompletedInOrder
  <2> QED  BY <2>1, <2>2, Elsewhere DEF JudgeInv, RunTyped
<1>3. CASE NoOp
  <2>1. run' \in ARun /\ run'.at = "over"
    BY <1>3, <1>a, RunGoes DEF NoOp, HandOver, PointStatuses
  <2>2. points' \in Seq(APoint) /\ CompletedInOrder'
    BY <1>0, <1>3, <1>a, PointKeeps DEF NoOp, HandOver, PointStatuses
  <2>3. RunTyped' /\ ChangedIsOwn'
    BY <1>0, <1>3, <2>1, <2>2 DEF NoOp, RunTyped, ChangedIsOwn
  <2> QED  BY <2>1, <2>2, <2>3, Elsewhere DEF JudgeInv
<1>4. CASE ReadsDiff
  <2>1. PICK b \in BOOLEAN : b = (Diff = {})
    OBVIOUS
  <2>2. PICK a \in {"passed", "asking"} :
             a = IF Named = {} \/ Diff = {} \/ Matches(Diff) THEN "passed" ELSE "asking"
    OBVIOUS
  <2>3. run' = [run EXCEPT !.at = a, !.empty = b]
    BY <1>4, <2>1, <2>2, Zenon DEF ReadsDiff
  <2>4. run' \in ARun /\ run'.at = a /\ run'.empty = b
    BY <1>a, <2>3 DEF ARun
  <2>5. RunTyped' /\ ChangedIsOwn' /\ CompletedInOrder'
    BY <1>0, <1>4, <2>4 DEF ReadsDiff, RunTyped, ChangedIsOwn, CompletedInOrder
  <2>6. AskedIsBare'
    <3>1. Matches(Diff)' <=> Matches(Diff)
      BY <1>4 DEF ReadsDiff, Matches, Diff, Named
    <3> QED  BY <2>2, <2>4, <3>1 DEF AskedIsBare
  <2>7. PassedOnOwnWork'
    <3>1. Named' = Named /\ OwnFiles' = OwnFiles
      BY <1>4 DEF ReadsDiff, Named, OwnFiles
    <3>2. Diff \subseteq OwnFiles
      BY <1>0 DEF Diff, ChangedIsOwn, OwnFiles
    <3>3. Matches(Diff) => Matches(OwnFiles)
      BY <3>2 DEF Matches
    <3>4. a = "passed" => Named = {} \/ Diff = {} \/ Matches(OwnFiles)
      BY <2>2, <3>3
    <3>5. Matches(OwnFiles)' <=> Matches(OwnFiles)
      BY <3>1 DEF Matches
    <3> QED  BY <2>1, <2>4, <3>1, <3>4, <3>5 DEF PassedOnOwnWork
  <2> QED  BY <2>5, <2>6, <2>7 DEF JudgeInv
<1>5. CASE Blocks
  <2>1. run' \in ARun /\ run'.at = "over"
    BY <1>5, <1>a, RunGoes DEF Blocks, PointStatuses
  <2>2. points' \in Seq(APoint) /\ CompletedInOrder'
    BY <1>0, <1>5, <1>a, PointKeeps DEF Blocks, PointStatuses
  <2>3. ChangedIsOwn'
    BY <1>0, <1>5, CommitIsOwn DEF Blocks
  <2>4. RunTyped'
    BY <1>0, <1>5, <2>1, <2>2 DEF Blocks, RunTyped
  <2> QED  BY <2>1, <2>2, <2>3, <2>4, Elsewhere DEF JudgeInv
<1>6. CASE HandsOverWork
  <2>1. run' \in ARun /\ run'.at = "over"
    BY <1>6, <1>a, RunGoes DEF HandsOverWork, HandOver, PointStatuses
  <2>2. points' \in Seq(APoint) /\ CompletedInOrder'
    BY <1>0, <1>6, <1>a, PointKeeps DEF HandsOverWork, HandOver, PointStatuses
  <2>3. ChangedIsOwn'
    BY <1>0, <1>6, CommitIsOwn DEF HandsOverWork
  <2>4. RunTyped'
    BY <1>0, <1>6, <2>1, <2>2 DEF HandsOverWork, RunTyped
  <2> QED  BY <2>1, <2>2, <2>3, <2>4, Elsewhere DEF JudgeInv
<1>7. CASE SendsBack
  <2>1. run' \in ARun /\ run'.at = "over"
    BY <1>7, <1>a, RunGoes DEF SendsBack, PointStatuses
  <2>2. points' \in Seq(APoint) /\ CompletedInOrder'
    BY <1>0, <1>7, <1>a, PointKeeps DEF SendsBack, PointStatuses
  <2>3. RunTyped' /\ ChangedIsOwn'
    BY <1>0, <1>7, <2>1, <2>2 DEF SendsBack, RunTyped, ChangedIsOwn
  <2> QED  BY <2>1, <2>2, <2>3, Elsewhere DEF JudgeInv
<1>8. CASE Tells
  <2>1. run' \in ARun /\ run'.at = run.at /\ run'.empty = run.empty
    BY <1>8, <1>a, RunGoes DEF Tells
  <2>2. told' \in PointStatuses \cup {"pending"}
    BY <1>0, <1>8, <1>a DEF Tells, RunTyped, ARun
  <2>3. RunTyped' /\ ChangedIsOwn' /\ CompletedInOrder'
    BY <1>0, <1>8, <2>1, <2>2 DEF Tells, RunTyped, ChangedIsOwn, CompletedInOrder
  <2>4. AskedIsBare'
    BY <1>0, <1>8, <2>1 DEF Tells, AskedIsBare, Matches, Diff, Named
  <2>5. PassedOnOwnWork'
    BY <1>0, <1>8, <2>1, OwnGrows DEF Tells, PassedOnOwnWork
  <2> QED  BY <2>3, <2>4, <2>5 DEF JudgeInv
<1>9. ASSUME NEW f \in Files, Works(f) PROVE JudgeInv'
  <2>1. ChangedIsOwn' /\ past' \in [edits : 0..MaxEdits, changed : SUBSET Files]
    BY <1>9, EditIsOwn DEF Works
  <2>2. RunTyped' /\ CompletedInOrder' /\ run'.at = "agent"
    BY <1>0, <1>9, <2>1 DEF Works, RunTyped, CompletedInOrder
  <2> QED  BY <2>1, <2>2, Elsewhere DEF JudgeInv, RunTyped
<1>10. ASSUME NEW f \in Files, Fixes(f) PROVE JudgeInv'
  <2>1. ChangedIsOwn' /\ past' \in [edits : 0..MaxEdits, changed : SUBSET Files]
        /\ past.changed \subseteq past'.changed
    BY <1>10, EditIsOwn DEF Fixes
  <2>2. run' \in ARun /\ run'.at = "passed" /\ run'.empty = run.empty
    <3>1. run.fixes + 1 \in 0..MaxFixes
      BY <1>10, <1>a, GateAssumption DEF Fixes, ARun
    <3> QED  BY <1>10, <1>a, <3>1 DEF Fixes, ARun
  <2>3. RunTyped' /\ CompletedInOrder'
    BY <1>0, <1>10, <2>1, <2>2 DEF Fixes, RunTyped, CompletedInOrder
  <2>4. PassedOnOwnWork'
    BY <1>0, <1>10, <2>1, <2>2, OwnGrows DEF Fixes
  <2>5. AskedIsBare'
    BY <2>2 DEF AskedIsBare
  <2> QED  BY <2>1, <2>3, <2>4, <2>5 DEF JudgeInv
<1>11. ASSUME NEW p \in Pulls, OpensPull(p) PROVE JudgeInv'
  <2>1. RunTyped' /\ ChangedIsOwn' /\ CompletedInOrder' /\ run'.at = "agent"
    BY <1>0, <1>11 DEF OpensPull, RunTyped, ChangedIsOwn, CompletedInOrder
  <2> QED  BY <2>1, Elsewhere DEF JudgeInv, RunTyped
<1>12. ASSUME NEW l \in Leads, WritesProgress(l) PROVE JudgeInv'
  <2>1. RunTyped' /\ ChangedIsOwn' /\ CompletedInOrder' /\ run'.at = "agent"
    BY <1>0, <1>12 DEF WritesProgress, RunTyped, ChangedIsOwn, CompletedInOrder
  <2> QED  BY <2>1, Elsewhere DEF JudgeInv, RunTyped
<1>13. ASSUME NEW S \in SUBSET opened, AgentEnds(S) PROVE JudgeInv'
  <2>1. run' \in ARun /\ run'.at = "ended"
    BY <1>13, <1>a, RunGoes DEF AgentEnds
  <2>2. RunTyped' /\ ChangedIsOwn' /\ CompletedInOrder'
    BY <1>0, <1>13, <2>1 DEF AgentEnds, RunTyped, ChangedIsOwn, CompletedInOrder
  <2> QED  BY <2>1, <2>2, Elsewhere DEF JudgeInv
<1>14. ASSUME NEW S \in SUBSET cited, AsksGh(S) PROVE JudgeInv'
  <2>1. PICK a \in {"passed", "rejected"} :
             a = IF (\E p \in S : Evidence(p)) \/ Overridden THEN "passed" ELSE "rejected"
    OBVIOUS
  <2>2. run' = [run EXCEPT !.at = a]
    BY <1>14, <2>1, Zenon DEF AsksGh
  <2>3. run' \in ARun /\ run'.at = a
    BY <1>a, <2>2, RunGoes
  <2>4. RunTyped' /\ ChangedIsOwn' /\ CompletedInOrder'
    BY <1>0, <1>14, <2>3 DEF AsksGh, RunTyped, ChangedIsOwn, CompletedInOrder
  <2>5. AskedIsBare'
    BY <1>0, <1>14 DEF AsksGh, AskedIsBare, Matches, Diff, Named
  <2>6. PassedOnOwnWork'
    <3>1. Named' = Named /\ OwnFiles' = OwnFiles
      BY <1>14 DEF AsksGh, Named, OwnFiles
    <3>2. ASSUME NEW p \in S, Evidence(p) PROVE Matches(OwnFiles)
      <4>1. p \in opened /\ p \in Pulls
        BY <1>0, <3>2 DEF RunTyped
      <4>2. p.own
        BY <3>2, <4>1, GateAssumption DEF Evidence
      <4>3. p.files \subseteq OwnFiles
        BY <4>1, <4>2 DEF OwnFiles
      <4> QED  BY <3>2, <4>3 DEF Evidence, Matches
    <3>3. Diff \subseteq OwnFiles
      BY <1>0 DEF Diff, ChangedIsOwn, OwnFiles
    <3>4. Overridden => \E n \in Named : OverrideOf[n] # n /\ OverrideOf[n] \in OwnFiles
      BY <3>3 DEF Overridden
    <3>5. a = "passed" => \/ Matches(OwnFiles)
                          \/ \E n \in Named : OverrideOf[n] # n /\ OverrideOf[n] \in OwnFiles
      BY <2>1, <3>2, <3>4
    <3>6. Matches(OwnFiles)' <=> Matches(OwnFiles)
      BY <3>1 DEF Matches
    <3> QED  BY <2>3, <3>1, <3>5, <3>6 DEF PassedOnOwnWork
  <2> QED  BY <2>4, <2>5, <2>6 DEF JudgeInv
<1>15. ASSUME NEW e, NEW l, Completes(e, l) PROVE JudgeInv'
  <2>1. run' \in ARun /\ run'.at = run.at
    BY <1>15, <1>a, RunGoes DEF Completes, PointStatuses
  <2>2. points' \in Seq(APoint) /\ CompletedInOrder'
    BY <1>0, <1>15, <1>a, PointKeeps DEF Completes, PointStatuses
  <2>3. RunTyped' /\ ChangedIsOwn'
    BY <1>0, <1>15, <2>1, <2>2 DEF Completes, RunTyped, ChangedIsOwn
  <2>4. run'.at \in {"off", "over"}
    BY <1>15, <2>1 DEF Completes
  <2> QED  BY <2>1, <2>2, <2>3, <2>4, Elsewhere DEF JudgeInv
<1>16. CASE UNCHANGED gatekeepvars
  BY <1>0, <1>16 DEF gatekeepvars, JudgeInv, RunTyped, ChangedIsOwn, AskedIsBare, PassedOnOwnWork,
     CompletedInOrder, Matches, Diff, Named, OwnFiles
<1> QED
  BY <1>1, <1>2, <1>3, <1>4, <1>5, <1>6, <1>7, <1>8, <1>9, <1>10, <1>11, <1>12, <1>13, <1>14,
     <1>15, <1>16 DEF GatekeepNext

\* A task passes the gate on its own work, is rejected only when bare, and completed in order,
\* for every set of files, prompts and pull requests.
THEOREM GateJudgesRight == GatekeepSpec => []GateJudges
<1>1. JudgeInv => GateJudges
  BY DEF JudgeInv, GateJudges, AskedIsBare, RejectedIsBare
<1> QED  BY <1>1, JudgeInit, JudgeNext, PTL DEF GatekeepSpec

-----------------------------------------------------------------------------
(* Watchdogs: the watchdog of tasks *)

\* A task as the watchdog's checkpoints show it, a pass, and its history.
AWork == [active : BOOLEAN, old : BOOLEAN, note : Notes, same : 0..LoopCount]

DogTyped ==
    /\ work \in [Watched -> AWork]
    /\ DOMAIN dog = {"at", "todo", "task", "note"}
    /\ dog.at \in {"off", "pass", "seen", "fixing", "logging", "waiting", "escalating"}
    /\ dog.todo \subseteq Watched
    /\ DOMAIN dogpast = {"points", "passes", "ailed", "tried", "known"}

\* Whoever is silent or repeats a note of its own, is remembered to have ailed.
BadAiled ==
    \A t \in Watched :
        /\ work[t].old => t \in dogpast.ailed
        /\ work[t].same = LoopCount /\ work[t].note # Periodic => t \in dogpast.ailed

\* The task that a pass is at has ailed, and a known fix was tried before a cause is asked for.
AtAiling ==
    /\ dog.at \in {"seen", "fixing", "logging", "waiting", "escalating"} =>
        dog.task \in Watched /\ dog.task \in dogpast.ailed
    /\ dog.at \in {"logging", "waiting"} => dog.task \in dogpast.tried
    /\ dog.at = "escalating" /\ dogpast.known => dog.task \in dogpast.tried

DogInv == DogTyped /\ BadAiled /\ AtAiling

LEMMA DogInit == WatchdogInit => DogInv
<1> SUFFICES ASSUME WatchdogInit PROVE DogInv
  OBVIOUS
<1> USE DEF WatchdogInit
<1>1. PICK b \in BOOLEAN, e \in BOOLEAN : b = TRUE /\ e = FALSE
  OBVIOUS
<1>2. work = [t \in Watched |-> [active |-> b, old |-> e, note |-> Periodic, same |-> 0]]
  BY <1>1, Zenon
<1>3. [active |-> b, old |-> e, note |-> Periodic, same |-> 0] \in AWork
  BY WatchdogAssumption DEF AWork
<1>4. work \in [Watched -> AWork]
  BY <1>2, <1>3
<1>5. BadAiled
  BY <1>1, <1>2, WatchdogAssumption DEF BadAiled
<1>6. dogpast = [points |-> 0, passes |-> 0, ailed |-> {}, tried |-> {}, known |-> e]
  BY <1>1, Zenon
<1>7. DogTyped /\ AtAiling
  BY <1>4, <1>6 DEF DogTyped, AtAiling
<1> QED  BY <1>5, <1>7 DEF DogInv

\* Of a task's record, w, one may say this after a checkpoint with the note n.
LEMMA CheckpointKeeps ==
    ASSUME DogInv, NEW t \in Watched, NEW n \in Notes, Checkpoints(t, n)
    PROVE  DogInv'
<1> DEFINE s == IF work[t].note # n THEN 1
                ELSE IF work[t].same < LoopCount THEN work[t].same + 1 ELSE work[t].same
<1>0. work \in [Watched -> AWork] /\ LoopCount \in Nat \ {0} /\ work[t] \in AWork
  BY WatchdogAssumption DEF DogInv, DogTyped
<1>1. work[t].same \in 0..LoopCount
  BY <1>0 DEF AWork
<1>2. s \in 0..LoopCount
  BY <1>0, <1>1
<1>3. PICK e \in BOOLEAN : e = FALSE
  OBVIOUS
<1> DEFINE new == [work[t] EXCEPT !.old = e, !.note = n, !.same = s]
<1>4. new \in AWork /\ new.old = e /\ new.note = n /\ new.same = s
  <2> HIDE DEF s
  <2> QED  BY <1>0, <1>2 DEF AWork
<1>5. work' = [work EXCEPT ![t] = new]
  BY <1>3, Zenon DEF Checkpoints
<1> HIDE DEF s, new
<1>6. work' \in [Watched -> AWork] /\ work'[t] = new /\ \A u \in Watched \ {t} : work'[u] = work[u]
  BY <1>0, <1>4, <1>5
<1>7. dogpast'.ailed = IF s = LoopCount /\ n # Periodic THEN dogpast.ailed \cup {t} ELSE dogpast.ailed
  BY <1>4, <1>6 DEF Checkpoints, DogInv, DogTyped
<1>8. /\ dogpast.ailed \subseteq dogpast'.ailed /\ dogpast'.tried = dogpast.tried
      /\ dogpast'.known = dogpast.known /\ DOMAIN dogpast' = DOMAIN dogpast
      /\ dog' = dog
  BY <1>7 DEF Checkpoints, DogInv, DogTyped
<1>9. DogTyped' /\ AtAiling'
  BY <1>6, <1>8 DEF DogInv, DogTyped, AtAiling
<1>10. BadAiled'
  BY <1>3, <1>4, <1>6, <1>7, <1>8 DEF DogInv, BadAiled
<1> QED  BY <1>9, <1>10 DEF DogInv

\* A task that evaluate finds bad has ailed.
LEMMA BadHasAiled ==
    ASSUME DogInv, NEW t \in Watched, Bad(work[t])
    PROVE  t \in dogpast.ailed
<1>1. work[t].same \in 0..LoopCount /\ LoopCount \in Nat
  BY WatchdogAssumption DEF DogInv, DogTyped, AWork
<1> QED  BY <1>1 DEF Bad, Stalled, Loops, DogInv, BadAiled

\* What changes neither the workers nor the history of ailing keeps who ailed.
LEMMA AiledStays ==
    ASSUME DogInv, work' = work, dogpast'.ailed = dogpast.ailed
    PROVE  BadAiled' /\ work' \in [Watched -> AWork]
BY DEF DogInv, DogTyped, BadAiled

LEMMA DogNext == DogInv /\ [WatchdogNext]_dogvars => DogInv'
<1> SUFFICES ASSUME DogInv, [WatchdogNext]_dogvars PROVE DogInv'
  OBVIOUS
<1>0. DogTyped /\ BadAiled /\ AtAiling
  BY DEF DogInv
<1>1. CASE Lists
  <2>1. DogTyped' /\ AtAiling' /\ dogpast'.ailed = dogpast.ailed /\ work' = work
    BY <1>0, <1>1 DEF Lists, DogTyped, AtAiling
  <2> QED  BY <2>1, AiledStays DEF DogInv
<1>2. CASE LooksUp
  <2>1. PICK b \in BOOLEAN : b = UsesFix
    BY DEF UsesFix
  <2>2. dogpast' = [dogpast EXCEPT !.known = b] /\ work' = work
    BY <1>2, <2>1, Zenon DEF LooksUp
  <2>3. PICK a \in {"fixing", "escalating"} : a = IF UsesFix THEN "fixing" ELSE "escalating"
    OBVIOUS
  <2>4. dog' = [dog EXCEPT !.at = a]
    BY <1>2, <2>3, Zenon DEF LooksUp
  <2>9. dog.at = "seen"
    BY <1>2 DEF LooksUp
  <2>5. dogpast'.known = b /\ dogpast'.ailed = dogpast.ailed /\ DOMAIN dogpast' = DOMAIN dogpast
    BY <1>0, <2>2 DEF DogTyped
  <2>6. DogTyped' /\ dog'.at = a /\ dog'.task = dog.task
    BY <1>0, <2>2, <2>4, <2>5 DEF DogTyped
  <2>7. a = "escalating" => b = FALSE
    BY <2>1, <2>3
  <2>8. AtAiling'
    BY <1>0, <2>4, <2>5, <2>6, <2>7, <2>9 DEF AtAiling
  <2> QED  BY <2>2, <2>5, <2>6, <2>8, AiledStays DEF DogInv
<1>3. CASE FixSubmitted
  <2>1. DogTyped' /\ AtAiling' /\ dogpast'.ailed = dogpast.ailed /\ work' = work
    BY <1>0, <1>3 DEF FixSubmitted, DogTyped, AtAiling
  <2> QED  BY <2>1, AiledStays DEF DogInv
<1>4. CASE LogsFix
  <2>1. DogTyped' /\ AtAiling' /\ dogpast'.ailed = dogpast.ailed /\ work' = work
    BY <1>0, <1>4 DEF LogsFix, DogTyped, AtAiling
  <2> QED  BY <2>1, AiledStays DEF DogInv
<1>5. CASE Rechecks
  <2>1. DogTyped' /\ AtAiling' /\ dogpast'.ailed = dogpast.ailed /\ work' = work
    BY <1>0, <1>5 DEF Rechecks, DogTyped, AtAiling
  <2> QED  BY <2>1, AiledStays DEF DogInv
<1>6. CASE Escalates
  <2>1. DogTyped' /\ AtAiling' /\ dogpast'.ailed = dogpast.ailed /\ work' = work
    BY <1>0, <1>6 DEF Escalates, DogTyped, AtAiling
  <2> QED  BY <2>1, AiledStays DEF DogInv
<1>7. CASE PassEnds
  <2>1. DogTyped' /\ AtAiling' /\ dogpast'.ailed = dogpast.ailed /\ work' = work
    BY <1>0, <1>7 DEF PassEnds, DogTyped, AtAiling
  <2> QED  BY <2>1, AiledStays DEF DogInv
<1>8. ASSUME NEW t \in Watched, FallsSilent(t) PROVE DogInv'
  <2>1. PICK b \in BOOLEAN : b = TRUE
    OBVIOUS
  <2> DEFINE new == [work[t] EXCEPT !.old = b]
  <2>2. work' = [work EXCEPT ![t] = new]
    BY <1>8, <2>1, Zenon DEF FallsSilent
  <2>3. new \in AWork
    BY <1>0 DEF DogTyped, AWork
  <2> HIDE DEF new
  <2>4. work' \in [Watched -> AWork] /\ \A u \in Watched \ {t} : work'[u] = work[u]
    BY <1>0, <2>2, <2>3 DEF DogTyped
  <2>5. dogpast'.ailed = dogpast.ailed \cup {t} /\ dogpast'.tried = dogpast.tried
        /\ dogpast'.known = dogpast.known /\ DOMAIN dogpast' = DOMAIN dogpast /\ dog' = dog
    BY <1>0, <1>8 DEF FallsSilent, DogTyped
  <2>6. DogTyped' /\ AtAiling'
    BY <1>0, <2>4, <2>5 DEF DogTyped, AtAiling
  <2>7. BadAiled'
    BY <1>0, <2>4, <2>5 DEF BadAiled
  <2> QED  BY <2>6, <2>7 DEF DogInv
<1>9. ASSUME NEW t \in Watched, WatchedEnds(t) PROVE DogInv'
  <2>1. PICK b \in BOOLEAN : b = FALSE
    OBVIOUS
  <2> DEFINE new == [work[t] EXCEPT !.active = b]
  <2>2. work' = [work EXCEPT ![t] = new]
    BY <1>9, <2>1, Zenon DEF WatchedEnds
  <2>3. new \in AWork /\ new.old = work[t].old /\ new.same = work[t].same /\ new.note = work[t].note
    BY <1>0 DEF DogTyped, AWork
  <2> HIDE DEF new
  <2>4. work' \in [Watched -> AWork] /\ work'[t] = new /\ \A u \in Watched \ {t} : work'[u] = work[u]
    BY <1>0, <2>2, <2>3 DEF DogTyped
  <2>5. DogTyped' /\ AtAiling'
    BY <1>0, <1>9, <2>4 DEF WatchedEnds, DogTyped, AtAiling
  <2>6. BadAiled'
    BY <1>0, <1>9, <2>3, <2>4 DEF WatchedEnds, BadAiled
  <2> QED  BY <2>5, <2>6 DEF DogInv
<1>10. ASSUME NEW t \in Watched, Restarts(t) PROVE DogInv'
  <2>1. PICK b \in BOOLEAN, e \in BOOLEAN : b = TRUE /\ e = FALSE
    OBVIOUS
  <2> DEFINE new == [active |-> b, old |-> e, note |-> Periodic, same |-> 1]
  <2>2. work' = [work EXCEPT ![t] = new]
    BY <1>10, <2>1, Zenon DEF Restarts
  <2>3. new \in AWork /\ new.old = e /\ new.note = Periodic
    BY WatchdogAssumption DEF AWork
  <2> HIDE DEF new
  <2>4. work' \in [Watched -> AWork] /\ work'[t] = new /\ \A u \in Watched \ {t} : work'[u] = work[u]
    BY <1>0, <2>2, <2>3 DEF DogTyped
  <2>5. DogTyped' /\ AtAiling'
    BY <1>0, <1>10, <2>4 DEF Restarts, DogTyped, AtAiling
  <2>6. BadAiled'
    BY <1>0, <1>10, <2>1, <2>3, <2>4 DEF Restarts, BadAiled
  <2> QED  BY <2>5, <2>6 DEF DogInv
<1>11. ASSUME NEW t \in Watched, Evaluates(t) PROVE DogInv'
  <2>1. PICK a \in {"seen", "pass"} : a = IF Bad(work[t]) THEN "seen" ELSE "pass"
    OBVIOUS
  <2>2. dog' = [dog EXCEPT !.todo = dog.todo \ {t}, !.task = t, !.note = work[t].note, !.at = a]
    BY <1>11, <2>1, Zenon DEF Evaluates
  <2>3. dog'.at = a /\ dog'.task = t /\ dog'.todo \subseteq Watched /\ DOMAIN dog' = DOMAIN dog
    BY <1>0, <2>2 DEF DogTyped
  <2>4. a = "seen" => t \in dogpast.ailed
    BY <2>1, BadHasAiled
  <2>5. DogTyped' /\ AtAiling' /\ dogpast'.ailed = dogpast.ailed /\ work' = work
    BY <1>0, <1>11, <2>3, <2>4 DEF Evaluates, DogTyped, AtAiling
  <2> QED  BY <2>5, AiledStays DEF DogInv
<1>12. ASSUME NEW t \in Watched, NEW n \in Notes, Checkpoints(t, n) PROVE DogInv'
  BY <1>12, CheckpointKeeps
<1>13. ASSUME NEW t \in Watched, NEW logged, CauseFound(t, logged) PROVE DogInv'
  BY <1>0, <1>13 DEF CauseFound, DogInv, DogTyped, BadAiled, AtAiling
<1>14. ASSUME NEW n \in Notes, Recalls(n) PROVE DogInv'
  BY <1>0, <1>14 DEF Recalls, DogInv, DogTyped, BadAiled, AtAiling
<1>15. CASE UNCHANGED dogvars
  BY <1>0, <1>15 DEF dogvars, DogInv, DogTyped, BadAiled, AtAiling
<1> QED
  BY <1>1, <1>2, <1>3, <1>4, <1>5, <1>6, <1>7, <1>8, <1>9, <1>10, <1>11, <1>12, <1>13, <1>14, <1>15
  DEF WatchdogNext

\* What EscalatedLast says of one step.
Escalating ==
    \A t \in Watched, kind \in {"restart", "cause"} :
        <<t, kind>> \in askedFor' \ askedFor =>
            /\ t \in dogpast.ailed
            /\ kind = "cause" /\ dogpast.known => t \in dogpast.tried

\* Only a pass asks, and what it asks for is of the task it is at.
LEMMA AskedWell == DogInv /\ [WatchdogNext]_dogvars => Escalating
<1> SUFFICES ASSUME DogInv, [WatchdogNext]_dogvars,
                    NEW t \in Watched, NEW kind \in {"restart", "cause"},
                    <<t, kind>> \in askedFor' \ askedFor
             PROVE  /\ t \in dogpast.ailed
                    /\ kind = "cause" /\ dogpast.known => t \in dogpast.tried
  BY DEF Escalating
<1>1. CASE FixSubmitted
  <2>1. t = dog.task /\ kind = "restart"
    BY <1>1 DEF FixSubmitted, AsksGovernor
  <2> QED  BY <1>1, <2>1 DEF FixSubmitted, DogInv, AtAiling
<1>2. CASE Escalates
  <2>1. t = dog.task
    BY <1>2 DEF Escalates, AsksGovernor
  <2> QED  BY <1>2, <2>1 DEF Escalates, DogInv, AtAiling
<1>3. ASSUME ~FixSubmitted, ~Escalates PROVE askedFor' \subseteq askedFor
  BY <1>3 DEF WatchdogNext, dogvars, Lists, LooksUp, LogsFix, Rechecks, PassEnds, FallsSilent,
     WatchedEnds, Restarts, Evaluates, Checkpoints, CauseFound, Recalls
<1> QED  BY <1>1, <1>2, <1>3

\* For every set of tasks and notes, the watchdog asks only about tasks that did ail, and for a
\* cause only after the known fix.
THEOREM WatchdogAsksWell == WatchdogSpec => EscalatedLast
<1>1. WatchdogSpec => []DogInv
  BY DogInit, DogNext, PTL DEF WatchdogSpec
<1>2. DogInv /\ [WatchdogNext]_dogvars => [Escalating]_dogvars
  BY AskedWell
<1>3. WatchdogSpec => [][Escalating]_dogvars
  BY <1>1, <1>2, PTL DEF WatchdogSpec
<1> QED  BY <1>3 DEF EscalatedLast, Escalating

-----------------------------------------------------------------------------
(* Watchdogs: the health check *)

\* The keys that the check mails under.
OwnKeys == (Troubles \X {"plain", "escalated"}) \cup (Blockable \X {"blocked"})
Counts == [Troubles -> Nat]
States == [Keys -> 0..Never]

HealthTyped ==
    /\ clock \in 0..MaxClock
    /\ ails \subseteq Troubles \cup Blockable
    /\ record.streaks \in Counts /\ record.blocked \subseteq Blockable
    /\ mailed \in States
    /\ copy \in {"none", "part", "whole"}
    /\ DOMAIN check = {"at", "seen", "blocked", "prev", "streaks", "todo", "key", "state"}
    /\ check.at \in {"off", "copying", "looked", "mailing", "recorded", "slept"}
    /\ check.seen \subseteq Troubles /\ check.blocked \subseteq Blockable
    /\ check.prev.streaks \in Counts /\ check.streaks \in Counts
    /\ check.todo \subseteq OwnKeys
    /\ other.at \in {"off", "read"}
    /\ DOMAIN healthpast = {"inRow", "sent", "doubled", "excused", "changes", "kills", "others"}
    /\ healthpast.inRow \in Counts /\ healthpast.sent \in States /\ healthpast.kills \in Nat

\* A streak that is recorded, or that the cycle at work will record, is of cycles that were.
StreaksCounted ==
    /\ \A t \in Troubles : record.streaks[t] <= healthpast.inRow[t]
    /\ check.at \in {"copying", "looked"} =>
        /\ check.prev.streaks = record.streaks
        /\ \A t \in check.seen : record.streaks[t] < healthpast.inRow[t]
    /\ check.at = "mailing" =>
        \A t \in Troubles : /\ check.streaks[t] <= healthpast.inRow[t]
                            /\ t \notin check.seen => check.streaks[t] = 0
    /\ check.at = "recorded" => check.streaks = record.streaks

\* What is to be mailed: nothing before the cycle has looked; escalated, what was seen often.
TodoReal ==
    /\ check.at \notin {"mailing", "recorded"} => check.todo = {}
    /\ IF check.state = <<>> THEN check.key = <<"none", "none">> ELSE check.key \in check.todo
    /\ \A t \in Troubles :
        <<t, "escalated">> \in check.todo => healthpast.inRow[t] >= EscalateAt

\* A state file, or what was read of it, has the check's mails but for those that are excused,
\* and none that was not sent.
NoneInvented(state) == \A k \in OwnKeys : healthpast.sent[k] = Never => state[k] = Never
Remembers(state) ==
    \A k \in OwnKeys : k \notin healthpast.excused => state[k] = healthpast.sent[k]

MailsRemembered ==
    /\ NoneInvented(mailed) /\ Remembers(mailed)
    /\ check.state # <<>> =>
        /\ check.state \in States
        /\ NoneInvented(check.state) /\ Remembers(check.state)
        /\ MayMail(check.key, check.state)
    /\ other.at = "read" => other.state \in States /\ NoneInvented(other.state)
    /\ healthpast.doubled = {}

HealthInv == HealthTyped /\ StreaksCounted /\ TodoReal /\ MailsRemembered /\ CopyWhole

LEMMA HealthNumbers ==
    /\ {MaxClock, RateLimit, EscalateAt, Never} \subseteq Nat
    /\ MaxClock < Never /\ OwnKeys \subseteq Keys /\ <<"other", "script">> \in Keys \ OwnKeys
    /\ \A c \in 0..MaxClock : c \in 0..Never /\ c # Never
<1>1. {MaxClock, RateLimit, EscalateAt} \subseteq Nat
  BY HealthAssumption
<1>2. Never \in Nat /\ MaxClock < Never
  BY <1>1 DEF Never
<1> QED  BY <1>1, <1>2 DEF OwnKeys, Keys

\* A run that has not looked yet, and remembers nothing.
LEMMA IdleRun ==
    /\ DOMAIN Idle = {"at", "seen", "blocked", "prev", "streaks", "todo", "key", "state"}
    /\ Idle.at = "off" /\ Idle.seen = {} /\ Idle.blocked = {} /\ Idle.prev.streaks \in Counts
    /\ Idle.streaks \in Counts /\ Idle.todo = {} /\ Idle.key = <<"none", "none">>
    /\ Idle.state = <<>>
BY DEF Idle, NoRecord, Counts

LEMMA HealthBegins == HealthInit => HealthInv
<1> SUFFICES ASSUME HealthInit PROVE HealthInv
  OBVIOUS
<1> USE DEF HealthInit
<1>1. HealthTyped
  BY HealthNumbers, IdleRun DEF HealthTyped, NoRecord, Counts, States
<1>2. StreaksCounted
  BY IdleRun DEF StreaksCounted, NoRecord
<1>3. TodoReal
  BY IdleRun DEF TodoReal
<1>4. MailsRemembered
  BY HealthNumbers, IdleRun DEF MailsRemembered, NoneInvented, Remembers
<1> QED  BY <1>1, <1>2, <1>3, <1>4 DEF HealthInv, CopyWhole

LEMMA LooksKeeps == HealthInv /\ LooksAtServer => HealthInv'
<1> SUFFICES ASSUME HealthInv, LooksAtServer PROVE HealthInv'
  OBVIOUS
<1> DEFINE more == [t \in Troubles |-> healthpast.inRow[t] + (IF t \in ails THEN 1 ELSE 0)]
<1>1. more \in Counts /\ \A t \in Troubles : more[t] >= healthpast.inRow[t]
                     /\ (t \in ails => more[t] > healthpast.inRow[t])
  BY DEF HealthInv, HealthTyped, Counts
<1>2. /\ healthpast' = [healthpast EXCEPT !.inRow = more]
      /\ UNCHANGED <<clock, ails, record, mailed, other>>
  BY DEF LooksAtServer
<1> HIDE DEF more
<1>3. /\ healthpast'.inRow = more /\ healthpast'.sent = healthpast.sent
      /\ healthpast'.doubled = healthpast.doubled /\ healthpast'.excused = healthpast.excused
      /\ healthpast'.kills = healthpast.kills /\ DOMAIN healthpast' = DOMAIN healthpast
  BY <1>2 DEF HealthInv, HealthTyped
<1>4. PICK a \in {"copying", "looked"} : a = IF copy = "none" THEN "copying" ELSE "looked"
  OBVIOUS
<1>5. check' = [Idle EXCEPT !.at = a, !.prev = record, !.seen = ails \cap Troubles,
                            !.blocked = ails \cap Blockable]
  BY <1>4 DEF LooksAtServer
<1>6. /\ check'.at = a /\ check'.prev = record /\ check'.seen = ails \cap Troubles
      /\ check'.blocked = ails \cap Blockable /\ check'.streaks = Idle.streaks
      /\ check'.todo = {} /\ check'.key = <<"none", "none">> /\ check'.state = <<>>
      /\ DOMAIN check' = DOMAIN Idle
  BY <1>5, IdleRun
<1>7. HealthTyped'
  BY <1>1, <1>2, <1>3, <1>6, IdleRun DEF LooksAtServer, HealthInv, HealthTyped
<1>8. StreaksCounted'
  <2>1. \A t \in Troubles : record.streaks[t] <= more[t] /\ (t \in ails => record.streaks[t] < more[t])
    <3>1. ASSUME NEW t \in Troubles
          PROVE  record.streaks[t] <= more[t] /\ (t \in ails => record.streaks[t] < more[t])
      <4>1. /\ record.streaks[t] \in Nat /\ healthpast.inRow[t] \in Nat /\ more[t] \in Nat
            /\ record.streaks[t] <= healthpast.inRow[t]
        BY <1>1 DEF HealthInv, HealthTyped, StreaksCounted, Counts
      <4> QED  BY <1>1, <4>1
    <3> QED  BY <3>1
  <2> QED  BY <1>2, <1>3, <1>6, <2>1 DEF StreaksCounted
<1>9. TodoReal'
  BY <1>6 DEF TodoReal
<1>10. MailsRemembered'
  BY <1>2, <1>3, <1>6 DEF HealthInv, MailsRemembered, NoneInvented, Remembers
<1>11. CopyWhole'
  BY <1>3, <1>4, <1>6 DEF LooksAtServer, HealthInv, CopyWhole
<1> QED  BY <1>7, <1>8, <1>9, <1>10, <1>11 DEF HealthInv

LEMMA AnomaliesKeeps == HealthInv /\ Anomalies => HealthInv'
<1> SUFFICES ASSUME HealthInv, Anomalies PROVE HealthInv'
  OBVIOUS
<1> DEFINE counted == [t \in Troubles |-> Streak(t)]
<1> DEFINE keys == {MailKey(t) : t \in check.seen}
<1>1. \A t \in Troubles : /\ Streak(t) \in Nat /\ Streak(t) <= healthpast.inRow[t]
                          /\ t \notin check.seen => Streak(t) = 0
  <2>1. ASSUME NEW t \in Troubles
        PROVE  Streak(t) \in Nat /\ Streak(t) <= healthpast.inRow[t] /\ (t \notin check.seen => Streak(t) = 0)
    <3>1. /\ record.streaks[t] \in Nat /\ healthpast.inRow[t] \in Nat
          /\ check.prev.streaks = record.streaks
          /\ t \in check.seen => record.streaks[t] < healthpast.inRow[t]
      BY DEF HealthInv, HealthTyped, StreaksCounted, Anomalies, Counts
    <3> QED  BY <3>1 DEF Streak
  <2> QED  BY <2>1
<1>2. counted \in Counts /\ \A t \in Troubles : counted[t] = Streak(t)
  BY <1>1 DEF Counts
<1>3. keys \subseteq OwnKeys
  BY DEF MailKey, OwnKeys, HealthInv, HealthTyped
<1>4. \A t \in Troubles : <<t, "escalated">> \in keys => healthpast.inRow[t] >= EscalateAt
  <2>1. ASSUME NEW t \in Troubles, <<t, "escalated">> \in keys
        PROVE  healthpast.inRow[t] >= EscalateAt
    <3>1. Streak(t) >= EscalateAt
      BY <2>1 DEF MailKey
    <3>2. healthpast.inRow[t] \in Nat /\ EscalateAt \in Nat
      BY HealthNumbers DEF HealthInv, HealthTyped, Counts
    <3> QED  BY <1>1, <3>1, <3>2
  <2> QED  BY <2>1
<1>5. check' = [check EXCEPT !.at = "mailing", !.streaks = counted, !.todo = keys]
  BY DEF Anomalies
<1> HIDE DEF counted, keys
<1>6. /\ check'.at = "mailing" /\ check'.streaks = counted /\ check'.todo = keys
      /\ check'.seen = check.seen /\ check'.blocked = check.blocked /\ check'.prev = check.prev
      /\ check'.key = check.key /\ check'.state = check.state /\ DOMAIN check' = DOMAIN check
  BY <1>5 DEF HealthInv, HealthTyped
<1>7. check.todo = {} /\ check.key = <<"none", "none">> /\ check.state = <<>>
  BY DEF HealthInv, TodoReal, Anomalies
<1>8. UNCHANGED <<clock, ails, record, mailed, copy, other, healthpast>>
  BY DEF Anomalies
<1>9. HealthTyped'
  BY <1>2, <1>3, <1>6, <1>8 DEF HealthInv, HealthTyped
<1>10. StreaksCounted'
  BY <1>1, <1>2, <1>6, <1>8 DEF HealthInv, StreaksCounted
<1>11. TodoReal'
  BY <1>4, <1>6, <1>7, <1>8 DEF TodoReal
<1>12. MailsRemembered'
  BY <1>6, <1>7, <1>8 DEF HealthInv, MailsRemembered, NoneInvented, Remembers
<1>13. CopyWhole'
  BY <1>8 DEF Anomalies, HealthInv, CopyWhole
<1> QED  BY <1>9, <1>10, <1>11, <1>12, <1>13 DEF HealthInv

LEMMA AsksKeeps == ASSUME HealthInv, NEW k \in Keys, Asks(k) PROVE HealthInv'
<1>0. HealthTyped /\ StreaksCounted /\ TodoReal /\ MailsRemembered /\ CopyWhole
  BY DEF HealthInv
<1>1. /\ UNCHANGED <<clock, ails, record, mailed, copy, other, healthpast>>
      /\ check.at \in {"mailing", "recorded"} /\ k \in check.todo /\ check.state = <<>>
  BY DEF Asks
<1>2. CASE MayMail(k, mailed)
  <2>1. check' = [check EXCEPT !.key = k, !.state = mailed]
    BY <1>2 DEF Asks
  <2>2. /\ check'.key = k /\ check'.state = mailed /\ check'.at = check.at
        /\ check'.streaks = check.streaks /\ check'.todo = check.todo /\ check'.seen = check.seen
        /\ check'.blocked = check.blocked /\ check'.prev = check.prev /\ DOMAIN check' = DOMAIN check
    BY <1>0, <2>1 DEF HealthTyped
  <2>5. mailed # <<>>
    BY <1>0, HealthNumbers DEF HealthTyped, States
  <2>3. HealthTyped' /\ StreaksCounted' /\ TodoReal' /\ CopyWhole'
    BY <1>0, <1>1, <2>2, <2>5 DEF HealthTyped, StreaksCounted, TodoReal, CopyWhole
  <2>4. MailsRemembered'
    BY <1>0, <1>1, <1>2, <2>2 DEF HealthTyped, MailsRemembered, NoneInvented, Remembers, MayMail
  <2> QED  BY <2>3, <2>4 DEF HealthInv
<1>3. CASE ~MayMail(k, mailed)
  <2>1. check' = [check EXCEPT !.todo = check.todo \ {k}]
    BY <1>3 DEF Asks
  <2>2. /\ check'.key = check.key /\ check'.state = check.state /\ check'.at = check.at
        /\ check'.streaks = check.streaks /\ check'.todo = check.todo \ {k} /\ check'.seen = check.seen
        /\ check'.blocked = check.blocked /\ check'.prev = check.prev /\ DOMAIN check' = DOMAIN check
    BY <1>0, <2>1 DEF HealthTyped
  <2>3. HealthTyped' /\ StreaksCounted' /\ CopyWhole'
    BY <1>0, <1>1, <2>2 DEF HealthTyped, StreaksCounted, CopyWhole
  <2>4. TodoReal'
    BY <1>0, <1>1, <2>2 DEF TodoReal
  <2>5. MailsRemembered'
    BY <1>0, <1>1, <2>2 DEF MailsRemembered, NoneInvented, Remembers
  <2> QED  BY <2>3, <2>4, <2>5 DEF HealthInv
<1> QED  BY <1>2, <1>3
LEMMA MailsKeeps == ASSUME HealthInv, NEW b \in BOOLEAN, Mails(b) PROVE HealthInv'
<1> DEFINE k == check.key
<1> DEFINE last == healthpast.sent[k]
<1>0. HealthTyped /\ StreaksCounted /\ TodoReal /\ MailsRemembered /\ CopyWhole
  BY DEF HealthInv
<1>1. /\ UNCHANGED <<clock, ails, record, copy, other>>
      /\ check.state # <<>>
  BY DEF Mails
<1>2. k \in OwnKeys /\ k \in Keys /\ check.at \in {"mailing", "recorded"}
  BY <1>0, <1>1, HealthNumbers DEF TodoReal, HealthTyped
<1>3. check' = [check EXCEPT !.todo = check.todo \ {k}, !.state = <<>>, !.key = <<"none", "none">>]
  BY DEF Mails
<1>4. /\ check'.key = <<"none", "none">> /\ check'.state = <<>> /\ check'.at = check.at
      /\ check'.streaks = check.streaks /\ check'.todo = check.todo \ {k} /\ check'.seen = check.seen
      /\ check'.blocked = check.blocked /\ check'.prev = check.prev /\ DOMAIN check' = DOMAIN check
  BY <1>0, <1>3 DEF HealthTyped
<1>5. CASE b = FALSE
  <2>1. UNCHANGED <<mailed, healthpast>>
    BY <1>5 DEF Mails
  <2>2. HealthTyped' /\ StreaksCounted' /\ CopyWhole' /\ TodoReal'
    BY <1>0, <1>1, <1>4, <2>1 DEF HealthTyped, StreaksCounted, CopyWhole, TodoReal
  <2>3. MailsRemembered'
    BY <1>0, <1>1, <1>4, <2>1 DEF MailsRemembered, NoneInvented, Remembers
  <2> QED  BY <2>2, <2>3 DEF HealthInv
<1>6. CASE b = TRUE
  <2>1. last = Never \/ clock - last >= RateLimit \/ k \in healthpast.excused
    BY <1>0, <1>1, <1>2 DEF MailsRemembered, Remembers, MayMail
  <2>2. clock \in 0..Never /\ clock # Never /\ clock \in Nat /\ RateLimit \in Nat /\ last \in 0..Never
    BY <1>0, <1>2, HealthNumbers DEF HealthTyped, States
  <2>3. ~(last # Never /\ clock - last < RateLimit /\ k \notin healthpast.excused)
    BY <2>1, <2>2, HealthNumbers
  <2>4. /\ mailed' = [check.state EXCEPT ![k] = clock]
        /\ healthpast' = [healthpast EXCEPT !.sent[k] = clock, !.excused = healthpast.excused \ {k},
                                            !.doubled = healthpast.doubled]
    BY <1>6, <2>3 DEF Mails
  <2> HIDE DEF k, last
  <2>5. /\ healthpast'.sent = [healthpast.sent EXCEPT ![k] = clock]
        /\ healthpast'.excused = healthpast.excused \ {k} /\ healthpast'.doubled = healthpast.doubled
        /\ healthpast'.inRow = healthpast.inRow /\ healthpast'.kills = healthpast.kills
        /\ DOMAIN healthpast' = DOMAIN healthpast
    BY <1>0, <2>4 DEF HealthTyped
  <2>6. check.state \in States /\ NoneInvented(check.state) /\ Remembers(check.state)
    BY <1>0, <1>1 DEF MailsRemembered
  <2>7. mailed' \in States /\ healthpast'.sent \in States
    BY <1>0, <2>2, <2>4, <2>5, <2>6 DEF HealthTyped, States
  <2>8. HealthTyped' /\ StreaksCounted' /\ CopyWhole' /\ TodoReal'
    BY <1>0, <1>1, <1>4, <2>5, <2>7 DEF HealthTyped, StreaksCounted, CopyWhole, TodoReal
  <2>9. /\ \A j \in OwnKeys : healthpast'.sent[j] = IF j = k THEN clock ELSE healthpast.sent[j]
        /\ \A j \in OwnKeys : mailed'[j] = IF j = k THEN clock ELSE check.state[j]
    BY <1>0, <2>4, <2>5, <2>6, HealthNumbers DEF HealthTyped, States
  <2>10. NoneInvented(mailed)' /\ Remembers(mailed)'
    BY <2>2, <2>5, <2>6, <2>9 DEF NoneInvented, Remembers
  <2>11. other.at = "read" => NoneInvented(other.state)'
    BY <1>0, <1>1, <2>2, <2>9 DEF MailsRemembered, NoneInvented
  <2> QED  BY <1>0, <1>1, <1>4, <2>5, <2>8, <2>10, <2>11 DEF HealthInv, MailsRemembered
<1> QED  BY <1>5, <1>6

LEMMA AppendsKeeps == HealthInv /\ AppendsRecord => HealthInv'
<1> SUFFICES ASSUME HealthInv, AppendsRecord PROVE HealthInv'
  OBVIOUS
<1>0. HealthTyped /\ StreaksCounted /\ TodoReal /\ MailsRemembered /\ CopyWhole
  BY DEF HealthInv
<1> DEFINE counted == [t \in Troubles |-> IF t \in check.seen THEN healthpast.inRow[t] ELSE 0]
<1> DEFINE keys == {<<b, "blocked">> : b \in check.blocked \cap check.prev.blocked}
<1>1. counted \in Counts /\ \A t \in Troubles : counted[t] = IF t \in check.seen THEN healthpast.inRow[t] ELSE 0
  BY <1>0 DEF HealthTyped, Counts
<1>2. keys \subseteq OwnKeys /\ \A t \in Troubles : <<t, "escalated">> \notin keys
  BY <1>0 DEF HealthTyped, OwnKeys
<1>3. /\ check' = [check EXCEPT !.at = "recorded", !.todo = keys]
      /\ healthpast' = [healthpast EXCEPT !.inRow = counted]
  BY DEF AppendsRecord
<1> HIDE DEF counted, keys
<1>4. /\ check'.key = check.key /\ check'.state = check.state /\ check'.at = "recorded"
      /\ check'.streaks = check.streaks /\ check'.todo = keys /\ check'.seen = check.seen
      /\ check'.blocked = check.blocked /\ check'.prev = check.prev /\ DOMAIN check' = DOMAIN check
  BY <1>0, <1>3 DEF HealthTyped
<1>5. /\ healthpast'.inRow = counted /\ healthpast'.sent = healthpast.sent
      /\ healthpast'.doubled = healthpast.doubled /\ healthpast'.excused = healthpast.excused
      /\ healthpast'.kills = healthpast.kills /\ DOMAIN healthpast' = DOMAIN healthpast
  BY <1>0, <1>3 DEF HealthTyped
<1>6. /\ record'.streaks = check.streaks /\ record'.blocked = check.blocked
      /\ check.at = "mailing" /\ check.todo = {} /\ UNCHANGED <<clock, ails, mailed, copy, other>>
  BY DEF AppendsRecord
<1>7. check.state = <<>> /\ check.key = <<"none", "none">>
  BY <1>0, <1>6 DEF TodoReal
<1>8. HealthTyped'
  BY <1>0, <1>1, <1>2, <1>4, <1>5, <1>6 DEF HealthTyped
<1>9. StreaksCounted'
  BY <1>0, <1>1, <1>4, <1>5, <1>6 DEF StreaksCounted
<1>10. TodoReal'
  BY <1>2, <1>4, <1>7 DEF TodoReal
<1>11. MailsRemembered'
  BY <1>0, <1>4, <1>5, <1>6, <1>7 DEF MailsRemembered, NoneInvented, Remembers
<1>12. CopyWhole'
  BY <1>0, <1>5, <1>6 DEF CopyWhole
<1> QED  BY <1>8, <1>9, <1>10, <1>11, <1>12 DEF HealthInv

\* A run that sleeps, ends or is killed starts from nothing but the record.
LEMMA SleepsKeeps == HealthInv /\ Sleeps => HealthInv'
<1> SUFFICES ASSUME HealthInv, Sleeps PROVE HealthInv'
  OBVIOUS
<1>0. HealthTyped /\ StreaksCounted /\ TodoReal /\ MailsRemembered /\ CopyWhole
  BY DEF HealthInv
<1>1. PICK a \in {"slept", "off"} : check' = [Idle EXCEPT !.at = a]
  BY DEF Sleeps
<1>2. /\ check'.at = a /\ check'.prev = Idle.prev /\ check'.seen = {}
      /\ check'.blocked = {} /\ check'.streaks = Idle.streaks
      /\ check'.todo = {} /\ check'.key = <<"none", "none">> /\ check'.state = <<>>
      /\ DOMAIN check' = DOMAIN Idle
  BY <1>1, IdleRun
<1>3. clock' \in 0..MaxClock /\ UNCHANGED <<ails, record, mailed, copy, other, healthpast>>
  BY <1>0, HealthNumbers DEF Sleeps, HealthTyped
<1>4. HealthTyped'
  BY <1>0, <1>2, <1>3, IdleRun DEF HealthTyped
<1>5. StreaksCounted' /\ TodoReal' /\ CopyWhole'
  BY <1>0, <1>2, <1>3 DEF StreaksCounted, TodoReal, CopyWhole, Sleeps
<1>6. MailsRemembered'
  BY <1>0, <1>2, <1>3 DEF MailsRemembered, NoneInvented, Remembers
<1> QED  BY <1>4, <1>5, <1>6 DEF HealthInv

LEMMA KilledKeeps == HealthInv /\ HealthKilled => HealthInv'
<1> SUFFICES ASSUME HealthInv, HealthKilled PROVE HealthInv'
  OBVIOUS
<1>0. HealthTyped /\ StreaksCounted /\ TodoReal /\ MailsRemembered /\ CopyWhole
  BY DEF HealthInv
<1>1. PICK left \in {{}, {check.key}} :
        healthpast' = [healthpast EXCEPT !.kills = healthpast.kills + 1,
                            !.excused = healthpast.excused \cup left,
                            !.sent = [k \in Keys |-> IF k \in left THEN clock ELSE healthpast.sent[k]]]
  BY DEF HealthKilled
<1> DEFINE sent == [k \in Keys |-> IF k \in left THEN clock ELSE healthpast.sent[k]]
<1>2. /\ healthpast'.sent = sent /\ healthpast'.excused = healthpast.excused \cup left
      /\ healthpast'.doubled = healthpast.doubled
      /\ healthpast'.inRow = healthpast.inRow /\ healthpast'.kills = healthpast.kills + 1
      /\ DOMAIN healthpast' = DOMAIN healthpast
  BY <1>0, <1>1 DEF HealthTyped
<1>3. clock \in 0..Never /\ clock # Never
  BY <1>0, HealthNumbers DEF HealthTyped
<1>4. sent \in States /\ \A k \in OwnKeys : sent[k] = IF k \in left THEN clock ELSE healthpast.sent[k]
  BY <1>0, <1>3, HealthNumbers DEF HealthTyped, States
<1> HIDE DEF sent
<1>5. check' = Idle /\ UNCHANGED <<clock, ails, record, mailed, copy, other>>
  BY DEF HealthKilled
<1>6. HealthTyped'
  BY <1>0, <1>2, <1>4, <1>5, IdleRun DEF HealthTyped
<1>7. StreaksCounted' /\ TodoReal'
  BY <1>0, <1>2, <1>5, IdleRun DEF StreaksCounted, TodoReal
<1>8. CopyWhole'
  BY <1>0, <1>2 DEF HealthTyped, CopyWhole
<1>9. NoneInvented(mailed)' /\ Remembers(mailed)' /\ (other.at = "read" => NoneInvented(other.state)')
  BY <1>0, <1>2, <1>3, <1>4, <1>5 DEF MailsRemembered, NoneInvented, Remembers
<1> QED  BY <1>0, <1>2, <1>5, <1>6, <1>7, <1>8, <1>9, IdleRun DEF HealthInv, MailsRemembered

\* Another script's call writes back what it read: what the check mailed meanwhile is excused.
LEMMA OtherKeeps == HealthInv /\ OtherMails => HealthInv'
<1> SUFFICES ASSUME HealthInv, OtherMails PROVE HealthInv'
  OBVIOUS
<1>0. HealthTyped /\ StreaksCounted /\ TodoReal /\ MailsRemembered /\ CopyWhole
  BY DEF HealthInv
<1> DEFINE o == <<"other", "script">>
<1> DEFINE new == [other.state EXCEPT ![o] = clock]
<1> DEFINE missed == Forgotten(new) \ {o}
<1>1. other.at = "read" /\ other.state \in States /\ NoneInvented(other.state)
  BY <1>0 DEF OtherMails, MailsRemembered
<1>2. clock \in 0..Never
  BY <1>0, HealthNumbers DEF HealthTyped
<1>3. new \in States /\ NoneInvented(new)
  BY <1>1, <1>2, HealthNumbers DEF NoneInvented, States
<1>4. \A k \in OwnKeys : k \notin missed => new[k] = healthpast.sent[k]
  BY <1>3, HealthNumbers DEF Forgotten, NoneInvented
<1>5. /\ mailed' = new /\ healthpast' = [healthpast EXCEPT !.excused = healthpast.excused \cup missed]
      /\ other' = [at |-> "off", state |-> <<>>]
      /\ UNCHANGED <<clock, ails, record, copy, check>>
  BY DEF OtherMails
<1> HIDE DEF new, missed
<1>6. /\ healthpast'.sent = healthpast.sent /\ healthpast'.excused = healthpast.excused \cup missed
      /\ healthpast'.doubled = healthpast.doubled
      /\ healthpast'.inRow = healthpast.inRow /\ healthpast'.kills = healthpast.kills
      /\ DOMAIN healthpast' = DOMAIN healthpast
  BY <1>0, <1>5 DEF HealthTyped
<1>7. HealthTyped' /\ StreaksCounted' /\ TodoReal' /\ CopyWhole'
  BY <1>0, <1>3, <1>5, <1>6 DEF HealthTyped, StreaksCounted, TodoReal, CopyWhole
<1>8. NoneInvented(mailed)' /\ Remembers(mailed)'
  BY <1>3, <1>4, <1>5, <1>6 DEF NoneInvented, Remembers
<1>9. check.state # <<>> => NoneInvented(check.state)' /\ Remembers(check.state)' /\ MayMail(check.key, check.state)'
  BY <1>0, <1>5, <1>6 DEF MailsRemembered, NoneInvented, Remembers, MayMail
<1> QED  BY <1>0, <1>5, <1>6, <1>7, <1>8, <1>9 DEF HealthInv, MailsRemembered

LEMMA HealthGoesOn == HealthInv /\ [HealthNext]_healthvars => HealthInv'
<1> SUFFICES ASSUME HealthInv, [HealthNext]_healthvars PROVE HealthInv'
  OBVIOUS
<1>0. HealthTyped /\ StreaksCounted /\ TodoReal /\ MailsRemembered /\ CopyWhole
  BY DEF HealthInv
<1>1. ASSUME NEW a \in Troubles \cup Blockable, AilsChange(a) PROVE HealthInv'
  <2>1. /\ healthpast'.inRow = healthpast.inRow /\ healthpast'.sent = healthpast.sent
        /\ healthpast'.doubled = healthpast.doubled /\ healthpast'.excused = healthpast.excused
        /\ healthpast'.kills = healthpast.kills /\ DOMAIN healthpast' = DOMAIN healthpast
    BY <1>0, <1>1 DEF AilsChange, HealthTyped
  <2>2. ails' \subseteq Troubles \cup Blockable
    BY <1>0, <1>1 DEF AilsChange, HealthTyped
  <2>3. UNCHANGED <<clock, record, mailed, copy, check, other>>
    BY <1>1 DEF AilsChange
  <2>4. HealthTyped' /\ StreaksCounted' /\ TodoReal' /\ CopyWhole'
    BY <1>0, <2>1, <2>2, <2>3 DEF HealthTyped, StreaksCounted, TodoReal, CopyWhole
  <2>5. MailsRemembered'
    BY <1>0, <2>1, <2>3 DEF MailsRemembered, NoneInvented, Remembers, MayMail
  <2> QED  BY <2>4, <2>5 DEF HealthInv
<1>2. CASE CopiesRegister
  <2>1. /\ check'.key = check.key /\ check'.state = check.state /\ check'.at = "looked"
        /\ check'.streaks = check.streaks /\ check'.todo = check.todo /\ check'.seen = check.seen
        /\ check'.blocked = check.blocked /\ check'.prev = check.prev /\ DOMAIN check' = DOMAIN check
        /\ check.at = "copying" /\ copy' = "whole"
        /\ UNCHANGED <<clock, ails, record, mailed, other, healthpast>>
    BY <1>0, <1>2 DEF CopiesRegister, HealthTyped
  <2>2. HealthTyped' /\ StreaksCounted' /\ TodoReal' /\ CopyWhole'
    BY <1>0, <2>1 DEF HealthTyped, StreaksCounted, TodoReal, CopyWhole
  <2>3. MailsRemembered'
    BY <1>0, <2>1 DEF MailsRemembered, NoneInvented, Remembers, MayMail
  <2> QED  BY <2>2, <2>3 DEF HealthInv
<1>3. CASE OtherAsks
  <2>1. /\ healthpast'.inRow = healthpast.inRow /\ healthpast'.sent = healthpast.sent
        /\ healthpast'.doubled = healthpast.doubled /\ healthpast'.excused = healthpast.excused
        /\ healthpast'.kills = healthpast.kills /\ DOMAIN healthpast' = DOMAIN healthpast
        /\ other'.at = "read" /\ other'.state = mailed
        /\ UNCHANGED <<clock, ails, record, mailed, copy, check>>
    BY <1>0, <1>3 DEF OtherAsks, HealthTyped
  <2>2. HealthTyped' /\ StreaksCounted' /\ TodoReal' /\ CopyWhole'
    BY <1>0, <2>1 DEF HealthTyped, StreaksCounted, TodoReal, CopyWhole
  <2>3. MailsRemembered'
    BY <1>0, <2>1 DEF HealthTyped, MailsRemembered, NoneInvented, Remembers, MayMail
  <2> QED  BY <2>2, <2>3 DEF HealthInv
<1>4. CASE UNCHANGED healthvars
  <2>1. HealthTyped' /\ StreaksCounted' /\ TodoReal' /\ CopyWhole'
    BY <1>0, <1>4 DEF healthvars, HealthTyped, StreaksCounted, TodoReal, CopyWhole
  <2>2. MailsRemembered'
    BY <1>0, <1>4 DEF healthvars, MailsRemembered, NoneInvented, Remembers, MayMail
  <2> QED  BY <2>1, <2>2 DEF HealthInv
<1> QED
  BY <1>1, <1>2, <1>3, <1>4, LooksKeeps, AnomaliesKeeps, AsksKeeps, MailsKeeps, AppendsKeeps,
     SleepsKeeps, KilledKeeps, OtherKeeps DEF HealthNext

\* The owner is told once an hour, of streaks that were, and from whole copies: for every set of
\* troubles and tasks, and every hour.
THEOREM OwnerIsTold == HealthSpec => []OwnerTold
<1>1. HealthInv => OwnerTold
  <2> SUFFICES ASSUME HealthInv PROVE OwnerTold
    OBVIOUS
  <2>0. HealthTyped /\ StreaksCounted /\ TodoReal /\ MailsRemembered /\ CopyWhole
    BY DEF HealthInv
  <2>1. check.at \in {"mailing", "recorded"} =>
            \A t \in Troubles : check.streaks[t] <= healthpast.inRow[t]
    BY <2>0 DEF StreaksCounted
  <2>2. ASSUME check.key # <<"none", "none">>, check.key[2] = "escalated"
        PROVE  healthpast.inRow[check.key[1]] >= EscalateAt
    <3>1. check.key \in check.todo /\ check.key \in OwnKeys
      BY <2>0, <2>2 DEF TodoReal, HealthTyped
    <3>2. PICK t \in Troubles : check.key = <<t, "escalated">>
      BY <2>2, <3>1 DEF OwnKeys
    <3> QED  BY <2>0, <3>1, <3>2 DEF TodoReal
  <2> QED  BY <2>0, <2>1, <2>2 DEF OwnerTold, MailedOncePerHour, StreaksAreReal, MailsRemembered
<1> QED  BY <1>1, HealthBegins, HealthGoesOn, PTL DEF HealthSpec

\* The check of the platform's health keeps its types.
LEMMA HealthWellTyped == HealthSpec => []HealthTypeOK
<1>1. OwnKeys \subseteq Keys
  BY HealthNumbers
<1>2. HealthInv => HealthTypeOK
  BY <1>1, Zenon DEF HealthInv, HealthTyped, Counts, States, HealthTypeOK
<1> QED  BY <1>2, HealthBegins, HealthGoesOn, PTL DEF HealthSpec

-----------------------------------------------------------------------------
(* OwnerDispatch *)

\* A row, a call at its work, and the rows of a gap that are the sentinel's.
ASubmission == [gap : Gaps \cup {"none"}, by : Submitters \cup {"none"},
                status : RowStatuses, fresh : BOOLEAN, unit : BOOLEAN]
ACall == [pc : CallPlaces, gap : Gaps \cup {"none"}, row : 0 .. MaxSubmitted, how : Deliveries]

Calling == calls[Sentinel]
OfSentinel(g) == {r \in RowIds : LiveRow(r) /\ urows[r].gap = g /\ urows[r].by = Sentinel}
HeldByCall(r) == Calling.pc \in {"linking", "recording"} /\ Calling.row = r

\* The live rows of a gap that neither the state file nor the call at work shows.
Unshown(g) == {r \in OfSentinel(g) : r # inflight[g] /\ ~HeldByCall(r)}

\* What a tick has read of a row was so, and rows do not live again.
ReadsRight ==
    \A r \in RowIds : cached[r] # "none" /\ (cached[r] = "ended" => urows[r].status = "ended")

\* A call of the sentinel is of a gap whose recorded row is over; rows shown were accepted.
CallIsOfNewGap ==
    /\ Calling.pc \notin {"headless", "over"}
    /\ Calling.pc \notin {"idle", "tick"} =>
          /\ Calling.gap \in Gaps /\ made < TickCap
          /\ inflight[Calling.gap] # 0 => ~LiveRow(inflight[Calling.gap])
    /\ Calling.pc \in {"linking", "recording"} =>
          /\ Calling.row \in RowIds /\ urows[Calling.row].status # "none"
          /\ urows[Calling.row].gap = Calling.gap
    /\ \A g \in Gaps : inflight[g] # 0 => urows[inflight[g]].status # "none"

\* Every live row that is shown nowhere was paid for by a slip: a kill or a failure.
SlipsCount == \A g \in Gaps : Cardinality(Unshown(g)) <= slips[g]

SentinelInv == DispatchTypeOK /\ ReadsRight /\ CallIsOfNewGap /\ SlipsCount

\* The rows are finitely many.
LEMMA RowIdsFinite ==
    /\ IsFiniteSet(RowIds) /\ RowIds \subseteq Nat
    /\ \A r \in RowIds : r # 0 /\ r \in 0 .. MaxSubmitted
    /\ \A r \in 0 .. MaxSubmitted : r # 0 => r \in RowIds
<1>1. MaxSubmitted \in Nat
  BY OwnerDispatchAssumption
<1>2. IsFiniteSet(1 .. MaxSubmitted)
  BY <1>1, FS_Interval
<1> QED  BY <1>1, <1>2 DEF RowIds

\* A part of the rows counts no more than the whole, and at most one more than without one.
LEMMA UnshownCounts ==
    ASSUME NEW S \in SUBSET RowIds, NEW T \in SUBSET RowIds, NEW x, S \subseteq T \cup {x}
    PROVE  /\ Cardinality(S) \in Nat /\ Cardinality(T) \in Nat
           /\ Cardinality(S) <= Cardinality(T) + 1
           /\ S \subseteq T => Cardinality(S) <= Cardinality(T)
<1>1. IsFiniteSet(S) /\ IsFiniteSet(T)
  BY RowIdsFinite, FS_Subset
<1>2. /\ IsFiniteSet(T \cup {x})
      /\ Cardinality(T \cup {x}) = IF x \in T THEN Cardinality(T) ELSE Cardinality(T) + 1
  BY <1>1, FS_AddElement
<1>3. Cardinality(S) <= Cardinality(T \cup {x})
  BY <1>2, FS_Subset
<1>4. Cardinality(S) \in Nat /\ Cardinality(T) \in Nat /\ Cardinality(T \cup {x}) \in Nat
  BY <1>1, <1>2, FS_CardinalityType
<1>5. S \subseteq T => Cardinality(S) <= Cardinality(T)
  BY <1>1, FS_Subset
<1> QED  BY <1>2, <1>3, <1>4, <1>5

LEMMA UnshownOfRows == \A g \in Gaps : Unshown(g) \in SUBSET RowIds
BY DEF Unshown, OfSentinel

\* The count holds when of each gap no unshown row is added, or one with a slip.
LEMMA SlipsStillCount ==
    ASSUME SentinelInv, slips' \in [Gaps -> 0 .. MaxSlips],
           \A g \in Gaps :
              \/ Unshown(g)' \subseteq Unshown(g) /\ slips'[g] = slips[g]
              \/ (\E x : Unshown(g)' \subseteq Unshown(g) \cup {x}) /\ slips'[g] = slips[g] + 1
    PROVE  SlipsCount'
<1> SUFFICES ASSUME NEW g \in Gaps PROVE Cardinality(Unshown(g)') <= slips'[g]
  BY DEF SlipsCount
<1> DEFINE S == Unshown(g)'
           T == Unshown(g)
<1>1. S \in SUBSET RowIds /\ T \in SUBSET RowIds
  BY DEF Unshown, OfSentinel
<1>2. Cardinality(T) <= slips[g] /\ slips[g] \in Nat
  BY OwnerDispatchAssumption DEF SentinelInv, SlipsCount, DispatchTypeOK
<1>3. \/ S \subseteq T /\ slips'[g] = slips[g]
      \/ (\E x : S \subseteq T \cup {x}) /\ slips'[g] = slips[g] + 1
  OBVIOUS
<1> HIDE DEF S, T
<1>4. CASE S \subseteq T /\ slips'[g] = slips[g]
  <2>1. S \subseteq T \cup {0}
    BY <1>4
  <2>2. Cardinality(S) <= Cardinality(T) /\ Cardinality(S) \in Nat /\ Cardinality(T) \in Nat
    BY <1>1, <1>4, <2>1, UnshownCounts
  <2>3. Cardinality(S) <= slips'[g]
    BY <1>2, <1>4, <2>2
  <2> QED  BY <2>3 DEF S
<1>5. CASE (\E x : S \subseteq T \cup {x}) /\ slips'[g] = slips[g] + 1
  <2>1. PICK x : S \subseteq T \cup {x}
    BY <1>5
  <2>2. Cardinality(S) <= Cardinality(T) + 1 /\ Cardinality(S) \in Nat /\ Cardinality(T) \in Nat
    BY <1>1, <2>1, UnshownCounts
  <2>3. Cardinality(S) <= slips'[g]
    BY <1>2, <1>5, <2>2
  <2> QED  BY <2>3 DEF S
<1> QED  BY <1>3, <1>4, <1>5

\* A record of a call and its fields.
LEMMA CallRecord ==
    ASSUME NEW pc \in CallPlaces, NEW g \in Gaps, NEW how \in Deliveries
    PROVE  LET new == [pc |-> pc, gap |-> g, row |-> 0, how |-> how] IN
             new \in ACall /\ new.pc = pc /\ new.gap = g
BY OwnerDispatchAssumption DEF ACall

\* A caller that only moves on from one place to another.
LEMMA GoesTyped ==
    ASSUME SentinelInv, NEW c \in Submitters, NEW pc \in CallPlaces, Goes(c, pc)
    PROVE  /\ calls' \in [Submitters -> ACall]
           /\ calls'[c].pc = pc /\ calls'[c].gap = calls[c].gap /\ calls'[c].row = calls[c].row
           /\ \A d \in Submitters : d # c => calls'[d] = calls[d]
BY DEF SentinelInv, DispatchTypeOK, Goes, ACall

\* When only calls and what the tick holds change, and the sentinel has no more than before.
LEMMA SentinelMovesOn ==
    ASSUME SentinelInv, calls' \in [Submitters -> ACall], UNCHANGED <<urows, inflight, slips>>,
           asked' \subseteq Gaps, cached' \in [RowIds -> RowStatuses \cup {"unread"}], ReadsRight',
           found' \subseteq Gaps, made' \in 0 .. TickCap,
           CallIsOfNewGap',
           \A r \in RowIds : HeldByCall(r) => HeldByCall(r)'
    PROVE  SentinelInv'
<1>1. DispatchTypeOK'
  BY DEF SentinelInv, DispatchTypeOK, ACall
<1>2. \A g \in Gaps : Unshown(g)' \subseteq Unshown(g)
  BY DEF Unshown, OfSentinel, LiveRow
<1>3. SlipsCount'
  BY <1>1, <1>2, SlipsStillCount DEF DispatchTypeOK
<1> QED  BY <1>1, <1>3 DEF SentinelInv

LEMMA SentinelIsCaller == Sentinel \in Submitters /\ \A c \in Hands : c \in Submitters /\ c # Sentinel
BY OwnerDispatchAssumption DEF Submitters

\* Nothing that the sentinel's count reads changes.
LEMMA SentinelUntouched ==
    ASSUME SentinelInv, calls' \in [Submitters -> ACall], calls'[Sentinel] = calls[Sentinel],
           UNCHANGED <<urows, inflight, cached, found, made, slips>>, asked' \subseteq Gaps
    PROVE  SentinelInv'
<1>1. CallIsOfNewGap' /\ ReadsRight'
  BY DEF SentinelInv, CallIsOfNewGap, Calling, LiveRow, ReadsRight
<1>2. \A r \in RowIds : HeldByCall(r) => HeldByCall(r)'
  BY DEF HeldByCall, Calling
<1> QED
  BY <1>1, <1>2, SentinelMovesOn DEF SentinelInv, DispatchTypeOK

\* The reading of a status.
LEMMA ReadsKeeps ==
    ASSUME SentinelInv, NEW g \in Gaps, Reads(g) \/ UNCHANGED cached, UNCHANGED urows
    PROVE  cached' \in [RowIds -> RowStatuses \cup {"unread"}] /\ ReadsRight'
<1>1. CASE Reads(g)
  <2>1. ASSUME NEW r \in RowIds
        PROVE  /\ cached'[r] \in RowStatuses \cup {"unread"} /\ cached'[r] # "none"
               /\ cached'[r] = "ended" => urows[r].status = "ended"
    <3>1. cached'[r] = IF r = inflight[g] THEN RowAsRead(r) ELSE cached[r]
      BY <1>1 DEF Reads
    <3>2. urows[r].status \in RowStatuses /\ cached[r] \in RowStatuses \cup {"unread"}
      BY DEF SentinelInv, DispatchTypeOK
    <3>3. r = inflight[g] => urows[r].status # "none"
      BY RowIdsFinite DEF SentinelInv, CallIsOfNewGap
    <3> QED
      BY <3>1, <3>2, <3>3 DEF RowAsRead, SentinelInv, ReadsRight, RowStatuses
  <2>2. cached' = [r \in RowIds |-> cached'[r]]
    BY <1>1 DEF Reads
  <2> QED  BY <2>1, <2>2 DEF ReadsRight
<1>2. CASE UNCHANGED cached
  BY <1>2 DEF SentinelInv, DispatchTypeOK, ReadsRight
<1> QED  BY <1>1, <1>2

\* Each kind of step: the tick's own, ...
LEMMA SentinelBeginsKeeps ==
    ASSUME SentinelInv, NEW gaps \in SUBSET Gaps, SentinelBegins(gaps) PROVE SentinelInv'
<1>1. /\ calls' \in [Submitters -> ACall] /\ calls'[Sentinel].pc = "tick"
      /\ calls[Sentinel].pc = "idle"
  BY GoesTyped, SentinelIsCaller DEF SentinelBegins, CallPlaces
<1>2. cached' \in [RowIds -> RowStatuses \cup {"unread"}] /\ ReadsRight'
  BY DEF SentinelBegins, ReadsRight
<1>3. CallIsOfNewGap'
  BY <1>1 DEF SentinelInv, CallIsOfNewGap, Calling, SentinelBegins
<1>4. \A r \in RowIds : HeldByCall(r) => HeldByCall(r)'
  BY <1>1 DEF HeldByCall, Calling
<1>5. made' \in 0 .. TickCap
  BY OwnerDispatchAssumption DEF SentinelBegins
<1> QED
  BY <1>1, <1>2, <1>3, <1>4, <1>5, SentinelMovesOn DEF SentinelBegins, SentinelInv, DispatchTypeOK

\* A gap whose row lives is passed over; a new one takes the next row.
LEMMA PassesOverKeeps == ASSUME SentinelInv, NEW g \in Gaps, PassesOver(g) PROVE SentinelInv'
<1>1. cached' \in [RowIds -> RowStatuses \cup {"unread"}] /\ ReadsRight'
  BY ReadsKeeps DEF PassesOver
<1>2. CallIsOfNewGap' /\ \A r \in RowIds : HeldByCall(r) => HeldByCall(r)'
  BY DEF SentinelInv, CallIsOfNewGap, Calling, PassesOver, HeldByCall, LiveRow
<1> QED
  BY <1>1, <1>2, SentinelMovesOn DEF PassesOver, SentinelInv, DispatchTypeOK, ACall

LEMMA DispatchesKeeps == ASSUME SentinelInv, NEW g \in Gaps, Dispatches(g) PROVE SentinelInv'
<1> DEFINE new == [pc |-> "checking", gap |-> g, row |-> 0, how |-> "register"]
<1>1. new \in ACall /\ new.pc = "checking" /\ new.gap = g
  BY CallRecord DEF CallPlaces, Deliveries
<1>2. /\ calls' = [calls EXCEPT ![Sentinel] = new] /\ Calling.pc = "tick"
      /\ made < TickCap /\ ~InFlight(g) /\ Reads(g) /\ found' = found \ {g}
      /\ UNCHANGED <<urows, asked, inflight, made, slips>>
  BY Zenon DEF Dispatches, Calling
<1> HIDE DEF new
<1>3. calls' \in [Submitters -> ACall] /\ calls'[Sentinel] = new
  BY <1>1, <1>2, SentinelIsCaller DEF SentinelInv, DispatchTypeOK, ACall
<1>4. cached' \in [RowIds -> RowStatuses \cup {"unread"}] /\ ReadsRight'
  BY <1>2, ReadsKeeps
<1>5. inflight[g] # 0 => ~LiveRow(inflight[g])
  <2> SUFFICES ASSUME inflight[g] # 0 PROVE ~LiveRow(inflight[g])
    OBVIOUS
  <2>1. PICK r \in RowIds : r = inflight[g]
    BY RowIdsFinite DEF SentinelInv, DispatchTypeOK
  <2>2. RowAsRead(r) \notin {"queued", "running"}
    BY <1>2, <2>1 DEF InFlight
  <2>3. /\ cached[r] \in RowStatuses \cup {"unread"} /\ cached[r] # "none"
        /\ cached[r] = "ended" => urows[r].status = "ended"
    BY DEF SentinelInv, DispatchTypeOK, ReadsRight
  <2> QED
    BY <2>1, <2>2, <2>3 DEF RowAsRead, LiveRow, RowStatuses
<1>6. CallIsOfNewGap'
  BY <1>1, <1>2, <1>3, <1>5 DEF SentinelInv, CallIsOfNewGap, Calling, LiveRow
<1>7. \A r \in RowIds : HeldByCall(r) => HeldByCall(r)'
  BY <1>2 DEF HeldByCall
<1> QED
  BY <1>2, <1>3, <1>4, <1>6, <1>7, SentinelMovesOn DEF SentinelInv, DispatchTypeOK

LEMMA SentinelEndsKeeps == SentinelInv /\ SentinelEnds => SentinelInv'
<1> SUFFICES ASSUME SentinelInv, SentinelEnds PROVE SentinelInv'
  OBVIOUS
<1>1. calls' \in [Submitters -> ACall] /\ calls'[Sentinel].pc = "idle" /\ Calling.pc = "tick"
  BY GoesTyped, SentinelIsCaller DEF SentinelEnds, CallPlaces, Calling
<1>2. CallIsOfNewGap' /\ ReadsRight' /\ \A r \in RowIds : HeldByCall(r) => HeldByCall(r)'
  BY <1>1 DEF SentinelInv, CallIsOfNewGap, Calling, SentinelEnds, HeldByCall, LiveRow, ReadsRight
<1> QED
  BY <1>1, <1>2, SentinelMovesOn DEF SentinelEnds, SentinelInv, DispatchTypeOK

\* ... those of a call before the governor is asked, ...
LEMMA CallGoesKeeps ==
    ASSUME SentinelInv, NEW c \in Submitters, NEW pc \in CallPlaces, Goes(c, pc),
           UNCHANGED <<urows, inflight, cached, found, made, slips>>, asked' \subseteq Gaps,
           c = Sentinel =>
              \/ calls[c].pc \in {"checking", "logging", "submitting"}
                 /\ pc \in {"tick", "logging", "submitting"}
              \/ calls[c].pc = "linking" /\ pc = "recording"
    PROVE  SentinelInv'
<1>1. /\ calls' \in [Submitters -> ACall]
      /\ calls'[c].pc = pc /\ calls'[c].gap = calls[c].gap /\ calls'[c].row = calls[c].row
      /\ \A d \in Submitters : d # c => calls'[d] = calls[d]
  BY GoesTyped
<1>2. CASE c # Sentinel
  BY <1>1, <1>2, SentinelIsCaller, SentinelUntouched
<1>3. CASE c = Sentinel
  <2>1. CallIsOfNewGap'
    BY <1>1, <1>3 DEF SentinelInv, CallIsOfNewGap, Calling, LiveRow
  <2>2. ReadsRight'
    BY DEF SentinelInv, ReadsRight
  <2>3. \A r \in RowIds : HeldByCall(r) => HeldByCall(r)'
    BY <1>1, <1>3 DEF HeldByCall, Calling
  <2> QED
    BY <1>1, <2>1, <2>2, <2>3, SentinelMovesOn DEF SentinelInv, DispatchTypeOK
<1> QED  BY <1>2, <1>3

\* ... the acceptance of a row, ...
LEMMA SubmittedKeeps == ASSUME SentinelInv, NEW c \in Submitters, Submitted(c) PROVE SentinelInv'
<1>1. CASE Goes(c, After(c)) /\ UNCHANGED urows
  <2>1. After(c) \in CallPlaces /\ (c = Sentinel => After(c) = "tick")
    BY DEF After, CallPlaces
  <2> QED
    BY <1>1, <2>1, CallGoesKeeps DEF Submitted, SentinelInv, DispatchTypeOK
<1>2. ASSUME NEW r \in RowIds, urows[r].status = "none",
             urows' = [urows EXCEPT ![r] = [gap |-> calls[c].gap, by |-> c, fresh |-> TRUE,
                                            status |-> "queued", unit |-> FALSE]],
             calls' = [calls EXCEPT ![c].pc = "linking", ![c].row = r]
      PROVE  SentinelInv'
  <2> DEFINE moved == [calls[c] EXCEPT !.pc = "linking", !.row = r]
  <2>1. PICK row \in ASubmission :
          /\ urows' = [urows EXCEPT ![r] = row]
          /\ row.gap = calls[c].gap /\ row.by = c /\ row.status = "queued"
    <3>1. PICK new \in BOOLEAN, up \in BOOLEAN :
            urows' = [urows EXCEPT ![r] = [gap |-> calls[c].gap, by |-> c, fresh |-> new,
                                           status |-> "queued", unit |-> up]]
      BY <1>2, Zenon
    <3> DEFINE row == [gap |-> calls[c].gap, by |-> c, fresh |-> new,
                       status |-> "queued", unit |-> up]
    <3>2. /\ row \in ASubmission /\ row.gap = calls[c].gap /\ row.by = c
          /\ row.status = "queued"
      BY DEF SentinelInv, DispatchTypeOK, ASubmission, RowStatuses
    <3>3. urows' = [urows EXCEPT ![r] = row]
      BY <3>1
    <3> HIDE DEF row
    <3> QED  BY <3>2, <3>3
  <2>2. /\ moved \in ACall /\ moved.pc = "linking" /\ moved.row = r /\ moved.gap = calls[c].gap
        /\ calls' = [calls EXCEPT ![c] = moved]
    <3>1. calls' = [calls EXCEPT ![c] = moved]
      BY <1>2, Zenon
    <3>2. calls[c] \in ACall /\ r \in 0 .. MaxSubmitted
      BY RowIdsFinite DEF SentinelInv, DispatchTypeOK, ACall
    <3> QED  BY <3>1, <3>2 DEF ACall, CallPlaces
  <2> HIDE DEF moved
  <2>3. UNCHANGED <<asked, inflight, cached, found, made, slips>> /\ calls[c].pc = "submitting"
    BY DEF Submitted
  <2>4. /\ urows' \in [RowIds -> ASubmission] /\ urows'[r].status = "queued"
        /\ urows'[r].by = c /\ urows'[r].gap = calls[c].gap
        /\ \A q \in RowIds : q # r => urows'[q] = urows[q]
    BY <2>1 DEF SentinelInv, DispatchTypeOK, ASubmission
  <2>5. /\ calls' \in [Submitters -> ACall] /\ calls'[c] = moved
        /\ \A d \in Submitters : d # c => calls'[d] = calls[d]
    BY <2>2 DEF SentinelInv, DispatchTypeOK, ACall
  <2>6. DispatchTypeOK'
    BY <2>3, <2>4, <2>5 DEF SentinelInv, DispatchTypeOK, ACall, ASubmission
  <2>7. ReadsRight'
    BY <1>2, <2>3, <2>4 DEF SentinelInv, ReadsRight
  <2>8. \A g \in Gaps : inflight[g] # 0 => inflight[g] \in RowIds /\ inflight[g] # r
    BY <1>2, RowIdsFinite DEF SentinelInv, DispatchTypeOK, CallIsOfNewGap
  <2>9. CallIsOfNewGap'
    <3>1. CASE c = Sentinel
      BY <2>2, <2>3, <2>4, <2>5, <2>8, <3>1 DEF SentinelInv, CallIsOfNewGap, Calling, LiveRow
    <3>2. CASE c # Sentinel
      <4>1. calls'[Sentinel] = calls[Sentinel]
        BY <2>5, <3>2, SentinelIsCaller
      <4> QED
        BY <1>2, <2>3, <2>4, <2>8, <3>2, <4>1 DEF SentinelInv, CallIsOfNewGap, Calling, LiveRow
    <3> QED  BY <3>1, <3>2
  <2>10. ASSUME NEW g \in Gaps PROVE Unshown(g)' \subseteq Unshown(g)
    <3>1. CASE c = Sentinel
      <4>1. \A q \in RowIds : HeldByCall(q) => FALSE
        BY <2>3, <3>1 DEF HeldByCall, Calling
      <4>2. HeldByCall(r)'
        BY <2>2, <2>5, <3>1 DEF HeldByCall, Calling
      <4> QED
        BY <2>3, <2>4, <4>1, <4>2 DEF Unshown, OfSentinel, LiveRow
    <3>2. CASE c # Sentinel
      <4>1. calls'[Sentinel] = calls[Sentinel]
        BY <2>5, <3>2, SentinelIsCaller
      <4> QED
        BY <2>3, <2>4, <3>2, <4>1 DEF Unshown, OfSentinel, LiveRow, HeldByCall, Calling
    <3> QED  BY <3>1, <3>2
  <2>11. SlipsCount'
    BY <2>3, <2>6, <2>10, SlipsStillCount DEF DispatchTypeOK
  <2> QED
    BY <2>6, <2>7, <2>9, <2>11 DEF SentinelInv
<1> QED
  BY <1>1, <1>2 DEF Submitted

\* ... its failure after that, ...
LEMMA SlipTyped ==
    ASSUME SentinelInv, NEW g \in Gaps, Slip(g)
    PROVE  /\ slips' \in [Gaps -> 0 .. MaxSlips] /\ slips'[g] = slips[g] + 1
           /\ \A h \in Gaps : h # g => slips'[h] = slips[h]
BY OwnerDispatchAssumption DEF SentinelInv, DispatchTypeOK, Slip

\* A call that fails or is killed leaves at most its row unshown, and that is a slip.
LEMMA CallCutShort ==
    ASSUME SentinelInv, Calling.pc \in {"linking", "recording"}, Slip(Calling.gap),
           calls' \in [Submitters -> ACall], calls'[Sentinel].pc \in {"tick", "idle"},
           UNCHANGED <<urows, asked, inflight, cached, made>>, found' \subseteq Gaps
    PROVE  SentinelInv'
<1>1. Calling.gap \in Gaps /\ Calling.row \in RowIds
  BY DEF SentinelInv, CallIsOfNewGap
<1>2. /\ slips' \in [Gaps -> 0 .. MaxSlips] /\ slips'[Calling.gap] = slips[Calling.gap] + 1
      /\ \A g \in Gaps : g # Calling.gap => slips'[g] = slips[g]
  BY <1>1, SlipTyped
<1>3. DispatchTypeOK'
  BY <1>2 DEF SentinelInv, DispatchTypeOK, ACall
<1>4. ReadsRight' /\ CallIsOfNewGap'
  BY DEF SentinelInv, ReadsRight, CallIsOfNewGap, Calling
<1>5. ASSUME NEW g \in Gaps
      PROVE  \/ Unshown(g)' \subseteq Unshown(g) /\ slips'[g] = slips[g]
             \/ (\E x : Unshown(g)' \subseteq Unshown(g) \cup {x}) /\ slips'[g] = slips[g] + 1
  <2>1. CASE g = Calling.gap
    <3>1. Unshown(g)' \subseteq Unshown(g) \cup {Calling.row}
      BY DEF Unshown, OfSentinel, LiveRow, HeldByCall
    <3> QED  BY <1>2, <2>1, <3>1
  <2>2. CASE g # Calling.gap
    <3>1. \A r \in RowIds : HeldByCall(r) => urows[r].gap # g
      BY <2>2 DEF HeldByCall, SentinelInv, CallIsOfNewGap
    <3>2. Unshown(g)' \subseteq Unshown(g)
      BY <3>1 DEF Unshown, OfSentinel, LiveRow
    <3> QED  BY <1>2, <2>2, <3>2
  <2> QED  BY <2>1, <2>2
<1> QED
  BY <1>2, <1>3, <1>4, <1>5, SlipsStillCount DEF SentinelInv

LEMMA LogsWorkFailsKeeps ==
    ASSUME SentinelInv, NEW c \in Submitters, LogsWorkFails(c) PROVE SentinelInv'
<1>1. After(c) \in CallPlaces /\ (c = Sentinel => After(c) = "tick")
  BY DEF After, CallPlaces
<1>2. /\ calls' \in [Submitters -> ACall] /\ calls'[c].pc = After(c)
      /\ \A d \in Submitters : d # c => calls'[d] = calls[d]
  BY <1>1, GoesTyped DEF LogsWorkFails
<1>3. CASE c = Sentinel
  <2>1. /\ Calling.pc = "linking" /\ Slip(Calling.gap) /\ calls'[Sentinel].pc = "tick"
        /\ UNCHANGED <<urows, asked, inflight, cached, found, made>>
    BY <1>1, <1>2, <1>3 DEF LogsWorkFails, Calling
  <2> QED
    BY <1>2, <2>1, CallCutShort DEF SentinelInv, DispatchTypeOK
<1>4. CASE c # Sentinel
  <2>1. /\ UNCHANGED <<urows, asked, inflight, cached, found, made, slips>>
        /\ calls'[Sentinel] = calls[Sentinel]
    BY <1>2, <1>4, SentinelIsCaller DEF LogsWorkFails
  <2> QED
    BY <1>2, <2>1, SentinelUntouched DEF SentinelInv, DispatchTypeOK
<1> QED  BY <1>3, <1>4

\* The row is recorded in flight.
LEMMA RecordsKeeps == SentinelInv /\ Records => SentinelInv'
<1> SUFFICES ASSUME SentinelInv, Records PROVE SentinelInv'
  OBVIOUS
<1> DEFINE gap == Calling.gap
           row == Calling.row
<1>1. /\ gap \in Gaps /\ row \in RowIds /\ row # 0 /\ row \in 0 .. MaxSubmitted
      /\ urows[row].status # "none" /\ urows[row].gap = gap /\ Calling.pc = "recording"
      /\ inflight[gap] # 0 => ~LiveRow(inflight[gap])
  BY RowIdsFinite DEF SentinelInv, CallIsOfNewGap, Records, Calling
<1>2. /\ inflight' = [inflight EXCEPT ![gap] = row] /\ made' = made + 1
      /\ Goes(Sentinel, "tick") /\ UNCHANGED <<urows, asked, cached, found, slips>>
  BY DEF Records, Calling
<1> HIDE DEF gap, row
<1>3. calls' \in [Submitters -> ACall] /\ calls'[Sentinel].pc = "tick"
  BY <1>2, GoesTyped, SentinelIsCaller DEF CallPlaces
<1>4. /\ inflight' \in [Gaps -> 0 .. MaxSubmitted] /\ inflight'[gap] = row
      /\ \A g \in Gaps : g # gap => inflight'[g] = inflight[g]
  BY <1>1, <1>2 DEF SentinelInv, DispatchTypeOK
<1>5. made' \in 0 .. TickCap
  <2>1. made \in 0 .. TickCap /\ made < TickCap /\ TickCap \in Nat
    BY <1>1, OwnerDispatchAssumption DEF SentinelInv, DispatchTypeOK, CallIsOfNewGap
  <2> QED  BY <1>2, <2>1
<1>6. DispatchTypeOK'
  BY <1>2, <1>3, <1>4, <1>5 DEF SentinelInv, DispatchTypeOK, ACall
<1>7. ReadsRight'
  BY <1>2 DEF SentinelInv, ReadsRight
<1>8. CallIsOfNewGap'
  <2>1. \A g \in Gaps : inflight'[g] # 0 => urows[inflight'[g]].status # "none"
    BY <1>1, <1>4 DEF SentinelInv, CallIsOfNewGap
  <2> QED  BY <1>2, <1>3, <2>1 DEF CallIsOfNewGap, Calling
<1>9. ASSUME NEW g \in Gaps PROVE Unshown(g)' \subseteq Unshown(g)
  <2>1. \A r \in RowIds : HeldByCall(r) => r = row
    BY DEF HeldByCall, row
  <2>2. CASE g = gap
    <3>1. \A r \in OfSentinel(g) : r # inflight[g]
      BY <1>1, <2>2, RowIdsFinite DEF OfSentinel
    <3> QED
      BY <1>2, <1>4, <2>1, <2>2, <3>1 DEF Unshown, OfSentinel, LiveRow
  <2>3. CASE g # gap
    <3>1. row \notin OfSentinel(g)
      BY <1>1, <2>3 DEF OfSentinel
    <3> QED
      BY <1>2, <1>4, <2>1, <2>3, <3>1 DEF Unshown, OfSentinel, LiveRow
  <2> QED  BY <2>2, <2>3
<1>10. SlipsCount'
  BY <1>2, <1>6, <1>9, SlipsStillCount DEF DispatchTypeOK
<1> QED
  BY <1>6, <1>7, <1>8, <1>10 DEF SentinelInv

\* ... the tick's death, with or without its state file, ...
LEMMA SentinelKilledKeeps == SentinelInv /\ SentinelKilled => SentinelInv'
<1> SUFFICES ASSUME SentinelInv, SentinelKilled PROVE SentinelInv'
  OBVIOUS
<1>1. /\ calls' \in [Submitters -> ACall] /\ calls'[Sentinel].pc = "idle"
      /\ found' = {} /\ UNCHANGED <<urows, asked, cached, made>>
  BY GoesTyped, SentinelIsCaller DEF SentinelKilled, CallPlaces
<1>2. CASE /\ Calling.pc \in {"linking", "recording"} /\ Slip(Calling.gap)
           /\ UNCHANGED inflight
  BY <1>1, <1>2, CallCutShort
<1>3. CASE /\ Calling.pc = "recording"
           /\ \A g \in Gaps : slips[g] < MaxSlips
           /\ slips' = [g \in Gaps |-> IF g = Calling.gap \/ inflight[g] # 0
                                         THEN slips[g] + 1 ELSE slips[g]]
           /\ inflight' = [g \in Gaps |-> 0]
  <2>1. /\ Calling.gap \in Gaps /\ Calling.row \in RowIds
        /\ urows[Calling.row].gap = Calling.gap
        /\ inflight[Calling.gap] # 0 => ~LiveRow(inflight[Calling.gap])
    BY <1>3 DEF SentinelInv, CallIsOfNewGap
  <2>2. /\ slips' \in [Gaps -> 0 .. MaxSlips]
        /\ \A g \in Gaps : slips'[g] = IF g = Calling.gap \/ inflight[g] # 0
                                         THEN slips[g] + 1 ELSE slips[g]
    BY <1>3, OwnerDispatchAssumption DEF SentinelInv, DispatchTypeOK
  <2>3. inflight' \in [Gaps -> 0 .. MaxSubmitted] /\ \A g \in Gaps : inflight'[g] = 0
    BY <1>3, OwnerDispatchAssumption
  <2>4. DispatchTypeOK'
    BY <1>1, <2>2, <2>3 DEF SentinelInv, DispatchTypeOK, ACall
  <2>5. ReadsRight' /\ CallIsOfNewGap'
    BY <1>1, <2>3 DEF SentinelInv, ReadsRight, CallIsOfNewGap, Calling
  <2>6. ASSUME NEW g \in Gaps
        PROVE  \/ Unshown(g)' \subseteq Unshown(g) /\ slips'[g] = slips[g]
               \/ (\E x : Unshown(g)' \subseteq Unshown(g) \cup {x}) /\ slips'[g] = slips[g] + 1
    <3>1. OfSentinel(g)' = OfSentinel(g) /\ Unshown(g)' \subseteq OfSentinel(g)
      BY <1>1 DEF Unshown, OfSentinel, LiveRow
    <3>2. CASE g = Calling.gap
      <4>1. \A r \in OfSentinel(g) : r # inflight[g]
        BY <2>1, <3>2, RowIdsFinite DEF OfSentinel
      <4>2. Unshown(g)' \subseteq Unshown(g) \cup {Calling.row}
        BY <3>1, <4>1 DEF Unshown, HeldByCall
      <4> QED  BY <2>2, <3>2, <4>2
    <3>3. CASE g # Calling.gap /\ inflight[g] # 0
      <4>1. \A r \in OfSentinel(g) : ~HeldByCall(r)
        BY <2>1, <3>3 DEF OfSentinel, HeldByCall
      <4>2. Unshown(g)' \subseteq Unshown(g) \cup {inflight[g]}
        BY <3>1, <4>1 DEF Unshown
      <4> QED  BY <2>2, <3>3, <4>2
    <3>4. CASE g # Calling.gap /\ inflight[g] = 0
      <4>1. \A r \in OfSentinel(g) : ~HeldByCall(r) /\ r # 0
        BY <2>1, <3>4, RowIdsFinite DEF OfSentinel, HeldByCall
      <4>2. Unshown(g)' \subseteq Unshown(g)
        BY <3>1, <3>4, <4>1 DEF Unshown
      <4> QED  BY <2>2, <3>4, <4>2
    <3> QED  BY <3>2, <3>3, <3>4
  <2>7. SlipsCount'
    BY <2>2, <2>6, SlipsStillCount
  <2> QED
    BY <2>4, <2>5, <2>7 DEF SentinelInv
<1>4. CASE /\ Calling.pc \notin {"linking", "recording"}
           /\ UNCHANGED <<inflight, slips>>
  <2>1. CallIsOfNewGap' /\ ReadsRight'
    BY <1>1, <1>4 DEF SentinelInv, CallIsOfNewGap, Calling, LiveRow, ReadsRight
  <2>2. \A r \in RowIds : HeldByCall(r) => HeldByCall(r)'
    BY <1>4 DEF HeldByCall
  <2> QED
    BY <1>1, <1>4, <2>1, <2>2, SentinelMovesOn DEF SentinelInv, DispatchTypeOK
<1> QED
  BY <1>2, <1>3, <1>4 DEF SentinelKilled, Calling

\* ... and what becomes of a row: it ends or grows old, and is never accepted again.
RowsOnlyAge ==
    \A q \in RowIds :
       /\ urows'[q].gap = urows[q].gap /\ urows'[q].by = urows[q].by
       /\ urows[q].status # "none" => urows'[q].status # "none"
       /\ urows[q].status = "ended" => urows'[q].status = "ended"
       /\ urows'[q].status \in {"queued", "running"} => urows[q].status \in {"queued", "running"}

LEMMA RowsAgeKeep ==
    ASSUME SentinelInv, urows' \in [RowIds -> ASubmission], RowsOnlyAge,
           calls' \in [Submitters -> ACall], calls'[Sentinel] = calls[Sentinel],
           UNCHANGED <<asked, inflight, cached, found, made, slips>>
    PROVE  SentinelInv'
<1>1. DispatchTypeOK'
  BY DEF SentinelInv, DispatchTypeOK, ASubmission, ACall
<1>2. ReadsRight'
  BY DEF SentinelInv, ReadsRight, RowsOnlyAge
<1>3. \A g \in Gaps : inflight[g] # 0 => inflight[g] \in RowIds
  BY RowIdsFinite DEF SentinelInv, DispatchTypeOK
<1>4. CallIsOfNewGap'
  BY <1>3 DEF SentinelInv, CallIsOfNewGap, Calling, LiveRow, RowsOnlyAge
<1>5. \A g \in Gaps : Unshown(g)' \subseteq Unshown(g)
  BY DEF Unshown, OfSentinel, LiveRow, HeldByCall, Calling, RowsOnlyAge
<1>6. SlipsCount'
  BY <1>1, <1>5, SlipsStillCount DEF DispatchTypeOK
<1> QED  BY <1>1, <1>2, <1>4, <1>6 DEF SentinelInv

\* A row that is ended, at least.
LEMMA RowEnds ==
    ASSUME SentinelInv, NEW r, urows' = [urows EXCEPT ![r].status = "ended"]
    PROVE  urows' \in [RowIds -> ASubmission] /\ RowsOnlyAge
<1>1. CASE r \in RowIds
  <2> DEFINE row == [urows[r] EXCEPT !.status = "ended"]
  <2>1. /\ urows[r] \in ASubmission /\ row \in ASubmission /\ row.gap = urows[r].gap
        /\ row.by = urows[r].by /\ row.status = "ended"
    BY <1>1 DEF SentinelInv, DispatchTypeOK, ASubmission, RowStatuses
  <2>2. urows' = [urows EXCEPT ![r] = row]
    BY Zenon
  <2> HIDE DEF row
  <2> QED
    BY <1>1, <2>1, <2>2 DEF SentinelInv, DispatchTypeOK, ASubmission, RowsOnlyAge
<1>2. CASE r \notin RowIds
  <2>1. urows' = urows
    BY <1>2 DEF SentinelInv, DispatchTypeOK
  <2> QED
    BY <2>1 DEF SentinelInv, DispatchTypeOK, ASubmission, RowsOnlyAge
<1> QED  BY <1>1, <1>2

\* What becomes of rows elsewhere makes none of them live again.
LEMMA RowStep ==
    ASSUME SentinelInv, NEW r \in RowIds,
           Spawns(r) \/ WorkerEnds(r) \/ RelayMarks(r) \/ RowAges(r)
    PROVE  SentinelInv'
<1>1. /\ UNCHANGED <<asked, inflight, cached, calls, found, made, slips>>
      /\ calls \in [Submitters -> ACall] /\ urows[r] \in ASubmission
  BY DEF Spawns, WorkerEnds, RelayMarks, RowAges, SentinelInv, DispatchTypeOK, ACall, ASubmission
<1>2. CASE Spawns(r)
  <2>1. PICK up \in BOOLEAN : urows' = [urows EXCEPT ![r].status = "running", ![r].unit = up]
    BY <1>2, Zenon DEF Spawns
  <2> DEFINE row == [urows[r] EXCEPT !.status = "running", !.unit = up]
  <2>2. /\ row \in ASubmission /\ row.gap = urows[r].gap /\ row.by = urows[r].by
        /\ row.status = "running"
    BY <1>1 DEF ASubmission, RowStatuses
  <2>3. urows' = [urows EXCEPT ![r] = row] /\ urows[r].status = "queued"
    BY <1>2, <2>1, Zenon DEF Spawns
  <2> HIDE DEF row
  <2>4. urows' \in [RowIds -> ASubmission] /\ RowsOnlyAge
    BY <2>2, <2>3 DEF SentinelInv, DispatchTypeOK, ASubmission, RowsOnlyAge
  <2> QED  BY <1>1, <2>4, RowsAgeKeep
<1>3. CASE WorkerEnds(r)
  <2>1. PICK up \in BOOLEAN : urows' = [urows EXCEPT ![r].status = "ended", ![r].unit = up]
    BY <1>3, Zenon DEF WorkerEnds
  <2> DEFINE row == [urows[r] EXCEPT !.status = "ended", !.unit = up]
  <2>2. /\ row \in ASubmission /\ row.gap = urows[r].gap /\ row.by = urows[r].by
        /\ row.status = "ended"
    BY <1>1 DEF ASubmission, RowStatuses
  <2>3. urows' = [urows EXCEPT ![r] = row]
    BY <2>1, Zenon
  <2> HIDE DEF row
  <2>4. urows' \in [RowIds -> ASubmission] /\ RowsOnlyAge
    BY <2>2, <2>3 DEF SentinelInv, DispatchTypeOK, ASubmission, RowsOnlyAge
  <2> QED  BY <1>1, <2>4, RowsAgeKeep
<1>4. CASE RelayMarks(r)
  BY <1>1, <1>4, RowEnds, RowsAgeKeep DEF RelayMarks
<1>5. CASE RowAges(r)
  <2>1. PICK new \in BOOLEAN : urows' = [urows EXCEPT ![r].fresh = new]
    BY <1>5, Zenon DEF RowAges
  <2>2. urows' \in [RowIds -> ASubmission] /\ RowsOnlyAge
    BY <1>1, <2>1 DEF SentinelInv, DispatchTypeOK, ASubmission, RowsOnlyAge
  <2> QED  BY <1>1, <2>2, RowsAgeKeep
<1> QED  BY <1>2, <1>3, <1>4, <1>5

\* A run without a session, and calls by hand, are no calls of the sentinel.
LEMMA HeadlessKeeps ==
    ASSUME SentinelInv, NEW c \in Submitters, HeadlessMarks(c) \/ HeadlessEndsUnmarked(c)
    PROVE  SentinelInv'
<1>1. calls[c].pc = "headless" /\ Goes(c, "over")
      /\ UNCHANGED <<asked, inflight, cached, found, made, slips>>
  BY DEF HeadlessMarks, HeadlessEndsUnmarked
<1>2. c # Sentinel
  BY <1>1 DEF SentinelInv, CallIsOfNewGap, Calling
<1>3. calls' \in [Submitters -> ACall] /\ calls'[Sentinel] = calls[Sentinel]
  BY <1>1, <1>2, GoesTyped, SentinelIsCaller DEF CallPlaces
<1>4. CASE HeadlessMarks(c)
  <2>1. urows' \in [RowIds -> ASubmission] /\ RowsOnlyAge
    BY <1>4, RowEnds DEF HeadlessMarks
  <2> QED  BY <1>1, <1>3, <2>1, RowsAgeKeep
<1>5. CASE HeadlessEndsUnmarked(c)
  <2>1. UNCHANGED urows /\ asked' \subseteq Gaps
    BY <1>5 DEF HeadlessEndsUnmarked, SentinelInv, DispatchTypeOK
  <2> QED  BY <1>1, <1>3, <2>1, SentinelUntouched
<1> QED  BY <1>4, <1>5

LEMMA HandCallsKeeps ==
    ASSUME SentinelInv, NEW c \in Hands, NEW g \in Gaps, NEW how \in Deliveries,
           HandCalls(c, g, how)
    PROVE  SentinelInv'
<1> DEFINE new == [pc |-> "checking", gap |-> g, row |-> 0, how |-> how]
<1>1. new \in ACall
  BY CallRecord DEF CallPlaces
<1>2. /\ calls' = [calls EXCEPT ![c] = new]
      /\ UNCHANGED <<urows, asked, inflight, cached, found, made, slips>>
  BY Zenon DEF HandCalls
<1> HIDE DEF new
<1>3. calls' \in [Submitters -> ACall] /\ calls'[Sentinel] = calls[Sentinel]
  BY <1>1, <1>2, SentinelIsCaller DEF SentinelInv, DispatchTypeOK, ACall
<1> QED
  BY <1>2, <1>3, SentinelUntouched DEF SentinelInv, DispatchTypeOK

LEMMA CallStep ==
    ASSUME SentinelInv, NEW c \in Submitters,
           ChecksDuplicates(c) \/ LogsInstruction(c) \/ LogsWork(c)
    PROVE  SentinelInv'
<1>1. CASE ChecksDuplicates(c)
  <2>1. PICK pc \in {After(c), "logging"} : Goes(c, pc)
    BY <1>1 DEF ChecksDuplicates
  <2>2. pc \in CallPlaces /\ (c = Sentinel => pc \in {"tick", "logging"})
    BY DEF After, CallPlaces
  <2> QED
    BY <1>1, <2>1, <2>2, CallGoesKeeps DEF ChecksDuplicates, SentinelInv, DispatchTypeOK
<1>2. CASE LogsInstruction(c)
  <2>1. asked' \subseteq Gaps
    BY <1>2 DEF LogsInstruction, SentinelInv, DispatchTypeOK, CallIsOfNewGap, Calling
  <2> QED
    BY <1>2, <2>1, CallGoesKeeps DEF LogsInstruction, CallPlaces
<1>3. CASE LogsWork(c)
  <2>1. PICK pc \in {"recording", "headless", "over"} :
          Goes(c, pc) /\ (c = Sentinel => pc = "recording")
    BY <1>3 DEF LogsWork
  <2>2. pc \in CallPlaces
    BY DEF CallPlaces
  <2> QED
    BY <1>3, <2>1, <2>2, CallGoesKeeps DEF LogsWork, SentinelInv, DispatchTypeOK
<1> QED  BY <1>1, <1>2, <1>3

LEMMA SentinelInitially == DispatchInit => SentinelInv
<1> SUFFICES ASSUME DispatchInit PROVE SentinelInv
  OBVIOUS
<1>1. NoSubmission \in ASubmission /\ NoSubmission.status = "none"
  <2>1. PICK new \in BOOLEAN, up \in BOOLEAN :
          NoSubmission = [gap |-> "none", by |-> "none", status |-> "none", fresh |-> new,
                          unit |-> up]
    BY Zenon DEF NoSubmission
  <2> QED  BY <2>1 DEF ASubmission, RowStatuses
<1>2. [pc |-> "idle", gap |-> "none", row |-> 0, how |-> "register"] \in ACall
  BY OwnerDispatchAssumption DEF ACall, CallPlaces, Deliveries
<1>3. DispatchTypeOK
  BY <1>1, <1>2, OwnerDispatchAssumption DEF DispatchInit, DispatchTypeOK, ASubmission, ACall
<1>4. ReadsRight /\ CallIsOfNewGap
  BY SentinelIsCaller DEF DispatchInit, ReadsRight, CallIsOfNewGap, Calling
<1>5. ASSUME NEW g \in Gaps PROVE Cardinality(Unshown(g)) <= slips[g]
  <2>1. Unshown(g) = {}
    BY <1>1 DEF Unshown, OfSentinel, LiveRow, DispatchInit
  <2> QED  BY <2>1, FS_EmptySet DEF DispatchInit
<1> QED  BY <1>3, <1>4, <1>5 DEF SentinelInv, SlipsCount

LEMMA SentinelStep == SentinelInv /\ [DispatchNext]_duvars => SentinelInv'
<1> SUFFICES ASSUME SentinelInv, [DispatchNext]_duvars PROVE SentinelInv'
  OBVIOUS
<1>1. ASSUME NEW g \in Gaps, TextAges(g) PROVE SentinelInv'
  BY <1>1, SentinelUntouched DEF TextAges, SentinelInv, DispatchTypeOK, ACall
<1>2. CASE UNCHANGED duvars
  BY <1>2, SentinelUntouched DEF duvars, SentinelInv, DispatchTypeOK, ACall
<1> QED
  BY <1>1, <1>2, SentinelBeginsKeeps, PassesOverKeeps, DispatchesKeeps, SentinelEndsKeeps,
     RecordsKeeps, SentinelKilledKeeps, HandCallsKeeps, CallStep, SubmittedKeeps,
     LogsWorkFailsKeeps, HeadlessKeeps, RowStep
  DEF DispatchNext

\* One live row per gap, and one more for each call that was cut short, for every number of
\* gaps, calls by hand and submissions.
THEOREM OneRowPerGap == DispatchSpec => []OneLivePerGap
<1>1. ASSUME SentinelInv, NEW g \in Gaps PROVE Cardinality(OfSentinel(g)) <= 1 + slips[g]
  <2>1. PICK x : OfSentinel(g) \subseteq Unshown(g) \cup {x}
    <3>1. CASE Calling.pc \in {"linking", "recording"} /\ Calling.gap = g
      <4>1. \A r \in OfSentinel(g) : r # inflight[g]
        BY <1>1, <3>1, RowIdsFinite DEF SentinelInv, CallIsOfNewGap, OfSentinel
      <4>2. OfSentinel(g) \subseteq Unshown(g) \cup {Calling.row}
        BY <4>1 DEF Unshown, HeldByCall
      <4> QED  BY <4>2
    <3>2. CASE ~(Calling.pc \in {"linking", "recording"} /\ Calling.gap = g)
      <4>1. \A r \in OfSentinel(g) : ~HeldByCall(r)
        BY <1>1, <3>2 DEF SentinelInv, CallIsOfNewGap, OfSentinel, HeldByCall
      <4>2. OfSentinel(g) \subseteq Unshown(g) \cup {inflight[g]}
        BY <4>1 DEF Unshown
      <4> QED  BY <4>2
    <3> QED  BY <3>1, <3>2
  <2>2. OfSentinel(g) \in SUBSET RowIds /\ Unshown(g) \in SUBSET RowIds
    BY DEF OfSentinel, Unshown
  <2>3. /\ Cardinality(OfSentinel(g)) <= Cardinality(Unshown(g)) + 1
        /\ Cardinality(OfSentinel(g)) \in Nat /\ Cardinality(Unshown(g)) \in Nat
    BY <2>1, <2>2, UnshownCounts
  <2>4. Cardinality(Unshown(g)) <= slips[g] /\ slips[g] \in Nat
    BY <1>1, OwnerDispatchAssumption DEF SentinelInv, SlipsCount, DispatchTypeOK
  <2> QED  BY <2>3, <2>4
<1>2. SentinelInv => OneLivePerGap
  BY <1>1 DEF OneLivePerGap, OfSentinel
<1> QED
  BY SentinelInitially, SentinelStep, <1>2, PTL DEF DispatchSpec

-----------------------------------------------------------------------------
(* PhasePlan *)

\* What the copies of the plan say, and who is at work on them.
ASays == [work : SUBSET PlanPhases, head : SUBSET PlanPhases, origin : SUBSET PlanPhases]
ACommit == [origin : 0 .. MaxOrigin, base : 0 .. MaxOrigin]
AWriter == [pc : {"idle", "sync", "read", "write", "commit", "push"},
            kind : {"backfill", "audit"}, phase : PlanPhases, lines : SUBSET PlanPhases]
AContinuer == [pc : {"idle", "chosen", "submitted"}, phase : PlanPhases]

\* The phases that were merged, or that some commit of origin reported done.
Attested == merges \cup landed

\* No copy of the plan, and no writer's lines, report a phase that nothing attests; a backfill
\* is of a merged phase; what the tick has chosen waits for attested phases only.
PlanInv ==
    /\ PlanTypeOK
    /\ says.work \cup says.head \cup says.origin \subseteq Attested
    /\ \A w \in Writers :
          /\ writer[w].lines \subseteq Attested
          /\ writer[w].pc # "idle" /\ writer[w].kind = "backfill" => writer[w].phase \in merges
    /\ continuer.pc # "idle" => Requires[continuer.phase] \subseteq Attested
    /\ PhasesInOrder

LEMMA FirstPhase == 1 \in PlanPhases /\ PlanPhases \subseteq Nat /\ 0 \in 0 .. MaxOrigin
                    /\ 0 \in 0 .. MaxJobs
BY PlanAssumption DEF PlanPhases

LEMMA PlanInitially == PlanInit => PlanInv
<1> SUFFICES ASSUME PlanInit PROVE PlanInv
  OBVIOUS
<1>1. PlanTypeOK
  BY FirstPhase DEF PlanInit, PlanTypeOK, NotWriting, NotContinuing
<1> QED
  BY <1>1 DEF PlanInit, PlanInv, NotWriting, NotContinuing, PhasesInOrder

\* A writer that moves on, with lines that are attested, keeps it all when the plan's copies
\* report attested phases only.
LEMMA WriterMovesOn ==
    ASSUME PlanInv, NEW w \in Writers, NEW new \in AWriter,
           writer' = [writer EXCEPT ![w] = new], new.lines \subseteq Attested,
           new.pc # "idle" /\ new.kind = "backfill" => new.phase \in merges,
           says' \in ASays, commit' \in ACommit,
           says'.work \cup says'.head \cup says'.origin \subseteq Attested,
           UNCHANGED <<merges, jobs, continuer, landed>>
    PROVE  PlanInv'
<1>1. PlanTypeOK'
  BY DEF PlanInv, PlanTypeOK, AWriter, ASays, ACommit
<1>2. Attested' = Attested
  BY DEF Attested
<1>3. ASSUME NEW o \in Writers
      PROVE  /\ writer'[o].lines \subseteq Attested
             /\ writer'[o].pc # "idle" /\ writer'[o].kind = "backfill" =>
                   writer'[o].phase \in merges
  <2>1. writer'[o] = IF o = w THEN new ELSE writer[o]
    BY DEF PlanInv, PlanTypeOK
  <2> QED  BY <2>1 DEF PlanInv
<1> QED
  BY <1>1, <1>2, <1>3 DEF PlanInv, PhasesInOrder, Attested

LEMMA NotWritingTyped ==
    NotWriting \in AWriter /\ NotWriting.lines = {} /\ NotWriting.pc = "idle"
BY FirstPhase DEF NotWriting, AWriter

\* The tick moves on.
LEMMA ContinuerMovesOn ==
    ASSUME PlanInv, continuer' \in AContinuer,
           continuer'.pc # "idle" => Requires[continuer'.phase] \subseteq Attested,
           UNCHANGED <<says, commit, merges, jobs, writer, landed>>
    PROVE  PlanInv'
BY DEF PlanInv, PlanTypeOK, AContinuer, PhasesInOrder, Attested

\* The tick chooses a phase whose requirements the plan reports done, and starts it.
LEMMA ChoosesKeeps == PlanInv /\ Chooses => PlanInv'
<1> SUFFICES ASSUME PlanInv, Chooses PROVE PlanInv'
  OBVIOUS
<1>1. PICK live \in SUBSET PlanPhases, answered \in SUBSET PlanPhases, p \in PlanPhases :
        /\ Requires[p] \subseteq {q \in PlanPhases : PlannedDone(q, live, answered)}
        /\ continuer' = [pc |-> "chosen", phase |-> p]
  BY DEF Chooses
<1>2. ASSUME NEW q \in PlanPhases, PlannedDone(q, live, answered) PROVE q \in Attested
  BY <1>2 DEF PlannedDone, PlanInv, Attested
<1> QED
  BY <1>1, <1>2, ContinuerMovesOn DEF Chooses, AContinuer

LEMMA StartsPhaseKeeps == PlanInv /\ StartsPhase => PlanInv'
<1> SUFFICES ASSUME PlanInv, StartsPhase PROVE PlanInv'
  OBVIOUS
<1>1. /\ continuer.pc = "submitted" /\ jobs[continuer.phase] < MaxJobs
      /\ jobs' = [jobs EXCEPT ![continuer.phase] = @ + 1]
      /\ continuer' = NotContinuing
      /\ UNCHANGED <<says, commit, merges, writer, landed>>
  BY DEF StartsPhase
<1>2. continuer.phase \in PlanPhases /\ jobs[continuer.phase] + 1 \in 0 .. MaxJobs
  BY <1>1, PlanAssumption DEF PlanInv, PlanTypeOK
<1>3. /\ jobs' \in [PlanPhases -> 0 .. MaxJobs]
      /\ \A p \in PlanPhases : p # continuer.phase => jobs'[p] = jobs[p]
  BY <1>1, <1>2 DEF PlanInv, PlanTypeOK
<1>4. NotContinuing \in AContinuer /\ NotContinuing.pc = "idle"
  BY FirstPhase DEF NotContinuing, AContinuer
<1>5. PlanTypeOK'
  BY <1>1, <1>3, <1>4 DEF PlanInv, PlanTypeOK, AContinuer
<1>6. Attested' = Attested
  BY <1>1 DEF Attested
<1>7. PhasesInOrder'
  BY <1>1, <1>2, <1>3 DEF PlanInv, PhasesInOrder, Attested
<1> QED
  BY <1>1, <1>4, <1>5, <1>6, <1>7 DEF PlanInv

\* A commit of somebody else attests what it reports.
LEMMA LandsKeeps == ASSUME PlanInv, NEW reported \in SUBSET PlanPhases, Lands(reported)
                    PROVE  PlanInv'
<1>1. /\ commit.origin < MaxOrigin /\ commit' = [commit EXCEPT !.origin = @ + 1]
      /\ says' = [says EXCEPT !.origin = @ \cup reported]
      /\ landed' = landed \cup reported
      /\ UNCHANGED <<jobs, writer, continuer>>
  BY DEF Lands
<1>2. merges \subseteq merges' /\ merges' \subseteq PlanPhases
  BY DEF Lands, PlanInv, PlanTypeOK
<1>3. /\ says' \in ASays /\ says'.work = says.work /\ says'.head = says.head
      /\ says'.origin = says.origin \cup reported
  BY <1>1 DEF PlanInv, PlanTypeOK, ASays
<1>4. commit' \in ACommit
  BY <1>1, PlanAssumption DEF PlanInv, PlanTypeOK, ACommit
<1>5. PlanTypeOK'
  BY <1>1, <1>2, <1>3, <1>4 DEF PlanInv, PlanTypeOK, ASays, ACommit
<1>6. Attested \cup reported \subseteq Attested'
  BY <1>1, <1>2 DEF Attested
<1>7. PhasesInOrder'
  BY <1>1, <1>6 DEF PlanInv, PhasesInOrder, Attested
<1>8. says'.work \cup says'.head \cup says'.origin \subseteq Attested'
  BY <1>3, <1>6 DEF PlanInv
<1> QED
  BY <1>1, <1>2, <1>5, <1>6, <1>7, <1>8 DEF PlanInv

\* The writers report what is merged, or what they have read.
LEMMA WriterStep == ASSUME PlanInv, NEW w \in Writers
                    PROVE  /\ (\E p \in PlanPhases : BackfillBegins(w, p)) => PlanInv'
                           /\ AuditBegins(w) \/ Syncs(w) \/ ReadsToPatch(w) \/ ReadsToRevert(w)
                              \/ WritesPlan(w) \/ CommitsPlan(w) \/ PushesPlan(w)
                              \/ WriterKilled(w) => PlanInv'
<1>1. /\ writer[w] \in AWriter /\ writer[w].lines \subseteq Attested
      /\ writer[w].pc # "idle" /\ writer[w].kind = "backfill" => writer[w].phase \in merges
  BY DEF PlanInv, PlanTypeOK, AWriter
<1>2. /\ says \in ASays /\ commit \in ACommit
      /\ says.work \cup says.head \cup says.origin \subseteq Attested
  BY DEF PlanInv, PlanTypeOK, ASays, ACommit
<1>3. ASSUME writer' = [writer EXCEPT ![w] = NotWriting],
             UNCHANGED <<says, commit, merges, jobs, continuer, landed>>
      PROVE  PlanInv'
  BY <1>2, <1>3, NotWritingTyped, WriterMovesOn
<1>4. ASSUME NEW p \in PlanPhases, BackfillBegins(w, p) PROVE PlanInv'
  <2> DEFINE new == [NotWriting EXCEPT !.pc = "sync", !.phase = p]
  <2>1. new \in AWriter /\ new.lines = {} /\ new.phase = p
    BY NotWritingTyped DEF AWriter
  <2>2. writer' = [writer EXCEPT ![w] = new] /\ p \in merges
        /\ UNCHANGED <<says, commit, merges, jobs, continuer, landed>>
    BY <1>4, Zenon DEF BackfillBegins, ConfirmedMerge
  <2> HIDE DEF new
  <2> QED
    BY <1>2, <2>1, <2>2, WriterMovesOn
<1>5. CASE AuditBegins(w)
  <2> DEFINE new == [NotWriting EXCEPT !.pc = "sync", !.kind = "audit"]
  <2>1. new \in AWriter /\ new.lines = {} /\ new.kind = "audit"
    BY NotWritingTyped DEF AWriter
  <2>2. writer' = [writer EXCEPT ![w] = new]
        /\ UNCHANGED <<says, commit, merges, jobs, continuer, landed>>
    BY <1>5, Zenon DEF AuditBegins
  <2> HIDE DEF new
  <2> QED
    BY <1>2, <2>1, <2>2, WriterMovesOn
<1>6. CASE Syncs(w)
  <2>1. CASE /\ writer' = [writer EXCEPT ![w] = NotWriting] /\ UNCHANGED <<says, commit>>
    BY <1>3, <1>6, <2>1 DEF Syncs
  <2>2. CASE /\ says' = [says EXCEPT !.head = says.origin, !.work = says.origin]
             /\ commit' = [commit EXCEPT !.base = commit.origin]
             /\ WriterGoes(w, "read") /\ writer[w].pc = "sync"
    <3> DEFINE new == [writer[w] EXCEPT !.pc = "read"]
    <3>1. /\ new \in AWriter /\ new.lines = writer[w].lines /\ new.kind = writer[w].kind
          /\ new.phase = writer[w].phase
      BY <1>1 DEF AWriter
    <3>2. writer' = [writer EXCEPT ![w] = new]
      BY <2>2, Zenon DEF WriterGoes
    <3>3. /\ says' \in ASays /\ commit' \in ACommit
          /\ says'.work \cup says'.head \cup says'.origin \subseteq Attested
      BY <1>2, <2>2 DEF ASays, ACommit
    <3>4. writer[w].kind = "backfill" => writer[w].phase \in merges
      BY <1>1, <2>2
    <3> HIDE DEF new
    <3> QED
      BY <1>1, <1>6, <3>1, <3>2, <3>3, <3>4, WriterMovesOn DEF Syncs
  <2> QED  BY <1>6, <2>1, <2>2 DEF Syncs
<1>7. CASE ReadsToPatch(w)
  <2>1. CASE writer' = [writer EXCEPT ![w] = NotWriting]
    BY <1>3, <1>7, <2>1 DEF ReadsToPatch
  <2>2. CASE writer' = [writer EXCEPT ![w] =
               [writer[w] EXCEPT !.pc = "write", !.lines = says.work \cup {writer[w].phase}]]
    <3> DEFINE new == [writer[w] EXCEPT !.pc = "write", !.lines = says.work \cup {writer[w].phase}]
    <3>1. /\ new \in AWriter /\ new.lines = says.work \cup {writer[w].phase}
          /\ new.kind = writer[w].kind /\ new.phase = writer[w].phase
      BY <1>1, <1>2 DEF AWriter, ASays
    <3>2. writer[w].phase \in merges /\ merges \subseteq Attested
      BY <1>1, <1>7 DEF ReadsToPatch, Attested
    <3>3. /\ writer' = [writer EXCEPT ![w] = new]
          /\ UNCHANGED <<says, commit, merges, jobs, continuer, landed>>
      BY <1>7, <2>2, Zenon DEF ReadsToPatch
    <3>4. new.lines \subseteq Attested /\ new.phase \in merges
      BY <1>2, <3>1, <3>2
    <3> HIDE DEF new
    <3> QED
      BY <1>2, <3>1, <3>3, <3>4, WriterMovesOn
  <2> QED  BY <1>7, <2>1, <2>2 DEF ReadsToPatch
<1>8. CASE ReadsToRevert(w)
  <2>1. PICK reverted \in SUBSET (says.work \ merges) :
          writer' = [writer EXCEPT ![w] =
              IF reverted = {} THEN NotWriting
              ELSE [writer[w] EXCEPT !.pc = "write", !.lines = says.work \ reverted]]
    BY <1>8 DEF ReadsToRevert
  <2>2. CASE reverted = {}
    BY <1>3, <1>8, <2>1, <2>2 DEF ReadsToRevert
  <2>3. CASE reverted # {}
    <3> DEFINE new == [writer[w] EXCEPT !.pc = "write", !.lines = says.work \ reverted]
    <3>1. /\ new \in AWriter /\ new.lines = says.work \ reverted /\ new.kind = "audit"
      BY <1>1, <1>2, <1>8 DEF AWriter, ASays, ReadsToRevert
    <3>2. writer' = [writer EXCEPT ![w] = new]
      BY <2>1, <2>3, Zenon
    <3> HIDE DEF new
    <3> QED
      BY <1>2, <1>8, <3>1, <3>2, WriterMovesOn DEF ReadsToRevert
  <2> QED  BY <2>2, <2>3
<1>9. CASE WritesPlan(w)
  <2> DEFINE new == [writer[w] EXCEPT !.pc = "commit"]
  <2>1. /\ new \in AWriter /\ new.lines = writer[w].lines /\ new.kind = writer[w].kind
        /\ new.phase = writer[w].phase
    BY <1>1 DEF AWriter
  <2>2. writer' = [writer EXCEPT ![w] = new]
    BY <1>9, Zenon DEF WritesPlan, WriterGoes
  <2>3. /\ says' \in ASays /\ says'.work \cup says'.head \cup says'.origin \subseteq Attested
    BY <1>1, <1>2, <1>9 DEF WritesPlan, ASays, AWriter
  <2> HIDE DEF new
  <2> QED
    BY <1>1, <1>2, <1>9, <2>1, <2>2, <2>3, WriterMovesOn DEF WritesPlan
<1>10. CASE CommitsPlan(w)
  <2>1. CASE /\ writer' = [writer EXCEPT ![w] = NotWriting] /\ UNCHANGED says
    BY <1>3, <1>10, <2>1 DEF CommitsPlan
  <2>2. CASE says' = [says EXCEPT !.head = says.work] /\ WriterGoes(w, "push")
    <3> DEFINE new == [writer[w] EXCEPT !.pc = "push"]
    <3>1. /\ new \in AWriter /\ new.lines = writer[w].lines /\ new.kind = writer[w].kind
          /\ new.phase = writer[w].phase
      BY <1>1 DEF AWriter
    <3>2. writer' = [writer EXCEPT ![w] = new]
      BY <2>2, Zenon DEF WriterGoes
    <3>3. /\ says' \in ASays /\ says'.work \cup says'.head \cup says'.origin \subseteq Attested
      BY <1>2, <2>2 DEF ASays
    <3> HIDE DEF new
    <3> QED
      BY <1>1, <1>2, <1>10, <3>1, <3>2, <3>3, WriterMovesOn DEF CommitsPlan
  <2> QED  BY <1>10, <2>1, <2>2 DEF CommitsPlan
<1>11. CASE PushesPlan(w)
  <2>1. CASE UNCHANGED <<says, commit>>
    BY <1>3, <1>11, <2>1 DEF PushesPlan
  <2>2. CASE /\ commit.origin < MaxOrigin
             /\ says' = [says EXCEPT !.origin = says.head]
             /\ commit' = [origin |-> commit.origin + 1, base |-> commit.origin + 1]
    <3>1. /\ says' \in ASays /\ says'.work \cup says'.head \cup says'.origin \subseteq Attested
      BY <1>2, <2>2 DEF ASays
    <3>2. commit' \in ACommit
      BY <1>2, <2>2, PlanAssumption DEF ACommit
    <3> QED
      BY <1>11, <3>1, <3>2, NotWritingTyped, WriterMovesOn DEF PushesPlan
  <2> QED  BY <1>11, <2>1, <2>2 DEF PushesPlan
<1>12. CASE WriterKilled(w)
  BY <1>3, <1>12 DEF WriterKilled
<1> QED
  BY <1>4, <1>5, <1>6, <1>7, <1>8, <1>9, <1>10, <1>11, <1>12

\* Every step of the plan keeps it.
LEMMA PlanStep == PlanInv /\ [PlanNext]_planvars => PlanInv'
<1> SUFFICES ASSUME PlanInv, [PlanNext]_planvars PROVE PlanInv'
  OBVIOUS
<1>1. CASE SubmitsPhase
  BY <1>1, ContinuerMovesOn DEF SubmitsPhase, PlanInv, PlanTypeOK, AContinuer
<1>2. CASE DropsPhase
  BY <1>2, FirstPhase, ContinuerMovesOn DEF DropsPhase, NotContinuing, AContinuer
<1>3. CASE Cleaned
  BY <1>3 DEF Cleaned, PlanInv, PlanTypeOK, PhasesInOrder, Attested
<1>4. CASE UNCHANGED planvars
  BY <1>4 DEF planvars, PlanInv, PlanTypeOK, PhasesInOrder, Attested
<1> QED
  BY <1>1, <1>2, <1>3, <1>4, ChoosesKeeps, StartsPhaseKeeps, WriterStep, LandsKeeps DEF PlanNext

\* A phase is started when each phase it depends on is merged or reported by a commit on
\* origin, for every plan and every number of writers.
THEOREM PhasesKeepOrder == PlanSpec => []PhasesInOrder
<1>1. PlanInv => PhasesInOrder
  BY DEF PlanInv
<1> QED
  BY PlanInitially, PlanStep, <1>1, PTL DEF PlanSpec

-----------------------------------------------------------------------------
(* DirectiveEngine *)

\* The engine at its work.
AnEngine == [pc : {"look", "mark", "checks", "battery", "submit"}, entry : Entries,
             forced : BOOLEAN]

\* An entry the engine is about to resubmit was never resubmitted, and from the mark on the
\* retry file names it.
RetryInv ==
    /\ engine \in AnEngine /\ again \in [Entries -> Nat] /\ retried \subseteq Entries
    /\ engine.pc = "look" => ~engine.forced
    /\ engine.forced => again[engine.entry] = 0
    /\ engine.forced /\ engine.pc # "mark" => engine.entry \in retried
    /\ RetriedOnce

\* What an engine's record is made of.
LEMMA EngineRecord ==
    ASSUME NEW pc \in {"look", "mark", "checks", "battery", "submit"}, NEW e \in Entries,
           NEW forced \in BOOLEAN
    PROVE  /\ EngineAt(pc, e, forced) \in AnEngine
           /\ EngineAt(pc, e, forced).pc = pc /\ EngineAt(pc, e, forced).entry = e
           /\ EngineAt(pc, e, forced).forced <=> forced
<1>1. EngineAt(pc, e, forced) \in AnEngine
  BY DEF EngineAt, AnEngine
<1>2. EngineAt(pc, e, forced).pc = pc /\ EngineAt(pc, e, forced).entry = e
  BY DEF EngineAt
<1>3. EngineAt(pc, e, forced).forced <=> forced
  BY Zenon DEF EngineAt
<1> QED  BY <1>1, <1>2, <1>3

\* Its places, as records.
LEMMA UnforcedRecord ==
    ASSUME NEW pc \in {"look", "mark", "checks", "battery", "submit"}, NEW e \in Entries
    PROVE  /\ EngineAt(pc, e, FALSE) \in AnEngine
           /\ EngineAt(pc, e, FALSE).pc = pc /\ EngineAt(pc, e, FALSE).entry = e
           /\ ~EngineAt(pc, e, FALSE).forced
<1>1. PICK forced \in BOOLEAN : EngineAt(pc, e, FALSE) = EngineAt(pc, e, forced) /\ ~forced
  BY Zenon
<1>2. /\ EngineAt(pc, e, forced) \in AnEngine
      /\ EngineAt(pc, e, forced).pc = pc /\ EngineAt(pc, e, forced).entry = e
      /\ EngineAt(pc, e, forced).forced <=> forced
  BY EngineRecord
<1> QED  BY <1>1, <1>2, Zenon

LEMMA ForcedRecord ==
    ASSUME NEW pc \in {"look", "mark", "checks", "battery", "submit"}, NEW e \in Entries
    PROVE  /\ EngineAt(pc, e, TRUE) \in AnEngine
           /\ EngineAt(pc, e, TRUE).pc = pc /\ EngineAt(pc, e, TRUE).entry = e
<1>1. PICK forced \in BOOLEAN : EngineAt(pc, e, TRUE) = EngineAt(pc, e, forced)
  BY Zenon
<1>2. /\ EngineAt(pc, e, forced) \in AnEngine
      /\ EngineAt(pc, e, forced).pc = pc /\ EngineAt(pc, e, forced).entry = e
  BY EngineRecord
<1> QED  BY <1>1, <1>2, Zenon

\* An engine that goes to the next entry resubmits nothing.
LEMMA ToNextKeeps ==
    ASSUME NEW e \in Entries, ToNext(e)
    PROVE  engine' \in AnEngine /\ engine'.pc = "look" /\ ~engine'.forced
<1>1. PICK n \in Entries : n = IF e = NumEntries THEN 1 ELSE e + 1
  <2>1. (IF e = NumEntries THEN 1 ELSE e + 1) \in Entries
    BY DirectiveAssumption DEF Entries
  <2> QED  BY <2>1
<1>2. engine' = EngineAt("look", n, FALSE)
  BY <1>1, Zenon DEF ToNext
<1> QED
  BY <1>2, UnforcedRecord

\* An engine that resubmits nothing may be anywhere.
LEMMA UnforcedKeeps ==
    ASSUME RetryInv, engine' \in AnEngine, ~engine'.forced, UNCHANGED <<retried, again>>
    PROVE  RetryInv'
BY DEF RetryInv, RetriedOnce

\* An engine past the mark that goes on with its entry.
LEMMA EngineGoesOn ==
    ASSUME RetryInv, NEW pc \in {"checks", "battery", "submit"},
           engine' = [engine EXCEPT !.pc = pc], engine.pc \notin {"look", "mark"},
           UNCHANGED <<retried, again>>
    PROVE  RetryInv'
<1>1. /\ engine' \in AnEngine /\ engine'.pc = pc /\ engine'.entry = engine.entry
      /\ engine'.forced = engine.forced
  BY DEF RetryInv, AnEngine
<1> QED
  BY <1>1 DEF RetryInv, RetriedOnce

\* Each of the engine's own steps.
LEMMA LookKeeps == ASSUME RetryInv, NEW e \in Entries, Look(e) PROVE RetryInv'
<1>1. UNCHANGED <<retried, again>>
  BY DEF Look
<1>2. CASE ToNext(e)
  BY <1>1, <1>2, ToNextKeeps, UnforcedKeeps
<1>3. CASE engine' = EngineAt("checks", e, FALSE)
  BY <1>1, <1>3, UnforcedRecord, UnforcedKeeps
<1>4. CASE ~Retried(e) /\ engine' = EngineAt("mark", e, TRUE)
  <2>1. engine' \in AnEngine /\ engine'.pc = "mark" /\ engine'.entry = e
    BY <1>4, ForcedRecord
  <2>2. again[e] = 0
    BY <1>4 DEF Retried, RetryInv, RetriedOnce
  <2> QED
    BY <1>1, <2>1, <2>2 DEF RetryInv, RetriedOnce
<1> QED
  BY <1>2, <1>3, <1>4 DEF Look

\* The entry is marked before it is submitted again.
LEMMA MarkRetriedKeeps == ASSUME RetryInv, NEW e \in Entries, MarkRetried(e) PROVE RetryInv'
<1>1. /\ engine.entry = e /\ retried' = retried \cup {e}
      /\ engine' = [engine EXCEPT !.pc = "checks"] /\ UNCHANGED again
  BY DEF MarkRetried
<1>2. /\ engine' \in AnEngine /\ engine'.pc = "checks" /\ engine'.entry = e
      /\ engine'.forced = engine.forced
  BY <1>1 DEF RetryInv, AnEngine
<1> QED
  BY <1>1, <1>2 DEF RetryInv, RetriedOnce

LEMMA SubmitTaskKeeps == ASSUME RetryInv, NEW e \in Entries, SubmitTask(e) PROVE RetryInv'
<1>1. /\ engine.pc = "submit" /\ engine.entry = e /\ UNCHANGED retried
      /\ engine' \in AnEngine /\ engine'.pc = "look" /\ ~engine'.forced
  BY ToNextKeeps DEF SubmitTask
<1>2. CASE again' = again
  BY <1>1, <1>2, UnforcedKeeps
<1>3. CASE again' = [again EXCEPT ![e] = IF engine.forced THEN @ + 1 ELSE @]
  <2>1. CASE engine.forced
    <3>1. again' = [again EXCEPT ![e] = again[e] + 1] /\ again[e] = 0 /\ e \in retried
      BY <1>1, <1>3, <2>1 DEF RetryInv
    <3> QED
      BY <1>1, <3>1 DEF RetryInv, RetriedOnce
  <2>2. CASE ~engine.forced
    <3>1. again' = again
      BY <1>3, <2>2 DEF RetryInv
    <3> QED
      BY <1>1, <3>1, UnforcedKeeps
  <2> QED  BY <2>1, <2>2
<1>4. SubmitRefused(e) => again' = again
  BY DEF SubmitRefused
<1>5. SubmitTaken(e) => again' = [again EXCEPT ![e] = IF engine.forced THEN @ + 1 ELSE @]
  BY DEF SubmitTaken
<1> QED
  BY <1>2, <1>3, <1>4, <1>5 DEF SubmitTask

\* The invariant of the engine is kept.
LEMMA RetryKeeps == DirectiveSpec => []RetryInv
<1>1. DirectiveInit => RetryInv
  <2> SUFFICES ASSUME DirectiveInit PROVE RetryInv
    OBVIOUS
  <2>1. 1 \in Entries
    BY DirectiveAssumption DEF Entries
  <2>2. engine = EngineAt("look", 1, FALSE) /\ retried = {} /\ again = [e \in Entries |-> 0]
    BY DEF DirectiveInit
  <2>3. engine \in AnEngine /\ engine.pc = "look" /\ ~engine.forced
    BY <2>1, <2>2, UnforcedRecord
  <2>4. retried = {} /\ again = [e \in Entries |-> 0]
    BY <2>2
  <2> QED
    BY <2>3, <2>4 DEF RetryInv, RetriedOnce
<1>2. RetryInv /\ [DirectiveNext]_dirvars => RetryInv'
  <2> SUFFICES ASSUME RetryInv, [DirectiveNext]_dirvars PROVE RetryInv'
    OBVIOUS
  <2>1. CASE EngineRestarts
    <3>1. 1 \in Entries
      BY DirectiveAssumption DEF Entries
    <3>2. engine' = EngineAt("look", 1, FALSE) /\ UNCHANGED <<retried, again>>
      BY <2>1 DEF EngineRestarts
    <3> QED
      BY <3>1, <3>2, UnforcedRecord, UnforcedKeeps
  <2>2. ASSUME NEW e \in Entries, Checks(e) PROVE RetryInv'
    <3>1. CASE ToNext(e)
      BY <2>2, <3>1, ToNextKeeps, UnforcedKeeps DEF Checks
    <3>2. CASE engine' = [engine EXCEPT !.pc = "battery"]
      BY <2>2, <3>2, EngineGoesOn DEF Checks
    <3> QED  BY <2>2, <3>1, <3>2 DEF Checks
  <2>3. ASSUME NEW e \in Entries, Battery(e) PROVE RetryInv'
    <3>1. CASE ToNext(e)
      BY <2>3, <3>1, ToNextKeeps, UnforcedKeeps DEF Battery
    <3>2. CASE engine' = [engine EXCEPT !.pc = "submit"]
      BY <2>3, <3>2, EngineGoesOn DEF Battery
    <3> QED  BY <2>3, <3>1, <3>2 DEF Battery
  <2>4. ASSUME UNCHANGED <<engine, retried, again>> PROVE RetryInv'
    BY <2>4 DEF RetryInv, RetriedOnce
  <2>5. ASSUME NEW e \in Entries, TryEnds(e) \/ Requeued(e) \/ TwinTurns(e) PROVE RetryInv'
    BY <2>4, <2>5 DEF TryEnds, Requeued, TwinTurns
  <2>6. CASE UNCHANGED dirvars
    BY <2>4, <2>6 DEF dirvars
  <2> QED
    BY <2>1, <2>2, <2>3, <2>5, <2>6, LookKeeps, MarkRetriedKeeps, SubmitTaskKeeps
    DEF DirectiveNext
<1> QED
  BY <1>1, <1>2, PTL DEF DirectiveSpec

\* The governor takes one resubmission of an entry at the most, for every number of entries,
\* restarts and writes by others.
THEOREM RetriesOnce == DirectiveSpec => []RetriedOnce
BY RetryKeeps, PTL DEF RetryInv

-----------------------------------------------------------------------------
(* Remediation *)

\* The parts of the state: the request, the tick, a check, a verdict.
APr == [open : BOOLEAN, head : Heads, pushed : Times, merge : {"CLEAN", "DIRTY", "BLOCKED"}]
ARemedy == [pc : {"idle", "comments", "commits", "checks", "rerun", "blocked", "merge"},
            head : Heads, failedAt : Times]
ACheck == [is : {"none", "running", "FAILURE", "SUCCESS"}, started : Times]
AVerdict == [is : {"none", "PASS", "FAIL"}, at : Times]

RemedyTyped ==
    /\ now \in Times /\ pr \in APr /\ verdict \in AVerdict /\ ci \in [Heads -> ACheck]
    /\ mergeFailed \in BOOLEAN /\ remedy \in ARemedy /\ reruns \in [Heads -> Nat]

\* What has happened is not later than the clock, and the head's check started with it or
\* after it.
ClockAhead ==
    /\ verdict.at <= now
    /\ \A h \in Heads : ci[h].started <= now
    /\ ci[pr.head].started >= pr.pushed

\* A run the tick started is later than the verdict, of which it then is not ahead any more.
RerunIsLater == \A h \in Heads : reruns[h] > 0 => ci[h].started > verdict.at

\* The tick's head is the request's, or was overtaken by a push after the verdict, or was not
\* run again; what it decided to run again was not.
RemedyHolds ==
    /\ remedy.pc \in {"commits", "checks", "rerun"} => remedy.failedAt <= verdict.at
    /\ remedy.pc \in {"comments", "commits", "checks"} =>
          remedy.head = pr.head \/ reruns[remedy.head] = 0 \/ pr.pushed > verdict.at
    /\ remedy.pc = "rerun" => reruns[remedy.head] = 0

RemedyInv == RemedyTyped /\ ClockAhead /\ RerunIsLater /\ RemedyHolds /\ RerunOncePerVerdict

LEMMA HeadsAndTimes ==
    /\ Heads \subseteq Nat /\ 1 \in Heads
    /\ Times \subseteq Nat /\ 0 \in Times
    /\ \A t \in Times : t < MaxTime => t + 1 \in Times
    /\ \A t \in Times : t + RaceGap < MaxTime => t + RaceGap + 1 \in Times
    /\ \A h \in Heads : h < MaxHeads => h + 1 \in Heads
    /\ RaceGap \in Nat
BY RemediationAssumption DEF Heads, Times

LEMMA NoRemedyTyped == NoRemedy \in ARemedy /\ NoRemedy.pc = "idle"
BY HeadsAndTimes DEF NoRemedy, ARemedy

\* The numbers of a state.
LEMMA RemedyNumbers ==
    ASSUME RemedyTyped
    PROVE  /\ {now, verdict.at, remedy.failedAt, pr.pushed} \subseteq Nat
           /\ pr.head \in Heads /\ remedy.head \in Heads
           /\ \A h \in Heads : ci[h].started \in Nat /\ reruns[h] \in Nat
BY HeadsAndTimes DEF RemedyTyped, APr, ARemedy, ACheck, AVerdict

LEMMA RemedyInitially == RemediationInit => RemedyInv
<1> SUFFICES ASSUME RemediationInit PROVE RemedyInv
  OBVIOUS
<1>1. pr \in APr /\ pr.head = 1 /\ pr.pushed = 0
  <2>1. PICK open \in BOOLEAN : pr = [open |-> open, head |-> 1, pushed |-> 0, merge |-> "CLEAN"]
    BY Zenon DEF RemediationInit
  <2> QED  BY <2>1, HeadsAndTimes DEF APr
<1>2. /\ verdict \in AVerdict /\ verdict.at = 0 /\ now = 0 /\ now \in Times
      /\ ci \in [Heads -> ACheck] /\ \A h \in Heads : ci[h].started = 0
      /\ reruns = [h \in Heads |-> 0] /\ mergeFailed \in BOOLEAN
      /\ remedy \in ARemedy /\ remedy.pc = "idle"
  BY HeadsAndTimes, NoRemedyTyped DEF RemediationInit, AVerdict, ACheck
<1> QED
  BY <1>1, <1>2, HeadsAndTimes
  DEF RemedyInv, RemedyTyped, ClockAhead, RerunIsLater, RemedyHolds, RerunOncePerVerdict

\* The tick's own reading changes nothing but where it is.
LEMMA RemedyReads ==
    ASSUME RemedyInv, UNCHANGED world, remedy' \in ARemedy, RemedyHolds'
    PROVE  RemedyInv'
BY DEF RemedyInv, RemedyTyped, ClockAhead, RerunIsLater, RerunOncePerVerdict, world

\* A tick that has nothing to run again goes on to the blocked task or to its end.
LEMMA RemedyGoesOn ==
    ASSUME RemedyInv, NEW pc \in {"idle", "blocked", "merge"}, RemedyAt(pc)
    PROVE  remedy' \in ARemedy /\ RemedyHolds'
BY NoRemedyTyped DEF RemedyAt, RemedyHolds, ARemedy

\* The tick's questions, one after the other.
LEMMA ListsPrsKeeps == RemedyInv /\ ListsPrs => RemedyInv'
<1> SUFFICES ASSUME RemedyInv, ListsPrs PROVE RemedyInv'
  OBVIOUS
<1>1. CASE remedy' = [NoRemedy EXCEPT !.pc = "comments", !.head = pr.head]
  <2>1. pr.head \in Heads
    BY DEF RemedyInv, RemedyTyped, APr
  <2>2. remedy' \in ARemedy /\ remedy'.pc = "comments" /\ remedy'.head = pr.head
    BY <1>1, <2>1, NoRemedyTyped DEF ARemedy
  <2>3. UNCHANGED world
    BY DEF ListsPrs
  <2> QED
    BY <2>2, <2>3, RemedyReads DEF RemedyHolds, world
<1> QED
  BY <1>1, RemedyGoesOn, RemedyReads DEF ListsPrs, LeavesToOthers

LEMMA ReadsCommentsKeeps == RemedyInv /\ ReadsComments => RemedyInv'
<1> SUFFICES ASSUME RemedyInv, ReadsComments PROVE RemedyInv'
  OBVIOUS
<1>1. CASE remedy' = [remedy EXCEPT !.pc = "commits", !.failedAt = verdict.at]
  <2>1. verdict.at \in Times /\ remedy \in ARemedy /\ UNCHANGED world /\ remedy.pc = "comments"
    BY DEF ReadsComments, RemedyInv, RemedyTyped, AVerdict
  <2>2. /\ remedy' \in ARemedy /\ remedy'.pc = "commits" /\ remedy'.head = remedy.head
        /\ remedy'.failedAt = verdict.at
    BY <1>1, <2>1 DEF ARemedy
  <2>3. verdict.at \in Nat /\ UNCHANGED <<verdict, pr, reruns>>
    BY <2>1, RemedyNumbers DEF RemedyInv, world
  <2>4. RemedyHolds'
    BY <2>1, <2>2, <2>3 DEF RemedyInv, RemedyHolds
  <2> QED
    BY <2>1, <2>2, <2>4, RemedyReads
<1> QED
  BY <1>1, RemedyGoesOn, RemedyReads DEF ReadsComments, LeavesToOthers

LEMMA ReadsCommitsKeeps == RemedyInv /\ ReadsCommits => RemedyInv'
<1> SUFFICES ASSUME RemedyInv, ReadsCommits PROVE RemedyInv'
  OBVIOUS
<1>1. CASE RemedyGoes("checks")
  <2>1. remedy \in ARemedy /\ UNCHANGED world /\ remedy.pc = "commits"
    BY DEF ReadsCommits, RemedyInv, RemedyTyped
  <2>2. /\ remedy' \in ARemedy /\ remedy'.pc = "checks" /\ remedy'.head = remedy.head
        /\ remedy'.failedAt = remedy.failedAt
    BY <1>1, <2>1 DEF RemedyGoes, ARemedy
  <2> QED
    BY <2>1, <2>2, RemedyReads DEF RemedyInv, RemedyHolds, world
<1> QED
  BY <1>1, RemedyGoesOn, RemedyReads DEF ReadsCommits, LeavesToOthers

LEMMA ReadsChecksKeeps == RemedyInv /\ ReadsChecks => RemedyInv'
<1> SUFFICES ASSUME RemedyInv, ReadsChecks PROVE RemedyInv'
  OBVIOUS
<1>1. CASE /\ RanAhead(ci[pr.head].started, remedy.failedAt)
           /\ RemedyGoes("rerun")
  <2>1. remedy \in ARemedy /\ UNCHANGED world /\ remedy.pc = "checks" /\ pr.head \in Heads
        /\ pr.pushed \in Nat /\ remedy.head \in Heads
    BY HeadsAndTimes DEF ReadsChecks, LeavesToOthers, RemedyInv, RemedyTyped, APr, ARemedy
  <2>2. /\ remedy' \in ARemedy /\ remedy'.pc = "rerun" /\ remedy'.head = remedy.head
        /\ remedy'.failedAt = remedy.failedAt
    BY <1>1, <2>1 DEF RemedyGoes, ARemedy
  <2>3. ci[pr.head].started <= remedy.failedAt /\ remedy.failedAt <= verdict.at
    <3>1. ci[pr.head].started \in Nat /\ remedy.failedAt \in Nat
      BY <2>1, HeadsAndTimes DEF RemedyInv, RemedyTyped, ACheck, ARemedy
    <3> QED
      BY <1>1, <2>1, <3>1, HeadsAndTimes DEF RanAhead, RemedyInv, RemedyHolds
  <2>4. ci[pr.head].started <= verdict.at /\ ci[pr.head].started \in Nat /\ verdict.at \in Nat
    <3>1. ci[pr.head].started \in Nat /\ verdict.at \in Nat /\ remedy.failedAt \in Nat
      BY RemedyNumbers DEF RemedyInv
    <3> QED  BY <2>3, <3>1
  <2>5. reruns[pr.head] = 0
    BY <2>1, <2>4 DEF RemedyInv, RerunIsLater, RemedyTyped
  <2>6. ~(pr.pushed > verdict.at)
    BY <2>1, <2>4 DEF RemedyInv, ClockAhead
  <2> QED
    BY <2>1, <2>2, <2>3, <2>5, <2>6, RemedyReads DEF RemedyInv, RemedyHolds, world
<1> QED
  BY <1>1, RemedyGoesOn, RemedyReads DEF ReadsChecks, LeavesToOthers

\* The check is run again: it starts later than the verdict.
LEMMA RerunsCheckKeeps == RemedyInv /\ RerunsCheck => RemedyInv'
<1> SUFFICES ASSUME RemedyInv, RerunsCheck PROVE RemedyInv'
  OBVIOUS
<1>1. /\ RemedyAt("blocked") /\ UNCHANGED <<pr, verdict, mergeFailed>> /\ remedy.pc = "rerun"
      /\ remedy.head \in Heads
  BY DEF RerunsCheck, RemedyInv, RemedyTyped, ARemedy
<1>2. remedy' \in ARemedy /\ RemedyHolds'
  BY <1>1, RemedyGoesOn
<1>3. CASE /\ now < MaxTime /\ now' = now + 1
           /\ ci' = [ci EXCEPT ![remedy.head] = [is |-> "running", started |-> now + 1]]
           /\ reruns' = [reruns EXCEPT ![remedy.head] = @ + 1]
  <2>1. now \in Nat /\ now' \in Times /\ verdict.at \in Nat
        /\ \A h \in Heads : ci[h].started \in Nat
    BY <1>3, HeadsAndTimes DEF RemedyInv, RemedyTyped, AVerdict, ACheck
  <2>2. [is |-> "running", started |-> now + 1] \in ACheck
    BY <1>3, <2>1 DEF ACheck
  <2>3. ci' \in [Heads -> ACheck]
        /\ \A h \in Heads : ci'[h].started = IF h = remedy.head THEN now + 1 ELSE ci[h].started
    BY <1>3, <2>2 DEF RemedyInv, RemedyTyped
  <2>4. reruns' \in [Heads -> Nat] /\ reruns'[remedy.head] = 1
        /\ \A h \in Heads : h # remedy.head => reruns'[h] = reruns[h]
    BY <1>1, <1>3 DEF RemedyInv, RemedyTyped, RemedyHolds
  <2>5. RemedyTyped'
    BY <1>1, <1>2, <1>3, <2>1, <2>3, <2>4 DEF RemedyInv, RemedyTyped
  <2>6. ClockAhead'
    <3>1. pr.head \in Heads /\ pr.pushed \in Nat /\ ci[pr.head].started <= now
      BY HeadsAndTimes DEF RemedyInv, RemedyTyped, APr, ClockAhead
    <3> QED
      BY <1>1, <1>3, <2>1, <2>3, <3>1 DEF RemedyInv, ClockAhead
  <2>7. RerunIsLater' /\ RerunOncePerVerdict'
    BY <1>1, <2>1, <2>3, <2>4 DEF RemedyInv, RerunIsLater, RerunOncePerVerdict, ClockAhead
  <2> QED
    BY <1>2, <2>5, <2>6, <2>7 DEF RemedyInv
<1>4. CASE UNCHANGED <<now, ci, reruns>>
  BY <1>1, <1>2, <1>4, RemedyReads DEF world
<1> QED
  BY <1>3, <1>4 DEF RerunsCheck

LEMMA RetriesMergeKeeps == RemedyInv /\ RetriesMerge => RemedyInv'
<1> SUFFICES ASSUME RemedyInv, RetriesMerge PROVE RemedyInv'
  OBVIOUS
<1>1. RemedyAt("idle") /\ UNCHANGED <<now, verdict, ci, mergeFailed, reruns>>
  BY DEF RetriesMerge
<1>2. pr' \in APr /\ pr'.head = pr.head /\ pr'.pushed = pr.pushed
  <2>1. pr \in APr
    BY DEF RemedyInv, RemedyTyped
  <2>2. PICK open \in BOOLEAN : pr' = pr \/ pr' = [pr EXCEPT !.open = open]
    BY Zenon DEF RetriesMerge
  <2> QED  BY <2>1, <2>2 DEF APr
<1>3. remedy' \in ARemedy /\ remedy'.pc = "idle"
  BY <1>1, NoRemedyTyped DEF RemedyAt, ARemedy
<1> QED
  BY <1>1, <1>2, <1>3
  DEF RemedyInv, RemedyTyped, ClockAhead, RerunIsLater, RemedyHolds, RerunOncePerVerdict

\* Pushes, verdicts and checks of others.
LEMMA PushedKeeps == RemedyInv /\ Pushed => RemedyInv'
<1> SUFFICES ASSUME RemedyInv, Pushed PROVE RemedyInv'
  OBVIOUS
<1> DEFINE next == pr.head + 1
<1>1. /\ now < MaxTime /\ pr.head < MaxHeads /\ now' = now + 1
      /\ pr' = [pr EXCEPT !.head = next, !.pushed = now + 1]
      /\ ci' = [ci EXCEPT ![next] = [is |-> "running", started |-> now + 1]]
      /\ UNCHANGED <<verdict, mergeFailed, remedy, reruns>>
  BY DEF Pushed
<1>2. /\ now \in Nat /\ now' \in Times /\ next \in Heads /\ verdict.at \in Nat
      /\ \A h \in Heads : ci[h].started \in Nat
  BY <1>1, HeadsAndTimes DEF RemedyInv, RemedyTyped, AVerdict, ACheck, APr
<1> HIDE DEF next
<1>3. pr' \in APr /\ pr'.head = next /\ pr'.pushed = now + 1
  BY <1>1, <1>2 DEF RemedyInv, RemedyTyped, APr
<1>4. [is |-> "running", started |-> now + 1] \in ACheck
  BY <1>1, <1>2 DEF ACheck
<1>5. /\ ci' \in [Heads -> ACheck]
      /\ \A h \in Heads : ci'[h].started = IF h = next THEN now + 1 ELSE ci[h].started
  BY <1>1, <1>2, <1>4 DEF RemedyInv, RemedyTyped
<1>6. RemedyTyped'
  BY <1>1, <1>2, <1>3, <1>5 DEF RemedyInv, RemedyTyped
<1>7. ClockAhead'
  BY <1>1, <1>2, <1>3, <1>5 DEF RemedyInv, ClockAhead
<1>8. RerunIsLater'
  BY <1>1, <1>2, <1>5 DEF RemedyInv, RerunIsLater, ClockAhead
<1>9. RemedyHolds'
  BY <1>1, <1>2, <1>3 DEF RemedyInv, RemedyHolds, ClockAhead
<1> QED
  BY <1>1, <1>6, <1>7, <1>8, <1>9 DEF RemedyInv, RerunOncePerVerdict

LEMMA JudgedKeeps == RemedyInv /\ Judged => RemedyInv'
<1> SUFFICES ASSUME RemedyInv, Judged PROVE RemedyInv'
  OBVIOUS
<1>1. PICK is \in {"PASS", "FAIL"} : verdict' = [is |-> is, at |-> now + 1]
  BY DEF Judged
<1>2. /\ now < MaxTime /\ now' = now + 1 /\ reruns' = [h \in Heads |-> 0]
      /\ UNCHANGED <<pr, ci, mergeFailed, remedy>>
  BY DEF Judged
<1>3. now \in Nat /\ now' \in Times /\ verdict.at \in Nat /\ remedy.failedAt \in Nat
      /\ \A h \in Heads : ci[h].started \in Nat
  BY <1>2, HeadsAndTimes DEF RemedyInv, RemedyTyped, AVerdict, ACheck, ARemedy
<1>4. verdict' \in AVerdict /\ verdict'.at = now + 1
  BY <1>1, <1>2, <1>3 DEF AVerdict
<1>5. remedy.head \in Heads
  BY DEF RemedyInv, RemedyTyped, ARemedy
<1>6. RemedyTyped'
  BY <1>2, <1>3, <1>4 DEF RemedyInv, RemedyTyped
<1>7. ClockAhead' /\ RerunIsLater' /\ RemedyHolds' /\ RerunOncePerVerdict'
  BY <1>2, <1>3, <1>4, <1>5
  DEF RemedyInv, ClockAhead, RerunIsLater, RemedyHolds, RerunOncePerVerdict
<1> QED
  BY <1>6, <1>7 DEF RemedyInv

LEMMA CheckEndsKeeps == RemedyInv /\ CheckEnds => RemedyInv'
<1> SUFFICES ASSUME RemedyInv, CheckEnds PROVE RemedyInv'
  OBVIOUS
<1>1. PICK h \in Heads, is \in {"SUCCESS", "FAILURE"} : ci' = [ci EXCEPT ![h].is = is]
  BY DEF CheckEnds
<1>2. /\ ci' \in [Heads -> ACheck]
      /\ \A g \in Heads : ci'[g].started = ci[g].started
  BY <1>1 DEF RemedyInv, RemedyTyped, ACheck
<1>3. UNCHANGED <<now, pr, verdict, mergeFailed, remedy, reruns>>
  BY DEF CheckEnds
<1>4. pr.head \in Heads
  BY DEF RemedyInv, RemedyTyped, APr
<1> QED
  BY <1>2, <1>3, <1>4
  DEF RemedyInv, RemedyTyped, ClockAhead, RerunIsLater, RemedyHolds, RerunOncePerVerdict

LEMMA ElsewhereKeeps == RemedyInv /\ ElsewhereMoves => RemedyInv'
<1> SUFFICES ASSUME RemedyInv, ElsewhereMoves PROVE RemedyInv'
  OBVIOUS
<1>1. UNCHANGED <<verdict, ci, remedy, reruns>>
  BY DEF ElsewhereMoves
<1>2. mergeFailed' \in BOOLEAN
  BY DEF ElsewhereMoves, RemedyInv, RemedyTyped
<1>3. pr' \in APr /\ pr'.head = pr.head /\ pr'.pushed = pr.pushed
  <2>1. pr \in APr
    BY DEF RemedyInv, RemedyTyped
  <2>2. pr' = pr \/ \E m \in {"CLEAN", "DIRTY", "BLOCKED"} : pr' = [pr EXCEPT !.merge = m]
    BY DEF ElsewhereMoves
  <2> QED  BY <2>1, <2>2 DEF APr
<1>4. now' \in Times /\ now <= now' /\ now \in Nat
  BY HeadsAndTimes DEF ElsewhereMoves, RemedyInv, RemedyTyped
<1>5. verdict.at \in Nat /\ \A h \in Heads : ci[h].started \in Nat
  BY HeadsAndTimes DEF RemedyInv, RemedyTyped, AVerdict, ACheck
<1>6. ClockAhead'
  <2>1. now' \in Nat /\ pr.head \in Heads
    BY <1>4, HeadsAndTimes, RemedyNumbers DEF RemedyInv
  <2>2. verdict.at <= now' /\ \A h \in Heads : ci[h].started <= now'
    BY <1>4, <1>5, <2>1 DEF RemedyInv, ClockAhead
  <2> QED
    BY <1>1, <1>3, <2>1, <2>2 DEF RemedyInv, ClockAhead
<1> QED
  BY <1>1, <1>2, <1>3, <1>4, <1>6
  DEF RemedyInv, RemedyTyped, RerunIsLater, RemedyHolds, RerunOncePerVerdict

\* The invariant of the remedy is kept.
LEMMA RemedyKeeps == RemediationSpec => []RemedyInv
<1>1. RemedyInv /\ [RemediationNext]_remvars => RemedyInv'
  <2> SUFFICES ASSUME RemedyInv, [RemediationNext]_remvars PROVE RemedyInv'
    OBVIOUS
  <2>1. CASE ReadsBlocked
    BY <2>1, RemedyGoesOn, RemedyReads DEF ReadsBlocked, TaskListed, ConflictNow
  <2>2. CASE RemedyKilled
    BY <2>2, RemedyGoesOn, RemedyReads DEF RemedyKilled
  <2>3. CASE UNCHANGED remvars
    BY <2>3 DEF remvars, RemedyInv, RemedyTyped, ClockAhead, RerunIsLater, RemedyHolds,
                RerunOncePerVerdict
  <2> QED
    BY <2>1, <2>2, <2>3, ListsPrsKeeps, ReadsCommentsKeeps, ReadsCommitsKeeps, ReadsChecksKeeps,
       RerunsCheckKeeps, RetriesMergeKeeps, PushedKeeps, JudgedKeeps, CheckEndsKeeps,
       ElsewhereKeeps
    DEF RemediationNext
<1> QED
  BY RemedyInitially, <1>1, PTL DEF RemediationSpec

\* The tick runs the failed check of a head once per verdict, for every number of pushes and
\* whatever happens between its calls.
THEOREM RerunOnce == RemediationSpec => []RerunOncePerVerdict
BY RemedyKeeps, PTL DEF RemedyInv

-----------------------------------------------------------------------------
(* Types *)

\* The watchdog keeps its types: notes are counted as often as a loop needs, and it asks for
\* tasks it watches.
LEMMA WatchdogTyped == WatchdogSpec => []WatchdogTypeOK
<1> DEFINE Asked == /\ recalled \subseteq Notes /\ fixes \in [Notes -> Nat]
                    /\ askedFor \subseteq Watched \X Kinds
<1>1. WatchdogInit => Asked
  BY DEF WatchdogInit
<1>2. DogInv /\ Asked /\ [WatchdogNext]_dogvars => Asked'
  <2> SUFFICES ASSUME DogInv, Asked, [WatchdogNext]_dogvars PROVE Asked'
    OBVIOUS
  <2>1. recalled' \subseteq Notes
    <3>1. UNCHANGED recalled \/ \E n \in Notes : Recalls(n)
      BY Zenon DEF WatchdogNext, dogvars, Lists, LooksUp, FixSubmitted, LogsFix, Rechecks, Escalates,
         PassEnds, FallsSilent, WatchedEnds, Restarts, Evaluates, Checkpoints, CauseFound
    <3> QED  BY <3>1 DEF Recalls
  <2>2. fixes' \in [Notes -> Nat]
    <3>1. \/ UNCHANGED fixes \/ LogsFix
          \/ \E t \in Watched, logged \in SUBSET (Notes \ {Periodic}) : CauseFound(t, logged)
      BY Zenon DEF WatchdogNext, dogvars, Lists, LooksUp, FixSubmitted, Rechecks, Escalates,
         PassEnds, FallsSilent, WatchedEnds, Restarts, Evaluates, Checkpoints, Recalls
    <3>2. CASE LogsFix
      <4>1. PICK n : fixes' = [fixes EXCEPT ![n] = IF @ < 2 THEN @ + 1 ELSE @]
        BY <3>2 DEF LogsFix
      <4> DEFINE v == IF fixes[n] < 2 THEN fixes[n] + 1 ELSE fixes[n]
      <4>2. fixes' = [fixes EXCEPT ![n] = v]
        BY <4>1
      <4>3. n \in Notes => v \in Nat
        OBVIOUS
      <4> HIDE DEF v
      <4> QED  BY <4>2, <4>3
    <3>3. ASSUME NEW t \in Watched, NEW logged \in SUBSET (Notes \ {Periodic}), CauseFound(t, logged)
          PROVE  fixes' \in [Notes -> Nat]
      BY <3>3 DEF CauseFound
    <3> QED  BY <3>1, <3>2, <3>3
  <2>3. askedFor' \subseteq Watched \X Kinds
    <3>1. \/ UNCHANGED askedFor \/ askedFor' \subseteq askedFor
          \/ FixSubmitted \/ Escalates
      BY Zenon DEF WatchdogNext, dogvars, Lists, LooksUp, LogsFix, Rechecks, Restarts, CauseFound,
         PassEnds, FallsSilent, WatchedEnds, Evaluates, Checkpoints, Recalls
    <3>2. dog.at \in {"fixing", "escalating"} => dog.task \in Watched
      BY DEF DogInv, AtAiling
    <3>3. CASE FixSubmitted
      BY <3>2, <3>3 DEF FixSubmitted, AsksGovernor, Kinds
    <3>4. CASE Escalates
      BY <3>2, <3>4 DEF Escalates, AsksGovernor, Kinds
    <3> QED  BY <3>1, <3>3, <3>4
  <2> QED  BY <2>1, <2>2, <2>3
<1>3. DogInv /\ Asked => WatchdogTypeOK
  BY DEF DogInv, DogTyped, AWork, WatchdogTypeOK
<1> HIDE DEF Asked
<1>4. WatchdogSpec => []DogInv
  BY DogInit, DogNext, PTL DEF WatchdogSpec
<1> QED  BY <1>1, <1>2, <1>3, <1>4, PTL DEF WatchdogSpec

\* The gate's record of the task keeps its types.
LEMMA GatekeepTyped == GatekeepSpec => []GatekeepTypeOK
<1>1. JudgeInv => GatekeepTypeOK
  BY DEF JudgeInv, RunTyped, ChangedIsOwn, ARun, APoint, GatekeepTypeOK
<1> QED  BY <1>1, JudgeInit, JudgeNext, PTL DEF GatekeepSpec

\* The remedy's record of the request keeps its types.
LEMMA RemediationTyped == RemediationSpec => []RemediationTypeOK
<1>1. RemedyInv => RemediationTypeOK
  BY Zenon DEF RemedyInv, RemedyTyped, APr, ARemedy, ACheck, AVerdict, RemediationTypeOK
<1> QED  BY <1>1, RemedyKeeps, PTL

\* Of each entry there are rows of the register, and no more than the engine and others made.
TriesBounded ==
    /\ tries \in [Entries -> Seq(TryStatuses)]
    /\ \A e \in Entries : Len(tries[e]) <= MaxTries
    /\ twin \subseteq Entries /\ review \subseteq Entries
    /\ meddlings \in 0 .. MaxMeddlings

\* The engine keeps its types: its rows are within the bound, and what it lists are entries.
LEMMA DirectiveTyped == DirectiveSpec => []DirectiveTypeOK
<1> USE DirectiveAssumption
<1>1. DirectiveInit => TriesBounded
  BY DEF DirectiveInit, TriesBounded
<1>2. RetryInv /\ TriesBounded => DirectiveTypeOK
  <2> SUFFICES ASSUME RetryInv, TriesBounded PROVE DirectiveTypeOK
    OBVIOUS
  <2>1. \A e \in Entries : Len(tries[e]) \in 0 .. MaxTries
                           /\ \A k \in DOMAIN tries[e] : tries[e][k] \in TryStatuses
    <3> SUFFICES ASSUME NEW e \in Entries
                 PROVE  Len(tries[e]) \in 0 .. MaxTries
                        /\ \A k \in DOMAIN tries[e] : tries[e][k] \in TryStatuses
      OBVIOUS
    <3>1. tries[e] \in Seq(TryStatuses) /\ Len(tries[e]) <= MaxTries
      BY DEF TriesBounded
    <3> QED  BY <3>1
  <2> QED  BY <2>1, Zenon DEF RetryInv, TriesBounded, AnEngine, DirectiveTypeOK
<1>3. TriesBounded /\ [DirectiveNext]_dirvars => TriesBounded'
  <2> SUFFICES ASSUME TriesBounded, [DirectiveNext]_dirvars PROVE TriesBounded'
    OBVIOUS
  <2>1. twin' \subseteq Entries
    <3>1. UNCHANGED twin \/ \E e \in Entries : TwinTurns(e)
      BY Zenon DEF DirectiveNext, dirvars, EngineRestarts, Look, MarkRetried, Checks, Battery,
         SubmitTask, TryEnds, Requeued
    <3> QED  BY <3>1 DEF TwinTurns, TriesBounded
  <2>2. review' \subseteq Entries
    <3>1. UNCHANGED review \/ \E e \in Entries : review' = review \cup {e}
      BY Zenon DEF DirectiveNext, dirvars, EngineRestarts, Look, MarkRetried, Checks, Battery,
         SubmitTask, SubmitRefused, SubmitTaken, Flags, TryEnds, Requeued, TwinTurns
    <3> QED  BY <3>1 DEF TriesBounded
  <2>3. meddlings' \in 0 .. MaxMeddlings
    <3>1. UNCHANGED meddlings \/ EngineRestarts \/ \E e \in Entries : Requeued(e)
      BY Zenon DEF DirectiveNext, dirvars, Look, MarkRetried, Checks, Battery, SubmitTask, TryEnds,
         TwinTurns
    <3>2. UNCHANGED meddlings \/ (meddlings < MaxMeddlings /\ meddlings' = meddlings + 1)
      BY <3>1, Zenon DEF EngineRestarts, Requeued
    <3> QED  BY <3>2 DEF TriesBounded
  <2>4. ASSUME NEW e \in Entries, NEW q \in Seq(TryStatuses), Len(q) <= MaxTries,
               tries' = [tries EXCEPT ![e] = q]
        PROVE  tries' \in [Entries -> Seq(TryStatuses)] /\ \A d \in Entries : Len(tries'[d]) <= MaxTries
    BY <2>4 DEF TriesBounded
  <2>5. ASSUME NEW e \in Entries, NEW s \in TryStatuses, Len(tries[e]) < MaxTries,
               tries' = [tries EXCEPT ![e] = Append(@, s)]
        PROVE  tries' \in [Entries -> Seq(TryStatuses)] /\ \A d \in Entries : Len(tries'[d]) <= MaxTries
    <3>1. tries[e] \in Seq(TryStatuses)
      BY DEF TriesBounded
    <3>2. Append(tries[e], s) \in Seq(TryStatuses) /\ Len(Append(tries[e], s)) <= MaxTries
      BY <2>5, <3>1
    <3>3. tries' = [tries EXCEPT ![e] = Append(tries[e], s)]
      BY <2>5
    <3> QED  BY <2>4, <3>2, <3>3
  <2>6. ASSUME NEW e \in Entries, NEW k \in DOMAIN tries[e], NEW s \in TryStatuses,
               tries' = [tries EXCEPT ![e][k] = s]
        PROVE  tries' \in [Entries -> Seq(TryStatuses)] /\ \A d \in Entries : Len(tries'[d]) <= MaxTries
    <3>1. tries[e] \in Seq(TryStatuses) /\ Len(tries[e]) <= MaxTries
      BY DEF TriesBounded
    <3> DEFINE q == [tries[e] EXCEPT ![k] = s]
    <3>2. q \in Seq(TryStatuses) /\ Len(q) = Len(tries[e])
      BY <3>1
    <3>3. tries' = [tries EXCEPT ![e] = q]
      BY <2>6
    <3> QED  BY <2>4, <3>1, <3>2, <3>3
  <2>7. ASSUME NEW e \in Entries, tries[e] # <<>> PROVE Len(tries[e]) \in DOMAIN tries[e]
    <3>1. tries[e] \in Seq(TryStatuses)
      BY DEF TriesBounded
    <3> QED  BY <2>7, <3>1
  <2>8. \/ UNCHANGED tries
        \/ \E e \in Entries : SubmitTask(e) \/ TryEnds(e) \/ Requeued(e)
    BY Zenon DEF DirectiveNext, dirvars, EngineRestarts, Look, MarkRetried, Checks, Battery, TwinTurns
  <2>9. {"live", "completed", "completed_unmerged", "failed", "rejected_duplicate"} \subseteq TryStatuses
    BY DEF TryStatuses, Failures
  <2>10. tries' \in [Entries -> Seq(TryStatuses)] /\ \A d \in Entries : Len(tries'[d]) <= MaxTries
    <3>1. ASSUME NEW e \in Entries, SubmitTask(e)
          PROVE  tries' \in [Entries -> Seq(TryStatuses)] /\ \A d \in Entries : Len(tries'[d]) <= MaxTries
      <4>1. CASE SubmitRefused(e)
        <5>1. \/ tries' = tries
              \/ Len(tries[e]) < MaxTries /\ tries' = [tries EXCEPT ![e] = Append(@, "rejected_duplicate")]
          BY <4>1 DEF SubmitRefused
        <5> QED  BY <2>5, <2>9, <5>1 DEF TriesBounded
      <4>2. CASE SubmitTaken(e)
        <5>1. \/ Len(tries[e]) < MaxTries /\ tries' = [tries EXCEPT ![e] = Append(@, "live")]
              \/ tries[e] # <<>> /\ tries' = [tries EXCEPT ![e][Len(tries[e])] = "live"]
          BY <4>2, Zenon DEF SubmitTaken
        <5> QED  BY <2>5, <2>6, <2>7, <2>9, <5>1
      <4> QED  BY <3>1, <4>1, <4>2 DEF SubmitTask
    <3>2. ASSUME NEW e \in Entries, TryEnds(e)
          PROVE  tries' \in [Entries -> Seq(TryStatuses)] /\ \A d \in Entries : Len(tries'[d]) <= MaxTries
      BY <2>6, <2>9, <3>2 DEF TryEnds
    <3>3. ASSUME NEW e \in Entries, Requeued(e)
          PROVE  tries' \in [Entries -> Seq(TryStatuses)] /\ \A d \in Entries : Len(tries'[d]) <= MaxTries
      <4>1. tries[e] # <<>> /\ tries' = [tries EXCEPT ![e][Len(tries[e])] = "live"]
        BY <3>3 DEF Requeued, Status
      <4> QED  BY <2>6, <2>7, <2>9, <4>1
    <3> QED  BY <2>8, <3>1, <3>2, <3>3 DEF TriesBounded
  <2> QED  BY <2>1, <2>2, <2>3, <2>10 DEF TriesBounded
<1> QED  BY RetryKeeps, <1>1, <1>2, <1>3, PTL DEF DirectiveSpec
=============================================================================
