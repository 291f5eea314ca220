----------------------------- MODULE UmrGovernor -----------------------------
(***************************************************************************)
(* The governor's task table (umr_tasks) and everyone who writes a row of  *)
(* it: submitters, operators, the dispatcher, the exit-status bridge and   *)
(* the sweeps that look for stuck or dead workers.                         *)
(*                                                                         *)
(* Each writer holds the database's write lock for its own write only.     *)
(* The dispatcher alone holds a longer lock, dispatch_core's flock, from   *)
(* the choice of a row to the write that records its spawn; nobody else    *)
(* takes it.  A sweep reads rows, looks at units, and writes by umr_id     *)
(* whatever it concluded, however long that took: update_umr_task has no   *)
(* condition on the status it replaces.                                    *)
(***************************************************************************)
EXTENDS Naturals, FiniteSets

CONSTANTS
    Idents,          \* task_identity values
    Units,           \* veridian-worker@<task_id> units that may come to exist
    Governors,       \* concurrent dispatch_one() callers
    Sweepers,        \* concurrent passes of the sweeps
    NoGovernor, NoUnit, NoIdent,
    TargetUnit,      \* the unit a systemctl_action identity names; NoUnit for
                     \* veridian_task_create identities, which get a new one
    MaxRows,         \* bound: rows ever inserted
    MaxRestarts      \* bound: systemd's automatic restarts of one unit

ASSUME MaxRowsAssumption == MaxRows \in Nat
ASSUME MaxRestartsAssumption == MaxRestarts \in Nat
ASSUME TargetUnitAssumption == TargetUnit \in [Idents -> Units \cup {NoUnit}]
ASSUME NullsAssumption ==
    NoGovernor \notin Governors /\ NoUnit \notin Units /\ NoIdent \notin Idents

Rows == 1..MaxRows     \* in the order of ts_submitted, which never changes

\* Values of TargetUnit: no identity names its unit, or all name the same one, as
\* those of resumed tasks do.
CreateOnly == [i \in Idents |-> NoUnit]
NamedOnly == [i \in Idents |-> CHOOSE u \in Units : TRUE]

VARIABLES
    rows,        \* umr_tasks
    minted,      \* rows inserted so far
    unit,        \* systemd's view of each worker unit
    report,      \* the last checkpoint in the unit's task.yaml
    restarts,    \* automatic restarts so far
    bridge,      \* the row each unit's ExecStopPost hook is about to fail, or 0
    lock,        \* holder of dispatch_core's flock
    gov,         \* each dispatcher: where it is, its snapshot row, its spawned unit
    sweep,       \* each sweep: where it is, the row and unit it read, its verdict
    fresh,       \* history: rows queued anew since they were last spawned for
    lost         \* history: rows whose spawn was never recorded, the dispatcher died

table == <<rows, minted>>
systemd == <<unit, report, restarts, bridge>>
history == <<fresh, lost>>
vars == <<rows, minted, unit, report, restarts, bridge, lock, gov, sweep, fresh, lost>>

-----------------------------------------------------------------------------
(* The table *)

ActiveStatuses == {"queued", "running"}     \* "dispatched" has no writer here
Statuses == ActiveStatuses \cup
    {"sigterm_sent", "killed", "failed", "completed", "rejected_duplicate"}

NoRow == [ident |-> NoIdent, status |-> "absent", unit |-> NoUnit,
          dispatched |-> FALSE, paused |-> FALSE]

RowsOf(i) == {r \in Rows : rows[r].ident = i}
ActiveRows(i) == {r \in RowsOf(i) : rows[r].status \in ActiveStatuses}

\* Mutant of PriorRows: a rejected submission is reused.
PriorRowsAll(i) == RowsOf(i)

\* find_most_recent_umr_by_identity: rejected submissions are not history.
PriorRows(i) == {r \in RowsOf(i) : rows[r].status # "rejected_duplicate"}

IsNewest(r, S) == r \in S /\ \A q \in S : q <= r

Queued == {r \in Rows : rows[r].status = "queued"}

\* Units that systemctl_action identities name; the others come with a task.
NamedUnits == {TargetUnit[i] : i \in Idents} \cap Units

\* update_umr_task: UPDATE ... WHERE umr_id=?, nothing if the row is gone.
SetStatus(r, s) ==
    rows' = IF rows[r].status = "absent" THEN rows
            ELSE [rows EXCEPT ![r].status = s]

\* reset_umr_task_to_queued
Requeue(r) ==
    /\ rows' = IF rows[r].status = "absent" THEN rows
               ELSE [rows EXCEPT ![r] = [@ EXCEPT !.status = "queued", !.dispatched = FALSE]]
    /\ fresh' = IF rows[r].status = "absent" THEN fresh ELSE fresh \cup {r}

-----------------------------------------------------------------------------
(* Submitters and operators: one write-locked transaction each *)

Insert(i, s) ==
    /\ minted < MaxRows
    /\ minted' = minted + 1
    /\ rows' = [rows EXCEPT ![minted + 1] =
                  [NoRow EXCEPT !.ident = i, !.status = s, !.unit = TargetUnit[i]]]

\* submit, duplicate: the refusal is a row of its own.
SubmitRejected(i) ==
    /\ ActiveRows(i) # {}
    /\ Insert(i, "rejected_duplicate")
    /\ UNCHANGED <<systemd, lock, gov, sweep, history>>

\* submit, accepted on a new row: nothing to reuse, or force_new_umr_id.
SubmitNew(i) ==
    /\ ActiveRows(i) = {}
    /\ Insert(i, "queued")
    /\ fresh' = fresh \cup {minted + 1}
    /\ UNCHANGED <<systemd, lock, gov, sweep, lost>>

\* submit, accepted on the identity's most recent row: unit_name and metadata
\* are the new request's, ts_dispatched stays.
SubmitReuse(i) ==
    /\ ActiveRows(i) = {}
    /\ \E r \in Rows :
          /\ IsNewest(r, PriorRows(i))
          /\ rows' = [rows EXCEPT ![r] = [@ EXCEPT !.status = "queued",
                                                  !.unit = TargetUnit[i],
                                                  !.paused = FALSE]]
          /\ fresh' = fresh \cup {r}
    /\ UNCHANGED <<minted, systemd, lock, gov, sweep, lost>>

\* stop_task
StopTask(r) ==
    /\ rows[r].status = "queued"
    /\ rows' = [rows EXCEPT ![r].paused = TRUE]
    /\ UNCHANGED <<minted, systemd, lock, gov, sweep, history>>

\* resume_task: whatever the status
ResumeTask(r) ==
    /\ rows[r].paused
    /\ rows' = [rows EXCEPT ![r].paused = FALSE]
    /\ UNCHANGED <<minted, systemd, lock, gov, sweep, history>>

\* delete_task
DeleteTask(r) ==
    /\ rows[r].status = "queued"
    /\ rows' = [rows EXCEPT ![r] = NoRow]
    /\ UNCHANGED <<minted, systemd, lock, gov, sweep, history>>

-----------------------------------------------------------------------------
(* The dispatcher: _dispatch_one_inner *)

IdleGov == [pc |-> "idle", row |-> 0, unit |-> NoUnit]

\* Mutant of Pick: the row is chosen before the flock is taken.
PickUnlocked(g) ==
    /\ gov[g].pc = "idle"
    /\ lock' = g
    /\ \E r \in Queued :
          gov' = [gov EXCEPT ![g] = [pc |-> "picked", row |-> r,
                                     unit |-> TargetUnit[rows[r].ident]]]
    /\ UNCHANGED <<table, systemd, sweep, history>>

\* Inside the flock: next_queued_task.  Its order (tier, then
\* age) is left open: it may return any queued row.  queue_paused plays no part.
Pick(g) ==
    /\ gov[g].pc = "idle"
    /\ lock = NoGovernor
    /\ lock' = g
    /\ \E r \in Queued :
          gov' = [gov EXCEPT ![g] = [pc |-> "picked", row |-> r,
                                     unit |-> TargetUnit[rows[r].ident]]]
    /\ UNCHANGED <<table, systemd, sweep, history>>

Free(g) ==
    /\ lock' = NoGovernor
    /\ gov' = [gov EXCEPT ![g] = IdleGov]

\* No free slot: the row stays queued.
Deferred(g) ==
    /\ gov[g].pc = "picked"
    /\ Free(g)
    /\ UNCHANGED <<table, systemd, sweep, history>>

\* A stop-work order, a resolved target PR, newer OCID evidence, an existing
\* PR or the reuse verdict: the row is refused.
Refused(g) ==
    /\ gov[g].pc = "picked"
    /\ SetStatus(gov[g].row, "rejected_duplicate")
    /\ Free(g)
    /\ UNCHANGED <<minted, systemd, sweep, history>>

SpawnOn(g, u) ==
    /\ gov' = [gov EXCEPT ![g] = [@ EXCEPT !.pc = "spawned", !.unit = u]]
    /\ fresh' = fresh \ {gov[g].row}
    /\ UNCHANGED <<table, bridge, lock, sweep, lost>>

\* _perform_spawn, veridian_task_create: a new task, a new unit.
SpawnTask(g) ==
    /\ gov[g].unit = NoUnit
    /\ \E u \in Units \ NamedUnits :
          /\ unit[u] = "absent"
          /\ unit' = [unit EXCEPT ![u] = "active"]
          /\ SpawnOn(g, u)
    /\ UNCHANGED <<report, restarts>>

\* _perform_spawn, systemctl_action: start the unit the row named when it was
\* picked; nothing if it runs, and a unit still stopping is waited for.
SpawnAction(g) ==
    /\ \E u \in Units :
          /\ gov[g].unit = u
          /\ unit[u] # "stopping"
          /\ unit' = [unit EXCEPT ![u] = "active"]
          /\ report' = [report EXCEPT ![u] = IF unit[u] = "active" THEN @ ELSE "in_progress"]
          /\ SpawnOn(g, u)
    /\ UNCHANGED restarts

\* The create or start call fails: no unit.
SpawnFails(g) ==
    /\ SpawnOn(g, NoUnit)
    /\ UNCHANGED <<unit, report, restarts>>

\* Mutant of Outcome: the record leaves the status of a spawned row alone.
OutcomeUnitOnly(row, u) ==
    [row EXCEPT !.unit = IF u = NoUnit THEN row.unit ELSE u, !.dispatched = TRUE]

Outcome(row, u) ==
    [row EXCEPT !.status = IF u = NoUnit THEN "failed" ELSE "running",
                !.unit = IF u = NoUnit THEN row.unit ELSE u,
                !.dispatched = TRUE]

\* The second transaction, by umr_id: status, unit_name, ts_dispatched.
Record(g) ==
    /\ gov[g].pc = "spawned"
    /\ rows' = IF rows[gov[g].row].status = "absent" THEN rows
               ELSE [rows EXCEPT ![gov[g].row] = Outcome(@, gov[g].unit)]
    /\ Free(g)
    /\ UNCHANGED <<minted, systemd, sweep, history>>

\* The dispatcher is killed; its flock goes with it.
GovernorDies(g) ==
    /\ gov[g].pc # "idle"
    /\ lost' = IF gov[g].pc = "spawned" THEN lost \cup {gov[g].row} ELSE lost
    /\ Free(g)
    /\ UNCHANGED <<table, systemd, sweep, fresh>>

-----------------------------------------------------------------------------
(* Worker units and their ExecStopPost hook *)

\* The entrypoint checkpoints its outcome and exits: 1 after "failed", 0 after
\* "blocked" or "done" (pending_review with commits); killed, it writes nothing.
WorkerStops(u, outcome) ==
    /\ unit[u] = "active"
    /\ unit' = [unit EXCEPT ![u] = "stopping"]
    /\ report' = [report EXCEPT ![u] = IF outcome = "killed" THEN @ ELSE outcome]
    /\ UNCHANGED <<table, restarts, bridge, lock, gov, sweep, history>>

\* Mutant of StopCompletes: one restart too many.
StopCompletesLate(u) ==
    \/ /\ report[u] \in {"failed", "in_progress"} /\ restarts[u] <= MaxRestarts
       /\ unit' = [unit EXCEPT ![u] = "auto_restart"]
    \/ unit' = [unit EXCEPT ![u] = "inactive"]

\* Restart=on-failure, within the start limit: always after exit 1, and after
\* a death by signal unless systemd counts the signal as a clean one.
StopCompletes(u) ==
    \/ /\ report[u] \in {"failed", "in_progress"} /\ restarts[u] < MaxRestarts
       /\ unit' = [unit EXCEPT ![u] = "auto_restart"]
    \/ /\ ~ (report[u] = "failed" /\ restarts[u] < MaxRestarts)
       /\ unit' = [unit EXCEPT ![u] = "inactive"]

BoundRows(u) == {r \in Rows : rows[r].unit = u}

ToBridge(u) ==
    {r \in BoundRows(u) : /\ IsNewest(r, BoundRows(u))
                          /\ rows[r].status = "running"
                          /\ report[u] \in {"failed", "blocked"}}

\* worker-exit-status-bridge.py reads the unit's newest row and task.yaml.
BridgeReads(u) ==
    /\ unit[u] = "stopping"
    /\ bridge[u] = 0
    /\ \/ \E r \in ToBridge(u) : bridge' = [bridge EXCEPT ![u] = r] /\ UNCHANGED unit
       \/ ToBridge(u) = {} /\ StopCompletes(u) /\ UNCHANGED bridge
    /\ UNCHANGED <<table, report, restarts, lock, gov, sweep, history>>

\* ... and calls mark-umr-terminal --status failed; then the stop completes.
BridgeWrites(u) ==
    /\ bridge[u] # 0
    /\ SetStatus(bridge[u], "failed")
    /\ bridge' = [bridge EXCEPT ![u] = 0]
    /\ StopCompletes(u)
    /\ UNCHANGED <<minted, report, restarts, lock, gov, sweep, history>>

\* systemd starts the worker again; the entrypoint checkpoints in_progress.
AutoRestart(u) ==
    /\ unit[u] = "auto_restart"
    /\ unit' = [unit EXCEPT ![u] = "active"]
    /\ report' = [report EXCEPT ![u] = "in_progress"]
    /\ restarts' = [restarts EXCEPT ![u] = @ + 1]
    /\ UNCHANGED <<table, bridge, lock, gov, sweep, history>>

-----------------------------------------------------------------------------
(* The sweeps: read a row, look at its unit, write a verdict *)

IdleSweep == [pc |-> "idle", row |-> 0, unit |-> NoUnit, to |-> "none"]

\* SELECT ... WHERE status='running' (or 'sigterm_sent', for the SIGKILL pass)
SweepReads(s, r) ==
    /\ sweep[s].pc = "idle"
    /\ rows[r].status \in {"running", "sigterm_sent"}
    /\ rows[r].unit \in Units
    /\ sweep' = [sweep EXCEPT ![s] = [pc |-> "read", row |-> r, unit |-> rows[r].unit,
                                      to |-> rows[r].status]]
    /\ UNCHANGED <<table, systemd, lock, gov, history>>

Concludes(s, to) == sweep' = [sweep EXCEPT ![s] = [@ EXCEPT !.pc = "writing", !.to = to]]

\* What a dead worker's row becomes by task.yaml alone; and if one of the commits and
\* files found for it is evidence that mark-umr-terminal accepts, it is completed (or
\* completed_unmerged), whatever task.yaml says.
WithoutEvidence(u) == IF report[u] \in {"failed", "blocked"} THEN "failed" ELSE "queued"
DeadWorkerVerdicts(u) == {"completed", WithoutEvidence(u)}

\* reconcile_stale_running_workers.decide_and_apply: the unit is down.
JudgesDeadWorker(s) ==
    /\ sweep[s].pc = "read" /\ sweep[s].to = "running"
    /\ unit[sweep[s].unit] = "inactive"
    /\ \E to \in DeadWorkerVerdicts(sweep[s].unit) : Concludes(s, to)
    /\ UNCHANGED <<table, systemd, lock, gov, history>>

\* _unit_exit_terminal_status: systemd's Result.  The entrypoint exits 1 only
\* after "failed"; SIGTERM counts as a success, other deaths do not.
ExitStatus(u) ==
    CASE report[u] = "failed"              -> {"failed"}
      [] report[u] \in {"blocked", "done"} -> {"completed"}
      [] OTHER                             -> {"completed", "failed"}

\* reconcile_stale_heartbeats: systemctl is-active says no (the unit is down, or
\* stopping, or waiting to restart); its exit status decides.
JudgesStaleHeartbeat(s) ==
    /\ sweep[s].pc = "read" /\ sweep[s].to = "running"
    /\ unit[sweep[s].unit] # "active"
    /\ \E to \in ExitStatus(sweep[s].unit) : Concludes(s, to)
    /\ UNCHANGED <<table, systemd, lock, gov, history>>

\* scan_stuck_tasks, first pass: a create row's unit has been up for an hour.
\* SIGTERM may end the worker (WorkerStops) or be ignored.
SendsSigterm(s) ==
    /\ sweep[s].pc = "read" /\ sweep[s].to = "running"
    /\ unit[sweep[s].unit] = "active"
    /\ sweep[s].unit \notin NamedUnits
    /\ Concludes(s, "sigterm_sent")
    /\ UNCHANGED <<table, systemd, lock, gov, history>>

\* scan_stuck_tasks, second pass, a minute later: SIGKILL and disable.
SendsSigkill(s) ==
    /\ sweep[s].pc = "read" /\ sweep[s].to = "sigterm_sent"
    /\ unit' = [unit EXCEPT ![sweep[s].unit] =
                  IF @ = "active" THEN "stopping" ELSE @]
    /\ Concludes(s, "killed")
    /\ UNCHANGED <<table, report, restarts, bridge, lock, gov, history>>

\* Mutant of SweepSkips: any report of the worker's passes for a hand-over.
SweepSkipsReported(s) ==
    /\ sweep[s].pc = "read"
    /\ \/ sweep[s].to = "sigterm_sent"
       \/ unit[sweep[s].unit] # "inactive"
       \/ report[sweep[s].unit] # "in_progress"
    /\ sweep' = [sweep EXCEPT ![s] = IdleSweep]
    /\ UNCHANGED <<table, systemd, lock, gov, history>>

\* Nothing to do for this row yet: its unit is up or in transition, or its
\* supervisor is at work on what it handed over.
SweepSkips(s) ==
    /\ sweep[s].pc = "read"
    /\ \/ sweep[s].to = "sigterm_sent"
       \/ unit[sweep[s].unit] # "inactive"
       \/ report[sweep[s].unit] = "done"
    /\ sweep' = [sweep EXCEPT ![s] = IdleSweep]
    /\ UNCHANGED <<table, systemd, lock, gov, history>>

\* The write, by umr_id, whatever has become of the row.
SweepWrites(s) ==
    /\ sweep[s].pc = "writing"
    /\ IF sweep[s].to = "queued"
       THEN Requeue(sweep[s].row)
       ELSE SetStatus(sweep[s].row, sweep[s].to) /\ UNCHANGED fresh
    /\ sweep' = [sweep EXCEPT ![s] = IdleSweep]
    /\ UNCHANGED <<minted, systemd, lock, gov, lost>>

-----------------------------------------------------------------------------
Init ==
    /\ rows = [r \in Rows |-> NoRow]
    /\ minted = 0
    /\ unit = [u \in Units |-> "absent"]
    /\ report = [u \in Units |-> "in_progress"]
    /\ restarts = [u \in Units |-> 0]
    /\ bridge = [u \in Units |-> 0]
    /\ lock = NoGovernor
    /\ gov = [g \in Governors |-> IdleGov]
    /\ sweep = [s \in Sweepers |-> IdleSweep]
    /\ fresh = {}
    /\ lost = {}

Submission(i) == SubmitRejected(i) \/ SubmitNew(i) \/ SubmitReuse(i)

Operator(r) == StopTask(r) \/ ResumeTask(r) \/ DeleteTask(r)

Spawn(g) ==
    /\ gov[g].pc = "picked"
    /\ SpawnTask(g) \/ SpawnAction(g) \/ SpawnFails(g)

Dispatch(g) ==
    \/ Pick(g) \/ Deferred(g) \/ Refused(g) \/ Spawn(g) \/ Record(g) \/ GovernorDies(g)

UnitStep(u) ==
    \/ \E outcome \in {"failed", "blocked", "done", "killed"} : WorkerStops(u, outcome)
    \/ BridgeReads(u) \/ BridgeWrites(u) \/ AutoRestart(u)

SweepActs(s) ==
    \/ JudgesDeadWorker(s) \/ JudgesStaleHeartbeat(s) \/ SendsSigterm(s)
    \/ SendsSigkill(s) \/ SweepSkips(s) \/ SweepWrites(s)

Next ==
    \/ \E i \in Idents : Submission(i)
    \/ \E r \in Rows : Operator(r)
    \/ \E g \in Governors : Dispatch(g)
    \/ \E u \in Units : UnitStep(u)
    \/ \E s \in Sweepers : SweepActs(s) \/ \E r \in Rows : SweepReads(s, r)

Spec == Init /\ [][Next]_vars

\* The sweeps are on timers, every pass reads every row in its status, and a
\* pass that has read a row finishes with it.  Nothing else need ever happen.
FairSpec ==
    /\ Spec
    /\ \A s \in Sweepers : WF_vars(SweepActs(s))
    /\ \A s \in Sweepers, r \in Rows : SF_vars(SweepReads(s, r))

-----------------------------------------------------------------------------
(* Properties *)

\* The values the variables may take; units restart within their limit.
TypeOK ==
    /\ rows \in [Rows -> [ident : Idents \cup {NoIdent},
                          status : Statuses \cup {"absent"},
                          unit : Units \cup {NoUnit},
                          dispatched : BOOLEAN, paused : BOOLEAN]]
    /\ minted \in 0..MaxRows
    /\ unit \in [Units -> {"absent", "active", "stopping", "auto_restart", "inactive"}]
    /\ report \in [Units -> {"in_progress", "failed", "blocked", "done"}]
    /\ restarts \in [Units -> 0..MaxRestarts]
    /\ bridge \in [Units -> 0..MaxRows]
    /\ lock \in Governors \cup {NoGovernor}
    /\ gov \in [Governors -> [pc : {"idle", "picked", "spawned"},
                              row : 0..MaxRows, unit : Units \cup {NoUnit}]]
    /\ sweep \in [Sweepers -> [pc : {"idle", "read", "writing"}, row : 0..MaxRows,
                               unit : Units \cup {NoUnit},
                               to : Statuses \cup {"none"}]]
    /\ fresh \in SUBSET Rows
    /\ lost \in SUBSET Rows

\* Whatever sweeps, operators and submitters do to a row meanwhile, a dispatcher
\* spawns for it once each time it is queued: choosing the row, spawning and
\* recording are one critical section.  The exception is a dispatcher that died
\* between the spawn and its record.
SpawnOncePerQueuing ==
    [][\A g \in Governors :
          gov[g].pc = "picked" /\ gov'[g].pc = "spawned"
             => gov[g].row \in fresh \cup lost]_vars

\* A refused submission is a record of the refusal: nobody ever queues it,
\* dispatches it or changes it, and it never hides the identity's real row.
RefusalsAreFinal ==
    [][\A r \in Rows :
          rows[r].status = "rejected_duplicate" /\ ~rows[r].dispatched /\ r \notin fresh \cup lost
             => rows'[r] = rows[r]]_vars

\* The row says running, its worker is gone and no review of its work is due.
Abandoned(r) ==
    /\ rows[r].status = "running"
    /\ \E u \in Units : rows[r].unit = u /\ unit[u] = "inactive" /\ report[u] # "done"

\* No row says running over a worker that is gone for ever, whichever of its
\* stop hook, its dispatcher and the sweeps died or overwrote one another.
DeadWorkerNoticed == \A r \in Rows : Abandoned(r) ~> ~Abandoned(r)

\* A unit waits to restart only while it has a restart left.
RestartsLeft == \A u \in Units : unit[u] = "auto_restart" => restarts[u] < MaxRestarts

\* A row in the table has an identity.
RowsHaveIdents == \A r \in Rows : rows[r].status # "absent" => rows[r].ident \in Idents

\* A dispatcher or a sweep at work is at work on a row, and a sweep has that
\* row's status or the one to write.
AtWorkOnARow ==
    /\ \A g \in Governors : gov[g].pc # "idle" => gov[g].row \in Rows
    /\ \A s \in Sweepers : sweep[s].pc # "idle" => sweep[s].row \in Rows /\ sweep[s].to \in Statuses

\* A dispatcher is between the choice of a row and its record exactly while it
\* holds the flock.
LockInv == \A g \in Governors : gov[g].pc # "idle" <=> lock = g

Unrecorded == {gov[g].row : g \in {h \in Governors : gov[h].pc = "spawned"}}

\* A queued row has not been spawned for since it was queued, unless the record
\* of that spawn is still to come or was lost.
QueuedIsFresh == Queued \subseteq fresh \cup lost \cup Unrecorded

\* Nor has a row that a dispatcher has chosen, whatever it says by now.
PickedIsFresh ==
    \A g \in Governors : gov[g].pc = "picked" => gov[g].row \in fresh \cup lost

\* What makes SpawnOncePerQueuing inductive.
SpawnInv ==
    /\ TypeOK
    /\ RowsHaveIdents
    /\ RestartsLeft
    /\ AtWorkOnARow
    /\ LockInv
    /\ QueuedIsFresh
    /\ PickedIsFresh

-----------------------------------------------------------------------------
(* What a comment in the code says and the code does not do *)

\* A dead worker's requeue is "duplicate-safe: same row, status stays one of
\* UMR_ACTIVE_STATUSES" (reconcile_stale_running_workers.py:551)
RequeueKeepsActive ==
    [][\A s \in Sweepers :
          sweep[s].pc = "writing" /\ sweep[s].to = "queued" /\ sweep'[s].pc = "idle"
             => rows[sweep[s].row].status \in ActiveStatuses]_vars
=============================================================================
