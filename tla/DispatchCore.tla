---------------------------- MODULE DispatchCore ----------------------------
(***************************************************************************)
(* The shared concurrency gate (dispatch_core.py) and everything that      *)
(* starts and stops the units it counts.                                   *)
(*                                                                         *)
(* A dispatcher is one running instance of a tick script or of the         *)
(* governor.  It discovers something to start, takes one blocking flock,   *)
(* reads systemd's list of running workers, then the list of running       *)
(* supervisors, and starts its unit if the sum is below the cap.           *)
(*                                                                         *)
(* Units also start outside the gate: a worker that finishes starts its    *)
(* own supervisor, systemd restarts a failed worker, and an operator's     *)
(* recovery script starts failed workers.  `gated` is a history variable:  *)
(* the running units that a dispatcher started under the lock.             *)
(***************************************************************************)
EXTENDS Naturals, FiniteSets

CONSTANTS
    Dispatchers,        \* the scripts that may spawn (dispatch-tick.py, the governor, ...)
    NoDispatcher,       \* nobody holds the flock
    Tasks,              \* each has one worker unit and one supervisor unit
    Cap,                \* dispatch_core.CONCURRENCY_CAP
    StartLimitBurst     \* veridian-worker@.service: starts allowed in one window

ASSUME CapAssumption == Cap \in Nat
ASSUME BurstAssumption == StartLimitBurst \in Nat
ASSUME TasksAssumption == IsFiniteSet(Tasks)
ASSUME NoDispatcherAssumption == NoDispatcher \notin Dispatchers

VARIABLES
    worker,       \* what systemd and the entrypoint say of each worker unit
    supervisor,   \* the same for each supervisor unit
    starts,       \* starts of the worker unit in the current rate-limit window
    awaiting,     \* task.yaml says pending_review and there is no review.json
    lock,         \* who holds ai-os/locks/worker-spawn.lock
    pc,           \* where each dispatcher is
    want,         \* the unit it means to start
    counted,      \* the running units it has counted so far
    gated         \* history: running units started under the lock

units == <<worker, supervisor, starts, awaiting>>
dispatch == <<lock, pc, want, counted>>
vars == <<worker, supervisor, starts, awaiting, lock, pc, want, counted, gated>>

-----------------------------------------------------------------------------
(* Units *)

WorkerUnits == {"worker"} \X Tasks
SupervisorUnits == {"supervisor"} \X Tasks
Units == WorkerUnits \cup SupervisorUnits
NoUnit == <<"none">>

\* A worker runs while it works, while it hands over (pending_review is
\* written, the supervisor not yet started) and until it exits.
WorkerActive == {"working", "handing_over", "handed_over"}
WorkerStates == WorkerActive \cup {"inactive", "auto_restart", "failed"}

\* systemctl list-units <glob> --state=running: a unit waiting out RestartSec
\* is "activating (auto-restart)" and is not listed.
RunningWorkers == {u \in WorkerUnits : worker[u[2]] \in WorkerActive}
RunningSupervisors == {u \in SupervisorUnits : supervisor[u[2]] = "running"}
Running == RunningWorkers \cup RunningSupervisors

\* Mutant of StartWorker: the unit file without its start limit.
StartWorkerUnlimited(t) ==
    /\ worker' = [worker EXCEPT ![t] = "working"]
    /\ starts' = [starts EXCEPT ![t] = @ + 1]
    /\ awaiting' = [awaiting EXCEPT ![t] = FALSE]
    /\ UNCHANGED supervisor

\* systemctl start veridian-worker@t: nothing if it runs, refused beyond the
\* start limit, otherwise the entrypoint begins and checkpoints in_progress.
StartWorker(t) ==
    \/ /\ worker[t] \in WorkerActive
       /\ UNCHANGED units
    \/ /\ worker[t] \notin WorkerActive
       /\ starts[t] >= StartLimitBurst
       /\ worker' = [worker EXCEPT ![t] = "failed"]
       /\ UNCHANGED <<supervisor, starts, awaiting>>
    \/ /\ worker[t] \notin WorkerActive
       /\ starts[t] < StartLimitBurst
       /\ worker' = [worker EXCEPT ![t] = "working"]
       /\ starts' = [starts EXCEPT ![t] = @ + 1]
       /\ awaiting' = [awaiting EXCEPT ![t] = FALSE]
       /\ UNCHANGED supervisor

\* systemctl start veridian-supervisor@t
StartSupervisor(t) ==
    /\ supervisor' = [supervisor EXCEPT ![t] = "running"]
    /\ UNCHANGED <<worker, starts, awaiting>>

-----------------------------------------------------------------------------
(* A dispatcher's pass through the gate *)

\* supervisor_sweep_tick picks a task awaiting review; the queue, resume and
\* governor paths pick one whose worker is not there.  Both look before they
\* hold the lock and do not look again.
Wanted ==
    {<<"supervisor", t>> : t \in {s \in Tasks : awaiting[s]}}
    \cup {<<"worker", t>> :
            t \in {s \in Tasks : worker[s] \in {"inactive", "failed"} /\ ~awaiting[s]}}

Discover(d) ==
    /\ pc[d] = "idle"
    /\ \E u \in Wanted : want' = [want EXCEPT ![d] = u]
    /\ pc' = [pc EXCEPT ![d] = "waiting"]
    /\ UNCHANGED <<units, lock, counted, gated>>

\* Mutant of Acquire: a shared lock (LOCK_SH).
AcquireShared(d) ==
    /\ pc[d] = "waiting"
    /\ lock' = d
    /\ pc' = [pc EXCEPT ![d] = "locked"]
    /\ UNCHANGED <<units, want, counted, gated>>

\* acquire_dispatch_lock: flock(LOCK_EX) blocks until nobody holds it.
Acquire(d) ==
    /\ pc[d] = "waiting"
    /\ lock = NoDispatcher
    /\ lock' = d
    /\ pc' = [pc EXCEPT ![d] = "locked"]
    /\ UNCHANGED <<units, want, counted, gated>>

\* running_worker_count, first glob
CountWorkers(d) ==
    /\ pc[d] = "locked"
    /\ counted' = [counted EXCEPT ![d] = Cardinality(RunningWorkers)]
    /\ pc' = [pc EXCEPT ![d] = "counting"]
    /\ UNCHANGED <<units, lock, want, gated>>

\* Mutant of CountSupervisors: the second glob's count replaces the first's.
CountSupervisorsOnly(d) ==
    /\ pc[d] = "counting"
    /\ counted' = [counted EXCEPT ![d] = Cardinality(RunningSupervisors)]
    /\ pc' = [pc EXCEPT ![d] = "counted"]
    /\ UNCHANGED <<units, lock, want, gated>>

\* running_worker_count, second glob
CountSupervisors(d) ==
    /\ pc[d] = "counting"
    /\ counted' = [counted EXCEPT ![d] = @ + Cardinality(RunningSupervisors)]
    /\ pc' = [pc EXCEPT ![d] = "counted"]
    /\ UNCHANGED <<units, lock, want, gated>>

\* has_resource_headroom_detail: what may stand against another worker, by the host's
\* memory, swap and load just then.
Headroom == {"mem_hard_ceiling", "swap_hard_ceiling", "mem_backoff", "swap_backoff",
             "mem_headroom_budget", "load1_unreadable", "load1_backoff"}

\* has_free_slot_detail: the cap is looked at first.
Findings(d) == IF counted[d] >= Cap THEN {"cap_exhausted"} ELSE {"ok"} \cup Headroom

\* The governor lifts two of them: where swap is used but quiet and memory is there,
\* and where the load is high but the processors are idle.
LiftedWhenQuiet == {"swap_backoff"}
LiftedWhenIdle == {"load1_backoff"}
Lifted == LiftedWhenQuiet \cup LiftedWhenIdle

\* No free slot: the unit has to wait.
Defer(d) ==
    /\ pc[d] = "counted"
    /\ \E found \in Findings(d) : found # "ok"
    /\ pc' = [pc EXCEPT ![d] = "releasing"]
    /\ UNCHANGED <<units, lock, want, counted, gated>>

\* Mutant of FreeSlot: off by one.
FreeSlotAtCap(d) == counted[d] <= Cap

FreeSlot(d) == \E found \in Findings(d) : found \in {"ok"} \cup Lifted

\* has_free_slot is true: start the unit, still holding the lock.
Spawn(d) ==
    /\ pc[d] = "counted"
    /\ FreeSlot(d)
    /\ \E t \in Tasks :
          \/ want[d] = <<"worker", t>> /\ StartWorker(t)
          \/ want[d] = <<"supervisor", t>> /\ StartSupervisor(t)
    /\ gated' = gated \cup (Running' \ Running)
    /\ pc' = [pc EXCEPT ![d] = "releasing"]
    /\ UNCHANGED <<lock, want, counted>>

\* The end of the with block: LOCK_UN.
Release(d) ==
    /\ pc[d] = "releasing"
    /\ lock' = NoDispatcher
    /\ pc' = [pc EXCEPT ![d] = "idle"]
    /\ want' = [want EXCEPT ![d] = NoUnit]
    /\ counted' = [counted EXCEPT ![d] = 0]
    /\ UNCHANGED <<units, gated>>

\* The script is killed; the kernel drops its flock with the descriptor.
Crash(d) ==
    /\ pc[d] # "idle"
    /\ lock' = IF lock = d THEN NoDispatcher ELSE lock
    /\ pc' = [pc EXCEPT ![d] = "idle"]
    /\ want' = [want EXCEPT ![d] = NoUnit]
    /\ counted' = [counted EXCEPT ![d] = 0]
    /\ UNCHANGED <<units, gated>>

-----------------------------------------------------------------------------
(* What happens to units outside the gate *)

\* worker-entrypoint.sh: checkpoint pending_review ...
WorkerCheckpoint(t) ==
    /\ worker[t] = "working"
    /\ worker' = [worker EXCEPT ![t] = "handing_over"]
    /\ awaiting' = [awaiting EXCEPT ![t] = TRUE]
    /\ UNCHANGED <<supervisor, starts, dispatch, gated>>

\* ... then systemctl start veridian-supervisor@t, from inside the worker.
WorkerStartsSupervisor(t) ==
    /\ worker[t] = "handing_over"
    /\ worker' = [worker EXCEPT ![t] = "handed_over"]
    /\ supervisor' = [supervisor EXCEPT ![t] = "running"]
    /\ UNCHANGED <<starts, awaiting, dispatch, gated>>

\* exit 0: after the hand-over, or on one of the entrypoint's own stops
\* (blocked: rate limit, budget, preflight, gates), which leave no review due.
WorkerExits(t) ==
    /\ worker[t] \in {"working", "handed_over"}
    /\ worker' = [worker EXCEPT ![t] = "inactive"]
    /\ gated' = gated \ {<<"worker", t>>}
    /\ UNCHANGED <<supervisor, starts, awaiting, dispatch>>

\* Non-zero exit, OOM kill or SIGKILL: Restart=on-failure.
WorkerFails(t) ==
    /\ worker[t] \in WorkerActive
    /\ worker' = [worker EXCEPT ![t] = "auto_restart"]
    /\ gated' = gated \ {<<"worker", t>>}
    /\ UNCHANGED <<supervisor, starts, awaiting, dispatch>>

\* RestartSec later systemd starts it again, by itself.
AutoRestart(t) ==
    /\ worker[t] = "auto_restart"
    /\ StartWorker(t)
    /\ UNCHANGED <<dispatch, gated>>

\* StartLimitIntervalSec passes.
WindowExpires(t) ==
    /\ starts[t] > 0
    /\ starts' = [starts EXCEPT ![t] = 0]
    /\ UNCHANGED <<worker, supervisor, awaiting, dispatch, gated>>

\* recover-failed-workers.py: reset-failed, then start; no lock, no count.
RecoverFailed(t) ==
    /\ worker[t] = "failed"
    /\ worker' = [worker EXCEPT ![t] = IF StartLimitBurst > 0 THEN "working" ELSE @]
    /\ starts' = [starts EXCEPT ![t] = IF StartLimitBurst > 0 THEN 1 ELSE 0]
    /\ awaiting' = [awaiting EXCEPT ![t] = FALSE]
    /\ UNCHANGED <<supervisor, dispatch, gated>>

\* The review ends: a verdict or a blocked status, or the supervisor is killed
\* first and the task goes on awaiting review (Restart=no).
SupervisorStops(t) ==
    /\ supervisor[t] = "running"
    /\ supervisor' = [supervisor EXCEPT ![t] = "inactive"]
    /\ \E left \in {FALSE, awaiting[t]} : awaiting' = [awaiting EXCEPT ![t] = left]
    /\ gated' = gated \ {<<"supervisor", t>>}
    /\ UNCHANGED <<worker, starts, dispatch>>

-----------------------------------------------------------------------------
Init ==
    /\ worker = [t \in Tasks |-> "inactive"]
    /\ supervisor = [t \in Tasks |-> "inactive"]
    /\ starts = [t \in Tasks |-> 0]
    /\ awaiting = [t \in Tasks |-> FALSE]
    /\ lock = NoDispatcher
    /\ pc = [d \in Dispatchers |-> "idle"]
    /\ want = [d \in Dispatchers |-> NoUnit]
    /\ counted = [d \in Dispatchers |-> 0]
    /\ gated = {}

Holds(d) == \/ CountWorkers(d) \/ CountSupervisors(d)
            \/ Defer(d) \/ Spawn(d) \/ Release(d)

Gate(d) == Discover(d) \/ Acquire(d) \/ Holds(d) \/ Crash(d)

UnitStep(t) ==
    \/ WorkerCheckpoint(t) \/ WorkerStartsSupervisor(t) \/ WorkerExits(t)
    \/ WorkerFails(t) \/ AutoRestart(t) \/ WindowExpires(t)
    \/ RecoverFailed(t) \/ SupervisorStops(t)

Next == \/ \E d \in Dispatchers : Gate(d)
        \/ \E t \in Tasks : UnitStep(t)

Spec == Init /\ [][Next]_vars

-----------------------------------------------------------------------------
(* Properties *)

\* The values every variable may take; a worker is never started more often
\* than its start limit allows in one window.
TypeOK ==
    /\ worker \in [Tasks -> WorkerStates]
    /\ supervisor \in [Tasks -> {"inactive", "running"}]
    /\ starts \in [Tasks -> 0..StartLimitBurst]
    /\ awaiting \in [Tasks -> BOOLEAN]
    /\ lock \in Dispatchers \cup {NoDispatcher}
    /\ pc \in [Dispatchers ->
                 {"idle", "waiting", "locked", "counting", "counted", "releasing"}]
    /\ want \in [Dispatchers -> Units \cup {NoUnit}]
    /\ counted \in [Dispatchers -> Nat]
    /\ gated \in SUBSET Units

InCriticalSection(d) == pc[d] \in {"locked", "counting", "counted", "releasing"}

\* Whoever is between LOCK_EX and LOCK_UN is the holder.
LockInv == \A d \in Dispatchers : InCriticalSection(d) <=> lock = d

\* The units the gate admitted still run.
GatedRun == gated \subseteq Running

GatedWorkers == gated \cap WorkerUnits
GatedSupervisors == gated \cap SupervisorUnits

\* The two reads of the unit list are not atomic and units come and go between
\* them; yet a count, as it grows old, never falls below the units admitted so
\* far, because only the lock holder admits and it has admitted nothing since.
CountCoversGated ==
    \A d \in Dispatchers :
        /\ pc[d] = "counting" => Cardinality(GatedWorkers) <= counted[d]
        /\ pc[d] = "counted" =>
              Cardinality(GatedWorkers) + Cardinality(GatedSupervisors) <= counted[d]

\* However the ticks interleave and wherever one is killed, the units started
\* through the gate and still running never exceed the cap.
GatedWithinCap == Cardinality(gated) <= Cap

\* "Both consume the same real CPU/RAM budget on the same box, so both must
\* count against the one shared cap" (dispatch_core.py:206): all the units that
\* run, and not only the admitted ones, stay within the cap.
RunningWithinCap == Cardinality(Running) <= Cap

\* The gate implements a pool of Cap slots.
Pool == INSTANCE SlotPool WITH held <- gated
PoolSpec == Pool!Spec

\* The strengthening that makes GatedWithinCap inductive.
GateInv ==
    /\ TypeOK
    /\ LockInv
    /\ GatedRun
    /\ CountCoversGated
    /\ GatedWithinCap
=============================================================================
