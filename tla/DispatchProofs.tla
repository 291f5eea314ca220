--------------------------- MODULE DispatchProofs ---------------------------
(***************************************************************************)
(* What stands between a request and a running unit keeps its promises,    *)
(* for every number of dispatchers, tasks, slots, rows and commits: the    *)
(* gate admits within the cap and implements the slot pool, rows are       *)
(* refused and closed on evidence, and answers to decisions stand.         *)
(***************************************************************************)
EXTENDS MCDispatch, FiniteSetTheorems, SequenceTheorems, TLAPS

-----------------------------------------------------------------------------
(* Facts about units *)

\* There are finitely many units, so every set of them can be counted.
LEMMA UnitsFinite ==
    ASSUME NEW S \in SUBSET Units
    PROVE  IsFiniteSet(S) /\ Cardinality(S) \in Nat
<1>1. IsFiniteSet(WorkerUnits) /\ IsFiniteSet(SupervisorUnits)
  <2>1. IsFiniteSet({"worker"}) /\ IsFiniteSet({"supervisor"})
    BY FS_Singleton
  <2> QED  BY <2>1, TasksAssumption, FS_Product DEF WorkerUnits, SupervisorUnits
<1>2. IsFiniteSet(Units)
  BY <1>1, FS_Union DEF Units
<1> QED  BY <1>2, FS_Subset, FS_CardinalityType

\* A bigger set of units has at least as many.
LEMMA UnitsMonotone ==
    ASSUME NEW S \in SUBSET Units, NEW T \in SUBSET S
    PROVE  Cardinality(T) <= Cardinality(S)
BY UnitsFinite, FS_Subset

\* What is gated splits into gated workers and gated supervisors.
LEMMA GatedSplits ==
    ASSUME NEW S \in SUBSET Units
    PROVE  Cardinality(S) =
             Cardinality(S \cap WorkerUnits) + Cardinality(S \cap SupervisorUnits)
<1> DEFINE W == S \cap WorkerUnits
           U == S \cap SupervisorUnits
<1>1. W \in SUBSET Units /\ U \in SUBSET Units
  BY DEF Units
<1>2. IsFiniteSet(W) /\ IsFiniteSet(U)
  BY <1>1, UnitsFinite
<1>3. S = W \cup U
  BY DEF Units
<1>4. W \cap U = {}
  BY DEF WorkerUnits, SupervisorUnits
<1>5. Cardinality(W \cup U) = Cardinality(W) + Cardinality(U) - Cardinality(W \cap U)
  BY <1>2, FS_Union
<1>6. Cardinality({}) = 0
  BY FS_EmptySet
<1>7. Cardinality(W) \in Nat /\ Cardinality(U) \in Nat
  BY <1>1, UnitsFinite
<1> HIDE DEF W, U
<1>8. Cardinality(W \cup U) = Cardinality(W) + Cardinality(U) - 0
  BY <1>4, <1>5, <1>6
<1>9. Cardinality(S) = Cardinality(W) + Cardinality(U)
  BY <1>3, <1>7, <1>8
<1> QED  BY <1>9 DEF W, U

\* The running units are units.
LEMMA RunningAreUnits == Running \in SUBSET Units
<1>1. RunningWorkers \subseteq WorkerUnits
  BY DEF RunningWorkers
<1>2. RunningSupervisors \subseteq SupervisorUnits
  BY DEF RunningSupervisors
<1> QED  BY <1>1, <1>2 DEF Running, Units

\* Elements of the unit sets, by task.
LEMMA UnitOfTask ==
    ASSUME NEW t \in Tasks
    PROVE  /\ <<"worker", t>> \in WorkerUnits /\ <<"worker", t>> \in Units
           /\ <<"supervisor", t>> \in SupervisorUnits /\ <<"supervisor", t>> \in Units
           /\ <<"worker", t>>[2] = t /\ <<"supervisor", t>>[2] = t
BY DEF WorkerUnits, SupervisorUnits, Units

\* A start keeps the unit variables well typed.
LEMMA StartTypes ==
    ASSUME TypeOK, NEW t \in Tasks, StartWorker(t) \/ StartSupervisor(t)
    PROVE  /\ worker' \in [Tasks -> WorkerStates]
           /\ supervisor' \in [Tasks -> {"inactive", "running"}]
           /\ starts' \in [Tasks -> 0..StartLimitBurst]
           /\ awaiting' \in [Tasks -> BOOLEAN]
<1>1. CASE StartSupervisor(t)
  BY <1>1 DEF TypeOK, StartSupervisor
<1>2. CASE StartWorker(t) /\ worker[t] \in WorkerActive
  BY <1>2 DEF TypeOK, StartWorker, units
<1>3. CASE StartWorker(t) /\ worker[t] \notin WorkerActive /\ starts[t] >= StartLimitBurst
  <2>1. starts[t] \in 0..StartLimitBurst
    BY DEF TypeOK
  <2>2. /\ worker' = [worker EXCEPT ![t] = "failed"]
        /\ UNCHANGED <<supervisor, starts, awaiting>>
    BY <1>3, <2>1, BurstAssumption DEF StartWorker
  <2> QED  BY <2>2 DEF TypeOK, WorkerStates, WorkerActive
<1>4. CASE StartWorker(t) /\ worker[t] \notin WorkerActive /\ ~(starts[t] >= StartLimitBurst)
  <2>1. /\ starts[t] < StartLimitBurst
        /\ worker' = [worker EXCEPT ![t] = "working"]
        /\ starts' = [starts EXCEPT ![t] = @ + 1]
        /\ awaiting' = [awaiting EXCEPT ![t] = FALSE]
        /\ UNCHANGED supervisor
    BY <1>4 DEF StartWorker
  <2>2. starts[t] + 1 \in 0..StartLimitBurst
    BY <2>1, BurstAssumption DEF TypeOK
  <2> QED  BY <2>1, <2>2 DEF TypeOK, WorkerStates, WorkerActive
<1> QED  BY <1>1, <1>2, <1>3, <1>4

\* A start of unit u makes at most u run, and stops nothing.
LEMMA StartRunning ==
    ASSUME TypeOK, NEW t \in Tasks,
           NEW u \in {<<"worker", t>>, <<"supervisor", t>>},
           \/ u = <<"worker", t>> /\ StartWorker(t)
           \/ u = <<"supervisor", t>> /\ StartSupervisor(t)
    PROVE  Running \subseteq Running' /\ Running' \subseteq Running \cup {u}
<1>1. CASE u = <<"worker", t>> /\ StartWorker(t)
  <2>1. supervisor' = supervisor
    BY <1>1 DEF StartWorker, units
  <2>2. \A s \in Tasks : s # t => worker'[s] = worker[s]
    BY <1>1 DEF StartWorker, units, TypeOK
  <2>3. worker[t] \in WorkerActive => worker'[t] \in WorkerActive
    BY <1>1 DEF StartWorker, units
  <2>4. RunningWorkers \subseteq RunningWorkers'
    BY <2>2, <2>3 DEF RunningWorkers, WorkerUnits
  <2>5. RunningWorkers' \subseteq RunningWorkers \cup {u}
    BY <1>1, <2>2 DEF RunningWorkers, WorkerUnits
  <2>6. RunningSupervisors' = RunningSupervisors
    BY <2>1 DEF RunningSupervisors
  <2> QED  BY <2>4, <2>5, <2>6 DEF Running
<1>2. CASE u = <<"supervisor", t>> /\ StartSupervisor(t)
  <2>1. RunningWorkers' = RunningWorkers
    BY <1>2 DEF StartSupervisor, RunningWorkers
  <2>2. /\ \A s \in Tasks : s # t => supervisor'[s] = supervisor[s]
        /\ supervisor'[t] = "running"
    BY <1>2 DEF StartSupervisor, TypeOK
  <2>3. RunningSupervisors \subseteq RunningSupervisors'
    BY <2>2 DEF RunningSupervisors, SupervisorUnits
  <2>4. RunningSupervisors' \subseteq RunningSupervisors \cup {u}
    BY <1>2, <2>2 DEF RunningSupervisors, SupervisorUnits
  <2> QED  BY <2>1, <2>3, <2>4 DEF Running
<1> QED  BY <1>1, <1>2

-----------------------------------------------------------------------------
(* Type correctness *)

\* The initial values are well typed.
LEMMA TypeInit == Init => TypeOK
BY BurstAssumption DEF Init, TypeOK, WorkerStates

\* Every step keeps the variables well typed.
LEMMA TypeNext == TypeOK /\ [Next]_vars => TypeOK'
<1> SUFFICES ASSUME TypeOK, [Next]_vars
             PROVE  TypeOK'
  OBVIOUS
<1>1. ASSUME NEW d \in Dispatchers, Discover(d)
      PROVE  TypeOK'
  <2>1. Wanted \subseteq Units
    BY UnitOfTask DEF Wanted
  <2> QED  BY <1>1, <2>1 DEF Discover, TypeOK, units
<1>2. ASSUME NEW d \in Dispatchers, Acquire(d)
      PROVE  TypeOK'
  BY <1>2 DEF Acquire, TypeOK, units
<1>3. ASSUME NEW d \in Dispatchers, CountWorkers(d)
      PROVE  TypeOK'
  <2>1. Cardinality(RunningWorkers) \in Nat
    BY UnitsFinite DEF RunningWorkers, Units
  <2> QED  BY <1>3, <2>1 DEF CountWorkers, TypeOK, units
<1>4. ASSUME NEW d \in Dispatchers, CountSupervisors(d)
      PROVE  TypeOK'
  <2>1. Cardinality(RunningSupervisors) \in Nat
    BY UnitsFinite DEF RunningSupervisors, Units
  <2>2. counted[d] + Cardinality(RunningSupervisors) \in Nat
    BY <2>1 DEF TypeOK
  <2> QED  BY <1>4, <2>2 DEF CountSupervisors, TypeOK, units
<1>5. ASSUME NEW d \in Dispatchers, Defer(d)
      PROVE  TypeOK'
  BY <1>5 DEF Defer, TypeOK, units
<1>6. ASSUME NEW d \in Dispatchers, Spawn(d)
      PROVE  TypeOK'
  <2>1. PICK t \in Tasks :
          \/ want[d] = <<"worker", t>> /\ StartWorker(t)
          \/ want[d] = <<"supervisor", t>> /\ StartSupervisor(t)
    BY <1>6 DEF Spawn
  <2>2. /\ worker' \in [Tasks -> WorkerStates]
        /\ supervisor' \in [Tasks -> {"inactive", "running"}]
        /\ starts' \in [Tasks -> 0..StartLimitBurst]
        /\ awaiting' \in [Tasks -> BOOLEAN]
    BY <2>1, StartTypes
  <2>3. Running' \in SUBSET Units
    BY <2>2 DEF Running, RunningWorkers, RunningSupervisors, Units
  <2>4. gated' \in SUBSET Units
    BY <1>6, <2>3 DEF Spawn, TypeOK
  <2> QED  BY <1>6, <2>2, <2>4 DEF Spawn, TypeOK
<1>7. ASSUME NEW d \in Dispatchers, Release(d)
      PROVE  TypeOK'
  BY <1>7 DEF Release, TypeOK, units
<1>8. ASSUME NEW d \in Dispatchers, Crash(d)
      PROVE  TypeOK'
  BY <1>8 DEF Crash, TypeOK, units
<1>9. ASSUME NEW t \in Tasks, UnitStep(t)
      PROVE  TypeOK'
  <2>1. CASE WorkerCheckpoint(t)
    BY <2>1 DEF WorkerCheckpoint, TypeOK, WorkerStates, WorkerActive, dispatch
  <2>2. CASE WorkerStartsSupervisor(t)
    BY <2>2 DEF WorkerStartsSupervisor, TypeOK, WorkerStates, WorkerActive, dispatch
  <2>3. CASE WorkerExits(t)
    BY <2>3 DEF WorkerExits, TypeOK, WorkerStates, dispatch
  <2>4. CASE WorkerFails(t)
    BY <2>4 DEF WorkerFails, TypeOK, WorkerStates, dispatch
  <2>5. CASE AutoRestart(t)
    <3>1. /\ StartWorker(t)
          /\ UNCHANGED <<dispatch, gated>>
      BY <2>5 DEF AutoRestart
    <3>2. /\ worker' \in [Tasks -> WorkerStates]
          /\ supervisor' \in [Tasks -> {"inactive", "running"}]
          /\ starts' \in [Tasks -> 0..StartLimitBurst]
          /\ awaiting' \in [Tasks -> BOOLEAN]
      BY <3>1, StartTypes
    <3> QED  BY <3>1, <3>2 DEF TypeOK, dispatch
  <2>6. CASE WindowExpires(t)
    BY <2>6, BurstAssumption DEF WindowExpires, TypeOK, dispatch
  <2>7. CASE RecoverFailed(t)
    <3>1. (IF StartLimitBurst > 0 THEN 1 ELSE 0) \in 0..StartLimitBurst
      BY BurstAssumption
    <3> QED  BY <2>7, <3>1 DEF RecoverFailed, TypeOK, WorkerStates, WorkerActive, dispatch
  <2>8. CASE SupervisorStops(t)
    BY <2>8 DEF SupervisorStops, TypeOK, dispatch
  <2> QED  BY <1>9, <2>1, <2>2, <2>3, <2>4, <2>5, <2>6, <2>7, <2>8 DEF UnitStep
<1>10. CASE UNCHANGED vars
  BY <1>10 DEF vars, TypeOK
<1> QED  BY <1>1, <1>2, <1>3, <1>4, <1>5, <1>6, <1>7, <1>8, <1>9, <1>10
         DEF Next, Gate, Holds

\* Every variable keeps its type; in particular no worker unit is started more
\* often than systemd's start limit allows.
THEOREM TypeCorrect == Spec => []TypeOK
<1>1. Init => TypeOK
  BY TypeInit
<1>2. TypeOK /\ [Next]_vars => TypeOK'
  BY TypeNext
<1> QED  BY <1>1, <1>2, PTL DEF Spec

-----------------------------------------------------------------------------
(* The lock *)

\* Every step keeps the critical section to the holder of the flock.
LEMMA LockNext == TypeOK /\ LockInv /\ [Next]_vars => LockInv'
<1> SUFFICES ASSUME TypeOK, LockInv, [Next]_vars
             PROVE  LockInv'
  OBVIOUS
<1> USE DEF LockInv, InCriticalSection, TypeOK
<1>1. ASSUME NEW d \in Dispatchers, Discover(d)
      PROVE  LockInv'
  BY <1>1 DEF Discover
<1>2. ASSUME NEW d \in Dispatchers, Acquire(d)
      PROVE  LockInv'
  BY <1>2, NoDispatcherAssumption DEF Acquire
<1>3. ASSUME NEW d \in Dispatchers, CountWorkers(d) \/ CountSupervisors(d) \/ Defer(d) \/ Spawn(d)
      PROVE  LockInv'
  BY <1>3 DEF CountWorkers, CountSupervisors, Defer, Spawn
<1>4. ASSUME NEW d \in Dispatchers, Release(d)
      PROVE  LockInv'
  BY <1>4, NoDispatcherAssumption DEF Release
<1>5. ASSUME NEW d \in Dispatchers, Crash(d)
      PROVE  LockInv'
  BY <1>5, NoDispatcherAssumption DEF Crash
<1>6. ASSUME NEW t \in Tasks, UnitStep(t)
      PROVE  LockInv'
  <2>1. UNCHANGED dispatch
    BY <1>6 DEF UnitStep, WorkerCheckpoint, WorkerStartsSupervisor, WorkerExits,
                WorkerFails, AutoRestart, WindowExpires, RecoverFailed, SupervisorStops
  <2> QED  BY <2>1 DEF dispatch
<1>7. CASE UNCHANGED vars
  BY <1>7 DEF vars
<1> QED  BY <1>1, <1>2, <1>3, <1>4, <1>5, <1>6, <1>7 DEF Next, Gate, Holds

-----------------------------------------------------------------------------
(* The gated units *)

\* Outside the gate units only leave the gated set, and whatever stays runs.
LEMMA UnitStepGated ==
    ASSUME TypeOK, GatedRun, NEW t \in Tasks, UnitStep(t)
    PROVE  /\ UNCHANGED dispatch
           /\ gated' \subseteq gated
           /\ gated' \subseteq Running'
<1> DEFINE w == <<"worker", t>>
           u == <<"supervisor", t>>
<1> USE UnitOfTask
<1>1. CASE WorkerCheckpoint(t)
  <2>1. RunningWorkers' = RunningWorkers /\ RunningSupervisors' = RunningSupervisors
    BY <1>1 DEF WorkerCheckpoint, RunningWorkers, RunningSupervisors, WorkerUnits,
                WorkerActive, TypeOK
  <2> QED  BY <1>1, <2>1 DEF WorkerCheckpoint, GatedRun, Running
<1>2. CASE WorkerStartsSupervisor(t)
  <2>1. RunningWorkers' = RunningWorkers
    BY <1>2 DEF WorkerStartsSupervisor, RunningWorkers, WorkerUnits, WorkerActive, TypeOK
  <2>2. RunningSupervisors \subseteq RunningSupervisors'
    BY <1>2 DEF WorkerStartsSupervisor, RunningSupervisors, SupervisorUnits, TypeOK
  <2> QED  BY <1>2, <2>1, <2>2 DEF WorkerStartsSupervisor, GatedRun, Running
<1>3. CASE WorkerExits(t) \/ WorkerFails(t)
  <2>1. RunningSupervisors' = RunningSupervisors
    BY <1>3 DEF WorkerExits, WorkerFails, RunningSupervisors
  <2>2. RunningWorkers \ {w} \subseteq RunningWorkers'
    BY <1>3 DEF WorkerExits, WorkerFails, RunningWorkers, WorkerUnits, TypeOK
  <2> QED  BY <1>3, <2>1, <2>2 DEF WorkerExits, WorkerFails, GatedRun, Running
<1>4. CASE AutoRestart(t)
  <2>1. StartWorker(t) /\ UNCHANGED <<dispatch, gated>>
    BY <1>4 DEF AutoRestart
  <2>2. Running \subseteq Running'
    BY <2>1, StartRunning
  <2> QED  BY <2>1, <2>2 DEF GatedRun
<1>5. CASE WindowExpires(t)
  BY <1>5 DEF WindowExpires, GatedRun, Running, RunningWorkers, RunningSupervisors
<1>6. CASE RecoverFailed(t)
  <2>1. RunningSupervisors' = RunningSupervisors
    BY <1>6 DEF RecoverFailed, RunningSupervisors
  <2>2. RunningWorkers \subseteq RunningWorkers'
    BY <1>6 DEF RecoverFailed, RunningWorkers, WorkerUnits, WorkerActive, TypeOK
  <2> QED  BY <1>6, <2>1, <2>2 DEF RecoverFailed, GatedRun, Running
<1>7. CASE SupervisorStops(t)
  <2>1. RunningWorkers' = RunningWorkers
    BY <1>7 DEF SupervisorStops, RunningWorkers
  <2>2. RunningSupervisors \ {u} \subseteq RunningSupervisors'
    BY <1>7 DEF SupervisorStops, RunningSupervisors, SupervisorUnits, TypeOK
  <2> QED  BY <1>7, <2>1, <2>2 DEF SupervisorStops, GatedRun, Running
<1> QED  BY <1>1, <1>2, <1>3, <1>4, <1>5, <1>6, <1>7 DEF UnitStep

\* A slot is free only below the cap: what the governor lifts comes after it.
LEMMA FreeSlotBelowCap ==
    ASSUME NEW d \in Dispatchers, counted[d] \in Nat, FreeSlot(d)
    PROVE  counted[d] < Cap
BY CapAssumption DEF FreeSlot, Findings, Lifted, LiftedWhenQuiet, LiftedWhenIdle

\* A spawn admits at most one unit, and finds fewer than Cap admitted.
LEMMA SpawnGated ==
    ASSUME GateInv, NEW d \in Dispatchers, Spawn(d)
    PROVE  /\ gated' \subseteq Running'
           /\ Cardinality(gated) < Cap
           /\ \E u \in Units : gated' \subseteq gated \cup {u}
<1> USE DEF GateInv
<1>1. PICK t \in Tasks :
        \/ want[d] = <<"worker", t>> /\ StartWorker(t)
        \/ want[d] = <<"supervisor", t>> /\ StartSupervisor(t)
  BY DEF Spawn
<1>2. PICK u \in Units : Running \subseteq Running' /\ Running' \subseteq Running \cup {u}
  BY <1>1, StartRunning, UnitOfTask
<1>3. gated' = gated \cup (Running' \ Running)
  BY DEF Spawn
<1>4. gated' \subseteq Running' /\ gated' \subseteq gated \cup {u}
  BY <1>2, <1>3 DEF GatedRun
<1>5. Cardinality(gated) = Cardinality(GatedWorkers) + Cardinality(GatedSupervisors)
  BY GatedSplits DEF TypeOK, GatedWorkers, GatedSupervisors
<1>6. Cardinality(gated) <= counted[d] /\ counted[d] < Cap
  BY <1>5, FreeSlotBelowCap DEF CountCoversGated, Spawn, TypeOK
<1>7. Cardinality(gated) \in Nat /\ counted[d] \in Nat
  BY UnitsFinite DEF TypeOK
<1> QED  BY <1>2, <1>4, <1>6, <1>7, CapAssumption

\* While the gated set only shrinks and the counting dispatchers keep their
\* counts, the counts go on covering it.
LEMMA CountKept ==
    ASSUME TypeOK, CountCoversGated, gated' \subseteq gated,
           \A e \in Dispatchers : pc'[e] \in {"counting", "counted"} =>
               pc'[e] = pc[e] /\ counted'[e] = counted[e]
    PROVE  CountCoversGated'
<1>1. GatedWorkers \in SUBSET Units /\ GatedSupervisors \in SUBSET Units
  BY DEF GatedWorkers, GatedSupervisors, TypeOK
<1>2. GatedWorkers' \in SUBSET GatedWorkers /\ GatedSupervisors' \in SUBSET GatedSupervisors
  BY DEF GatedWorkers, GatedSupervisors
<1>3. /\ Cardinality(GatedWorkers') <= Cardinality(GatedWorkers)
      /\ Cardinality(GatedSupervisors') <= Cardinality(GatedSupervisors)
  BY <1>1, <1>2, UnitsMonotone
<1>4. /\ Cardinality(GatedWorkers) \in Nat /\ Cardinality(GatedSupervisors) \in Nat
      /\ Cardinality(GatedWorkers') \in Nat /\ Cardinality(GatedSupervisors') \in Nat
  <2>1. GatedWorkers' \in SUBSET Units /\ GatedSupervisors' \in SUBSET Units
    BY <1>1, <1>2
  <2> QED  BY <1>1, <2>1, UnitsFinite
<1>5. ASSUME NEW e \in Dispatchers, pc'[e] = "counting"
      PROVE  Cardinality(GatedWorkers') <= counted'[e]
  <2>1. pc[e] = "counting" /\ counted'[e] = counted[e] /\ counted[e] \in Nat
    BY <1>5 DEF TypeOK
  <2>2. Cardinality(GatedWorkers) <= counted[e]
    BY <2>1 DEF CountCoversGated
  <2> QED  BY <1>3, <1>4, <2>1, <2>2
<1>6. ASSUME NEW e \in Dispatchers, pc'[e] = "counted"
      PROVE  Cardinality(GatedWorkers') + Cardinality(GatedSupervisors') <= counted'[e]
  <2>1. pc[e] = "counted" /\ counted'[e] = counted[e] /\ counted[e] \in Nat
    BY <1>6 DEF TypeOK
  <2>2. Cardinality(GatedWorkers) + Cardinality(GatedSupervisors) <= counted[e]
    BY <2>1 DEF CountCoversGated
  <2> QED  BY <1>3, <1>4, <2>1, <2>2
<1> QED  BY <1>5, <1>6 DEF CountCoversGated

-----------------------------------------------------------------------------
(* The gate *)

\* The strengthened invariant holds at the start.
LEMMA GateInit == Init => GateInv
<1> SUFFICES ASSUME Init
             PROVE  GateInv
  OBVIOUS
<1>1. TypeOK
  BY TypeInit
<1>2. LockInv
  BY NoDispatcherAssumption DEF Init, LockInv, InCriticalSection
<1>3. GatedRun /\ CountCoversGated
  BY DEF Init, GatedRun, CountCoversGated
<1>4. GatedWithinCap
  BY FS_EmptySet, CapAssumption DEF Init, GatedWithinCap
<1> QED  BY <1>1, <1>2, <1>3, <1>4 DEF GateInv

\* The gate keeps its promise across every step, provided a shrinking gated
\* set keeps the cap, which needs no more than its being smaller.
LEMMA SmallerWithinCap ==
    ASSUME TypeOK, GatedWithinCap, gated' \subseteq gated
    PROVE  GatedWithinCap'
<1>1. gated \in SUBSET Units /\ gated' \in SUBSET gated /\ gated' \in SUBSET Units
  BY DEF TypeOK
<1>2. Cardinality(gated') <= Cardinality(gated)
  BY <1>1, UnitsMonotone
<1>3. Cardinality(gated) \in Nat /\ Cardinality(gated') \in Nat
  BY <1>1, UnitsFinite
<1> QED  BY <1>2, <1>3, CapAssumption DEF GatedWithinCap

\* Every step preserves it.
LEMMA GateNext == GateInv /\ [Next]_vars => GateInv'
<1> SUFFICES ASSUME GateInv, [Next]_vars
             PROVE  GateInv'
  OBVIOUS
<1> USE DEF GateInv
<1>1. TypeOK' /\ LockInv'
  BY TypeNext, LockNext
<1> DEFINE Kept == \A e \in Dispatchers : pc'[e] \in {"counting", "counted"} =>
                       pc'[e] = pc[e] /\ counted'[e] = counted[e]
<1>2. ASSUME UNCHANGED <<units, gated>>, Kept
      PROVE  GatedRun' /\ CountCoversGated' /\ GatedWithinCap'
  <2>1. Running' = Running
    BY <1>2 DEF units, Running, RunningWorkers, RunningSupervisors
  <2> QED  BY <1>2, <2>1, CountKept, SmallerWithinCap DEF GatedRun
<1>3. ASSUME NEW d \in Dispatchers,
             Discover(d) \/ Acquire(d) \/ Defer(d) \/ Release(d) \/ Crash(d)
      PROVE  GatedRun' /\ CountCoversGated' /\ GatedWithinCap'
  <2>1. UNCHANGED <<units, gated>>
    BY <1>3 DEF Discover, Acquire, Defer, Release, Crash
  <2>2. Kept
    BY <1>3 DEF Discover, Acquire, Defer, Release, Crash, TypeOK
  <2> QED  BY <1>2, <2>1, <2>2
<1>4. ASSUME NEW d \in Dispatchers, CountWorkers(d)
      PROVE  GatedRun' /\ CountCoversGated' /\ GatedWithinCap'
  <2>1. GatedRun' /\ GatedWithinCap' /\ GatedWorkers' = GatedWorkers
        /\ GatedSupervisors' = GatedSupervisors
    <3>1. UNCHANGED <<units, gated>>
      BY <1>4 DEF CountWorkers
    <3>2. Running' = Running
      BY <3>1 DEF units, Running, RunningWorkers, RunningSupervisors
    <3> QED  BY <3>1, <3>2, SmallerWithinCap DEF GatedRun, GatedWorkers, GatedSupervisors
  <2>2. Cardinality(GatedWorkers) <= Cardinality(RunningWorkers)
    <3>1. GatedWorkers \in SUBSET RunningWorkers
      BY DEF GatedRun, GatedWorkers, Running, RunningSupervisors, SupervisorUnits, WorkerUnits
    <3>2. RunningWorkers \in SUBSET Units
      BY RunningAreUnits DEF Running
    <3> QED  BY <3>1, <3>2, UnitsMonotone
  <2>3. /\ counted'[d] = Cardinality(RunningWorkers)
        /\ pc'[d] = "counting"
        /\ \A e \in Dispatchers : e # d => pc'[e] = pc[e] /\ counted'[e] = counted[e]
    BY <1>4 DEF CountWorkers, TypeOK
  <2>4. CountCoversGated'
    BY <2>1, <2>2, <2>3 DEF CountCoversGated
  <2> QED  BY <2>1, <2>4
<1>5. ASSUME NEW d \in Dispatchers, CountSupervisors(d)
      PROVE  GatedRun' /\ CountCoversGated' /\ GatedWithinCap'
  <2>1. GatedRun' /\ GatedWithinCap' /\ GatedWorkers' = GatedWorkers
        /\ GatedSupervisors' = GatedSupervisors
    <3>1. UNCHANGED <<units, gated>>
      BY <1>5 DEF CountSupervisors
    <3>2. Running' = Running
      BY <3>1 DEF units, Running, RunningWorkers, RunningSupervisors
    <3> QED  BY <3>1, <3>2, SmallerWithinCap DEF GatedRun, GatedWorkers, GatedSupervisors
  <2>2. Cardinality(GatedSupervisors) <= Cardinality(RunningSupervisors)
    <3>1. GatedSupervisors \in SUBSET RunningSupervisors
      BY DEF GatedRun, GatedSupervisors, Running, RunningWorkers, SupervisorUnits, WorkerUnits
    <3>2. RunningSupervisors \in SUBSET Units
      BY RunningAreUnits DEF Running
    <3> QED  BY <3>1, <3>2, UnitsMonotone
  <2>3. Cardinality(GatedWorkers) <= counted[d]
    BY <1>5 DEF CountSupervisors, CountCoversGated
  <2>4. /\ counted'[d] = counted[d] + Cardinality(RunningSupervisors)
        /\ pc'[d] = "counted"
        /\ \A e \in Dispatchers : e # d => pc'[e] = pc[e] /\ counted'[e] = counted[e]
    BY <1>5 DEF CountSupervisors, TypeOK
  <2>5. /\ counted[d] \in Nat /\ Cardinality(GatedWorkers) \in Nat
        /\ Cardinality(GatedSupervisors) \in Nat /\ Cardinality(RunningSupervisors) \in Nat
    BY UnitsFinite, RunningAreUnits DEF TypeOK, GatedWorkers, GatedSupervisors, Running
  <2>6. Cardinality(GatedWorkers) + Cardinality(GatedSupervisors) <= counted'[d]
    BY <2>2, <2>3, <2>4, <2>5
  <2>7. CountCoversGated'
    BY <2>1, <2>4, <2>6 DEF CountCoversGated
  <2> QED  BY <2>1, <2>7
<1>6. ASSUME NEW d \in Dispatchers, Spawn(d)
      PROVE  GatedRun' /\ CountCoversGated' /\ GatedWithinCap'
  <2>1. /\ gated' \subseteq Running'
        /\ Cardinality(gated) < Cap
    BY <1>6, SpawnGated
  <2>2. PICK u \in Units : gated' \subseteq gated \cup {u}
    BY <1>6, SpawnGated
  <2>3. CountCoversGated'
    <3>1. \A e \in Dispatchers : pc'[e] \notin {"counting", "counted"}
      BY <1>6 DEF Spawn, TypeOK, LockInv, InCriticalSection
    <3> QED  BY <3>1 DEF CountCoversGated
  <2>4. GatedWithinCap'
    <3>1. IsFiniteSet(gated) /\ Cardinality(gated) \in Nat
      BY UnitsFinite DEF TypeOK
    <3>2. Cardinality(gated \cup {u}) <= Cardinality(gated) + 1
      <4>1. Cardinality(gated \cup {u}) =
              IF u \in gated THEN Cardinality(gated) ELSE Cardinality(gated) + 1
        BY <3>1, FS_AddElement
      <4> QED  BY <3>1, <4>1
    <3>3. gated \cup {u} \in SUBSET Units
      BY DEF TypeOK
    <3>4. Cardinality(gated') <= Cardinality(gated \cup {u})
      BY <2>2, <3>3, UnitsMonotone
    <3>5. Cardinality(gated') \in Nat /\ Cardinality(gated \cup {u}) \in Nat
      BY <1>1, <3>3, UnitsFinite DEF TypeOK
    <3> QED  BY <2>1, <3>1, <3>2, <3>4, <3>5, CapAssumption DEF GatedWithinCap
  <2> QED  BY <2>1, <2>3, <2>4 DEF GatedRun
<1>7. ASSUME NEW t \in Tasks, UnitStep(t)
      PROVE  GatedRun' /\ CountCoversGated' /\ GatedWithinCap'
  <2>1. UNCHANGED dispatch /\ gated' \subseteq gated /\ gated' \subseteq Running'
    BY <1>7, UnitStepGated
  <2>2. Kept
    BY <2>1 DEF dispatch
  <2> QED  BY <2>1, <2>2, CountKept, SmallerWithinCap DEF GatedRun
<1>8. CASE UNCHANGED vars
  <2>1. UNCHANGED <<units, gated>> /\ Kept
    BY <1>8 DEF vars, units
  <2> QED  BY <1>1, <1>2, <2>1
<1> QED  BY <1>1, <1>3, <1>4, <1>5, <1>6, <1>7, <1>8 DEF Next, Gate, Holds

\* However many ticks run, however their reads of the unit list interleave with
\* units coming and going, and wherever a tick is killed: the units started
\* through the gate and still running never exceed the cap.
THEOREM GateKeepsCap == Spec => []GatedWithinCap
<1>1. Init => GateInv
  BY GateInit
<1>2. GateInv /\ [Next]_vars => GateInv'
  BY GateNext
<1>3. GateInv => GatedWithinCap
  BY DEF GateInv
<1> QED  BY <1>1, <1>2, <1>3, PTL DEF Spec

\* A count of the running units, however stale, covers the admitted ones.
THEOREM CountsStaySafe == Spec => []CountCoversGated
<1>1. Init => GateInv
  BY GateInit
<1>2. GateInv /\ [Next]_vars => GateInv'
  BY GateNext
<1>3. GateInv => CountCoversGated
  BY DEF GateInv
<1> QED  BY <1>1, <1>2, <1>3, PTL DEF Spec

-----------------------------------------------------------------------------
(* The gate implements the abstract pool *)

\* Every step takes a slot, gives one back or changes nothing in the pool.
LEMMA PoolNext == GateInv /\ [Next]_vars => [Pool!Next]_gated
<1> SUFFICES ASSUME GateInv, [Next]_vars, gated' # gated
             PROVE  Pool!Next
  BY DEF Pool!Next
<1>1. ASSUME NEW d \in Dispatchers, Gate(d)
      PROVE  \E u \in Units : Pool!Take(u)
  <2>1. Spawn(d)
    BY <1>1 DEF Gate, Holds, Discover, Acquire, CountWorkers, CountSupervisors, Defer,
                Release, Crash
  <2>2. /\ Cardinality(gated) < Cap
        /\ \E u \in Units : gated' \subseteq gated \cup {u}
    BY <2>1, SpawnGated
  <2>3. gated \subseteq gated'
    BY <2>1 DEF Spawn
  <2>4. PICK u \in Units : gated' = gated \cup {u} /\ u \notin gated
    BY <2>2, <2>3
  <2>5. Pool!Cardinality(gated) = Cardinality(gated)
    BY DEF Pool!Cardinality, Cardinality
  <2> QED  BY <2>2, <2>4, <2>5 DEF Pool!Take
<1>2. ASSUME NEW t \in Tasks, UnitStep(t)
      PROVE  \E u \in Units : Pool!Drop(u)
  <2>1. CASE WorkerExits(t) \/ WorkerFails(t)
    BY <1>2, <2>1, UnitOfTask DEF WorkerExits, WorkerFails, Pool!Drop
  <2>2. CASE SupervisorStops(t)
    BY <1>2, <2>2, UnitOfTask DEF SupervisorStops, Pool!Drop
  <2> QED
    BY <1>2, <2>1, <2>2 DEF UnitStep, WorkerCheckpoint, WorkerStartsSupervisor, AutoRestart,
                            WindowExpires, RecoverFailed
<1>3. ~ UNCHANGED vars
  BY DEF vars
<1> QED  BY <1>1, <1>2, <1>3 DEF Next, Pool!Next

\* The flock, the two reads and the start, seen through the units they admit,
\* are a pool of Cap slots.
THEOREM GateImplementsPool == Spec => PoolSpec
<1>1. Init => Pool!Init
  BY DEF Init, Pool!Init
<1>2. Init => GateInv
  BY GateInit
<1>3. GateInv /\ [Next]_vars => GateInv'
  BY GateNext
<1>4. GateInv /\ [Next]_vars => [Pool!Next]_gated
  BY PoolNext
<1> QED  BY <1>1, <1>2, <1>3, <1>4, PTL DEF Spec, PoolSpec, Pool!Spec

-----------------------------------------------------------------------------
(* DispatchEvidence *)

\* A row of the task, as far as a refusal is about it.
ATry == [status : Live \cup {"none", "rejected", "ended"}, why : Whys, born : Nat, made : BOOLEAN]

\* The types of what refusals rest on.
RefusalsTyped ==
    /\ try \in [Tries -> ATry]
    /\ linked \in [Tries -> Nat]
    /\ elsewhere \in Nat /\ now \in Nat
    /\ pull \in [Tries -> {"none", "docs", "code"}]
    /\ named \in {"none", "docs", "code"}

\* Links are not of the future, and a branch that has a pull request is one that had one.
LinksPast == elsewhere <= now
PullsOpened == \A t \in Tries : pull[t] # "none" => t \in opened

\* What one row was refused for.
Grounds(t) ==
    try[t].status = "rejected" =>
        /\ try[t].why = "target" => target = "merged" \/ successor = "merged"
        /\ try[t].why = "superseded" => LinkedSince(t)
        /\ try[t].why = "branch" => opened \ {t} # {} \/ named # "none"

\* A refusal's ground was there when the check found it: so grounds must only grow.
RefusalInv == RefusalsTyped /\ LinksPast /\ PullsOpened /\ RefusedOnEvidence

\* The initial states satisfy the invariant.
LEMMA RefusalInitially == EvidenceInit => RefusalInv
<1> SUFFICES ASSUME EvidenceInit PROVE RefusalInv
  OBVIOUS
<1>1. NoTry \in ATry /\ NoTry.status = "none"
  BY DEF NoTry, ATry, Live, Whys
<1>2. RefusalsTyped
  BY <1>1 DEF EvidenceInit, RefusalsTyped
<1>3. LinksPast /\ PullsOpened /\ RefusedOnEvidence
  BY <1>1 DEF EvidenceInit, LinksPast, PullsOpened, RefusedOnEvidence
<1> QED
  BY <1>2, <1>3 DEF RefusalInv

\* The grounds of refusals only grow.
GroundsGrow ==
    /\ target = "merged" => target' = "merged"
    /\ successor = "merged" => successor' = "merged"
    /\ named # "none" => named' # "none"
    /\ opened \subseteq opened'
    /\ elsewhere' >= elsewhere
    /\ \A t \in Tries : linked'[t] >= linked[t]

\* A row that keeps its submission keeps its grounds.
LEMMA RefusalsStand ==
  ASSUME RefusalInv, RefusalsTyped', GroundsGrow,
         NEW t \in Tries, try'[t] = try[t]
  PROVE  Grounds(t)'
<1>1. try[t] \in ATry /\ Grounds(t)
  BY DEF RefusalInv, RefusalsTyped, RefusedOnEvidence, Grounds
<1>2. try[t].born \in Nat
  BY <1>1 DEF ATry
<1>3. LinkedSince(t) => LinkedSince(t)'
  <2>1. elsewhere \in Nat /\ elsewhere' \in Nat
        /\ \A u \in Tries : linked[u] \in Nat /\ linked'[u] \in Nat
    BY DEF RefusalInv, RefusalsTyped
  <2> QED
    BY <1>2, <2>1 DEF LinkedSince, GroundsGrow
<1>4. opened \ {t} # {} => opened' \ {t} # {}
  BY DEF GroundsGrow
<1> QED
  BY <1>1, <1>3, <1>4 DEF Grounds, GroundsGrow

\* Steps that leave rows and links alone, and let grounds grow.
LEMMA WorldKeeps ==
  ASSUME RefusalInv, UNCHANGED <<try, linked>>, GroundsGrow, LinksPast', PullsOpened',
         RefusalsTyped'
  PROVE  RefusalInv'
<1>1. \A t \in Tries : Grounds(t)'
  BY RefusalsStand
<1> QED
  BY <1>1 DEF RefusalInv, RefusedOnEvidence, Grounds

\* A step that changes one row, and that gives grounds for it if it refuses.
LEMMA RowKeeps ==
  ASSUME RefusalInv, NEW t \in Tries, NEW r \in ATry, try' = [try EXCEPT ![t] = r],
         RefusalsTyped', GroundsGrow, LinksPast', PullsOpened',
         r.status = "rejected" => Grounds(t)'
  PROVE  RefusalInv'
<1>1. \A u \in Tries : try'[u] = IF u = t THEN r ELSE try[u]
  BY DEF RefusalInv, RefusalsTyped
<1>2. \A u \in Tries : u # t => Grounds(u)'
  BY <1>1, RefusalsStand
<1>3. Grounds(t)'
  BY <1>1 DEF Grounds
<1> QED
  BY <1>2, <1>3 DEF RefusalInv, RefusedOnEvidence, Grounds

\* Of a step that touches none of the grounds.
LEMMA GroundsStand ==
  ASSUME RefusalInv, UNCHANGED <<linked, elsewhere, target, successor, opened, named>>
  PROVE  GroundsGrow
<1>1. elsewhere \in Nat /\ \A t \in Tries : linked[t] \in Nat
  BY DEF RefusalInv, RefusalsTyped
<1> QED
  BY <1>1 DEF GroundsGrow

\* A submission's row keeps the invariant: refused at once it is for no ground of a check.
LEMMA SubmitKeepsGrounds ==
  ASSUME RefusalInv,
         \/ SubmitStopped \/ SubmitActive
         \/ \E t \in Tries, carries \in BOOLEAN : SubmitAccepted(t, carries)
  PROVE  RefusalInv'
<1>1. now \in Nat /\ elsewhere \in Nat /\ elsewhere <= now /\ try \in [Tries -> ATry]
      /\ linked \in [Tries -> Nat]
  BY DEF RefusalInv, RefusalsTyped, LinksPast
<1>2. ASSUME NEW why \in {"stopped", "active"}, SubmitRefused(why) PROVE RefusalInv'
  <2>0. PICK n \in Tries : n = NextTry
    BY <1>2 DEF SubmitRefused
  <2> DEFINE b == now + 1
             r == [NoTry EXCEPT !.status = "rejected", !.why = why, !.born = b]
  <2>1. /\ n \in Tries /\ try' = [try EXCEPT ![n] = r] /\ now' = b
        /\ UNCHANGED <<linked, elsewhere, world>>
    BY <1>2, <2>0 DEF SubmitRefused
  <2>2. b \in Nat /\ elsewhere <= b
    BY <1>1
  <2>3. NoTry \in ATry
    BY DEF NoTry, ATry, Live, Whys
  <2> HIDE DEF b, NoTry
  <2>4. r \in ATry /\ r.why = why
    BY <2>2, <2>3 DEF ATry, Whys
  <2> HIDE DEF r
  <2>5. RefusalsTyped' /\ LinksPast' /\ PullsOpened'
    BY <2>1, <2>2, <2>4 DEF RefusalInv, RefusalsTyped, LinksPast, PullsOpened, world
  <2>6. GroundsGrow
    BY <2>1, GroundsStand DEF world
  <2>7. Grounds(n)'
    <3>1. try'[n] = r
      BY <1>1, <2>1
    <3> QED
      BY <2>4, <3>1 DEF Grounds
  <2> QED
    BY <2>1, <2>4, <2>5, <2>6, <2>7, RowKeeps
<1>3. ASSUME NEW t \in Tries, NEW carries \in BOOLEAN, SubmitAccepted(t, carries) PROVE RefusalInv'
  <2> DEFINE b == IF t = NextTry THEN now + 1 ELSE try[t].born
             r == [try[t] EXCEPT !.status = "queued", !.why = "none", !.born = b]
  <2>1. try[t] \in ATry /\ try[t].born \in Nat
    BY <1>1 DEF ATry
  <2>2. b \in Nat
    BY <1>1, <2>1
  <2>3. try' = [try EXCEPT ![t] = r]
    <3> DEFINE q == [try[t] EXCEPT !.status = "queued", !.why = "none",
                                   !.born = IF t = NextTry THEN now + 1 ELSE @]
    <3>1. try' = [try EXCEPT ![t] = q]
      BY <1>3, Zenon DEF SubmitAccepted
    <3>2. q = r
      BY <2>1 DEF ATry
    <3> HIDE DEF q, r
    <3> QED
      BY <3>1, <3>2
  <2> HIDE DEF b
  <2>4. r \in ATry /\ r.status = "queued"
    BY <2>1, <2>2 DEF ATry, Live, Whys
  <2> HIDE DEF r
  <2>5. now' = now + 2 /\ UNCHANGED <<elsewhere, world>> /\ linked' \in {linked, Registered(t, now + 2)}
    BY <1>3 DEF SubmitAccepted
  <2>6. now' \in Nat /\ elsewhere <= now'
    BY <1>1, <2>5
  <2>7. linked' \in [Tries -> Nat] /\ \A u \in Tries : linked'[u] >= linked[u]
    <3>1. now + 2 \in Nat
      BY <1>1
    <3>2. linked' = linked \/ (linked[t] = 0 /\ linked' = [linked EXCEPT ![t] = now + 2])
      BY <2>5 DEF Registered
    <3> QED
      BY <1>1, <3>1, <3>2
  <2>8. RefusalsTyped' /\ LinksPast' /\ PullsOpened'
    BY <2>3, <2>4, <2>5, <2>6, <2>7 DEF RefusalInv, RefusalsTyped, LinksPast, PullsOpened, world
  <2>9. GroundsGrow
    BY <1>1, <2>5, <2>7 DEF GroundsGrow, world
  <2> QED
    BY <2>3, <2>4, <2>8, <2>9, RowKeeps
<1> QED
  BY <1>2, <1>3 DEF SubmitStopped, SubmitActive

\* A check's refusal keeps it: its ground is there.
LEMMA CheckKeepsGrounds ==
  ASSUME RefusalInv, asking.row \in Tries, NEW why \in Whys, NEW check, Refuses(check, why),
         why = "target" => target = "merged" \/ successor = "merged",
         why = "superseded" => LinkedSince(asking.row),
         why = "branch" => opened \ {asking.row} # {} \/ named # "none"
  PROVE  RefusalInv'
<1>0. PICK t \in Tries : t = asking.row
  OBVIOUS
<1> DEFINE r == [try[t] EXCEPT !.status = "rejected", !.why = why]
<1>1. try[t] \in ATry /\ try \in [Tries -> ATry]
  BY DEF RefusalInv, RefusalsTyped
<1>2. r \in ATry /\ r.why = why /\ r.born = try[t].born /\ r.status = "rejected"
  BY <1>1 DEF ATry
<1>3. try' = [try EXCEPT ![t] = r] /\ UNCHANGED <<linked, elsewhere, now, world>>
  BY <1>0 DEF Refuses
<1> HIDE DEF r
<1>4. RefusalsTyped' /\ LinksPast' /\ PullsOpened'
  BY <1>2, <1>3 DEF RefusalInv, RefusalsTyped, LinksPast, PullsOpened, world
<1>5. GroundsGrow
  BY <1>3, GroundsStand DEF world
<1>6. try'[t] = r
  BY <1>1, <1>3
<1>7. LinkedSince(t) => LinkedSince(t)'
  BY <1>2, <1>3, <1>6 DEF LinkedSince
<1>8. Grounds(t)'
  BY <1>0, <1>2, <1>3, <1>6, <1>7 DEF Grounds, world
<1> QED
  BY <1>2, <1>3, <1>4, <1>5, <1>8, RowKeeps

\* The steps of a dispatcher at its checks, and the spawn, keep it.
LEMMA DispatcherKeepsGrounds ==
  ASSUME RefusalInv, asking.row \in Tries,
         StopWork \/ TargetResolved \/ Superseded \/ DuplicatePr \/ ReuseVerdict \/ Spawns
  PROVE  RefusalInv'
<1>1. ASSUME NEW check, NEW next, Passes(check, next) PROVE RefusalInv'
  <2>1. UNCHANGED <<try, linked, elsewhere, now, world>>
    BY <1>1 DEF Passes
  <2>2. RefusalsTyped' /\ LinksPast' /\ PullsOpened'
    BY <2>1 DEF RefusalInv, RefusalsTyped, LinksPast, PullsOpened, world
  <2> QED
    BY <2>1, <2>2, GroundsStand, WorldKeeps DEF world
<1>2. CASE StopWork
  BY <1>1, <1>2, CheckKeepsGrounds DEF StopWork, Whys
<1>3. CASE TargetResolved
  BY <1>1, <1>3, CheckKeepsGrounds DEF TargetResolved, Succeeded, Whys
<1>4. CASE Superseded
  BY <1>1, <1>4, CheckKeepsGrounds DEF Superseded, Whys
<1>5. CASE DuplicatePr
  <2>1. BranchPull(asking.row) => opened \ {asking.row} # {}
    BY DEF BranchPull, Counts, Earlier, Used, RefusalInv, PullsOpened
  <2>2. NamedPull => named # "none"
    BY DEF NamedPull, Counts
  <2> QED
    BY <1>1, <1>5, <2>1, <2>2, CheckKeepsGrounds DEF DuplicatePr, Whys
<1>6. CASE ReuseVerdict
  BY <1>1, <1>6, CheckKeepsGrounds DEF ReuseVerdict, Whys
<1>7. CASE Spawns
  <2>0. PICK t \in Tries : t = asking.row
    OBVIOUS
  <2>1. PICK made \in BOOLEAN, s \in {"running", "ended"} :
            try' = [try EXCEPT ![t] = [@ EXCEPT !.status = s, !.made = made]]
    <3>1. PICK yes \in BOOLEAN : yes
      OBVIOUS
    <3>2. try \in [Tries -> ATry] /\ try[t] \in ATry
      BY DEF RefusalInv, RefusalsTyped
    <3>3. try' = [try EXCEPT ![t] = [@ EXCEPT !.status = "running", !.made = yes]]
          \/ try' = [try EXCEPT ![t] = [@ EXCEPT !.status = "ended", !.made = try[t].made]]
      BY <1>7, <2>0, <3>1, <3>2 DEF Spawns, ATry
    <3> QED
      BY <3>2, <3>3 DEF ATry
  <2> DEFINE r == [try[t] EXCEPT !.status = s, !.made = made]
  <2>2. try[t] \in ATry
    BY DEF RefusalInv, RefusalsTyped
  <2>3. r \in ATry /\ r.status = s
    BY <2>2 DEF ATry, Live
  <2>4. try' = [try EXCEPT ![t] = r]
    BY <2>1
  <2> HIDE DEF r
  <2>5. /\ UNCHANGED <<linked, elsewhere, now, target, successor, opened, named>>
        /\ pull' = pull \/ pull' = [pull EXCEPT ![t] = "none"]
    BY <1>7, <2>0 DEF Spawns
  <2>6. RefusalsTyped' /\ LinksPast' /\ PullsOpened'
    BY <2>3, <2>4, <2>5 DEF RefusalInv, RefusalsTyped, LinksPast, PullsOpened
  <2> QED
    BY <2>3, <2>4, <2>5, <2>6, GroundsStand, RowKeeps
<1> QED
  BY <1>2, <1>3, <1>4, <1>5, <1>6, <1>7

\* The work the checks ask about keeps it: merges, links and pull requests are not undone.
LEMMA WorkKeepsGrounds ==
  ASSUME RefusalInv,
         \/ \E t \in Tries : Picks(t) \/ Ended(t) \/ OpensPull(t, "docs") \/ OpensPull(t, "code")
         \/ LinkedElsewhere \/ WorldMoves
  PROVE  RefusalInv'
<1>1. ASSUME NEW t \in Tries, Picks(t) PROVE RefusalInv'
  <2>1. UNCHANGED <<try, linked, elsewhere, now, world>>
    BY <1>1 DEF Picks
  <2>2. RefusalsTyped' /\ LinksPast' /\ PullsOpened'
    BY <2>1 DEF RefusalInv, RefusalsTyped, LinksPast, PullsOpened, world
  <2> QED
    BY <2>1, <2>2, GroundsStand, WorldKeeps DEF world
<1>2. ASSUME NEW t \in Tries, Ended(t) PROVE RefusalInv'
  <2>1. PICK s \in {"ended", "queued"} : try' = [try EXCEPT ![t].status = s]
    BY <1>2 DEF Ended
  <2> DEFINE r == [try[t] EXCEPT !.status = s]
  <2>2. try[t] \in ATry
    BY DEF RefusalInv, RefusalsTyped
  <2>3. r \in ATry /\ r.status = s
    BY <2>2 DEF ATry, Live
  <2>4. try' = [try EXCEPT ![t] = r] /\ UNCHANGED <<linked, elsewhere, now, world>>
    BY <1>2, <2>1 DEF Ended
  <2> HIDE DEF r
  <2>5. RefusalsTyped' /\ LinksPast' /\ PullsOpened'
    BY <2>3, <2>4 DEF RefusalInv, RefusalsTyped, LinksPast, PullsOpened, world
  <2> QED
    BY <2>3, <2>4, <2>5, GroundsStand, RowKeeps DEF world
<1>3. ASSUME NEW t \in Tries, NEW about \in {"docs", "code"}, OpensPull(t, about) PROVE RefusalInv'
  <2>1. /\ pull' = [pull EXCEPT ![t] = about] /\ opened' = opened \cup {t}
        /\ UNCHANGED <<try, linked, elsewhere, now, target, successor, named>>
    BY <1>3 DEF OpensPull
  <2>2. RefusalsTyped' /\ LinksPast' /\ PullsOpened'
    BY <2>1 DEF RefusalInv, RefusalsTyped, LinksPast, PullsOpened
  <2>3. \A u \in Tries : linked[u] \in Nat
    BY DEF RefusalInv, RefusalsTyped
  <2>4. elsewhere \in Nat
    BY DEF RefusalInv, RefusalsTyped
  <2>5. GroundsGrow
    BY <2>1, <2>3, <2>4 DEF GroundsGrow
  <2> QED
    BY <2>1, <2>2, <2>5, WorldKeeps
<1>4. CASE LinkedElsewhere
  <2>1. /\ now' = now + 1 /\ elsewhere' = now + 1 /\ UNCHANGED <<try, linked, asking, world>>
    BY <1>4 DEF LinkedElsewhere
  <2>2. now \in Nat /\ elsewhere \in Nat /\ elsewhere <= now
    BY DEF RefusalInv, RefusalsTyped, LinksPast
  <2>3. now' \in Nat /\ elsewhere' \in Nat /\ elsewhere' <= now' /\ elsewhere' >= elsewhere
    BY <2>1, <2>2
  <2>4. \A u \in Tries : linked[u] \in Nat
    BY DEF RefusalInv, RefusalsTyped
  <2>5. RefusalsTyped' /\ LinksPast' /\ PullsOpened'
    BY <2>1, <2>3 DEF RefusalInv, RefusalsTyped, LinksPast, PullsOpened, world
  <2>6. GroundsGrow
    BY <2>1, <2>3, <2>4 DEF GroundsGrow, world
  <2> QED
    BY <2>1, <2>5, <2>6, WorldKeeps
<1>5. CASE WorldMoves
  <2>1. /\ target = "merged" => target' = "merged"
        /\ successor = "merged" => successor' = "merged"
        /\ named # "none" => named' # "none"
        /\ named' \in {named, "docs", "code"}
        /\ UNCHANGED <<try, linked, elsewhere, now, pull, opened>>
    BY <1>5 DEF WorldMoves
  <2>2. elsewhere \in Nat /\ \A u \in Tries : linked[u] \in Nat
    BY DEF RefusalInv, RefusalsTyped
  <2>3. RefusalsTyped' /\ LinksPast' /\ PullsOpened'
    BY <2>1 DEF RefusalInv, RefusalsTyped, LinksPast, PullsOpened
  <2>4. GroundsGrow
    BY <2>1, <2>2 DEF GroundsGrow
  <2> QED
    BY <2>1, <2>3, <2>4, WorldKeeps
<1> QED
  BY <1>1, <1>2, <1>3, <1>4, <1>5

\* The row a dispatcher is at is a row: there is one, or nothing is ever picked.
LEMMA AskingIsARow ==
  EvidenceSpec => [](asking # Resting => asking.row \in Tries)
<1>1. EvidenceInit => (asking # Resting => asking.row \in Tries)
  BY DEF EvidenceInit
<1>2. (asking # Resting => asking.row \in Tries) /\ [EvidenceNext]_evvars
      => (asking # Resting => asking.row \in Tries)'
  <2> SUFFICES ASSUME asking # Resting => asking.row \in Tries, [EvidenceNext]_evvars
               PROVE  (asking # Resting => asking.row \in Tries)'
    OBVIOUS
  <2>1. ASSUME NEW t \in Tries, Picks(t) PROVE (asking # Resting => asking.row \in Tries)'
    BY <2>1 DEF Picks
  <2>2. ASSUME NEW check, NEW why, Refuses(check, why)
        PROVE  (asking # Resting => asking.row \in Tries)'
    BY <2>2 DEF Refuses
  <2>3. ASSUME NEW check \in Checks, NEW next, Passes(check, next)
        PROVE  (asking # Resting => asking.row \in Tries)'
    <3>1. asking.at # "idle" /\ asking' = [asking EXCEPT !.at = next]
      BY <2>3 DEF Passes, Checks
    <3>2. asking.row \in Tries
      BY <3>1 DEF Resting
    <3>3. asking'.row = asking.row \/ asking' = asking
      BY <3>1, <3>2 DEF Resting
    <3> QED
      BY <3>2, <3>3
  <2>4. CASE Spawns
    BY <2>4 DEF Spawns
  <2>5. CASE UNCHANGED asking
    BY <2>5
  <2>6. CASE StopWork \/ TargetResolved \/ Superseded \/ DuplicatePr \/ ReuseVerdict
    BY <2>2, <2>3, <2>6 DEF StopWork, TargetResolved, Superseded, DuplicatePr, ReuseVerdict, Checks
  <2> QED
    BY <2>1, <2>4, <2>5, <2>6 DEF EvidenceNext, evvars, SubmitStopped, SubmitActive,
       SubmitRefused, SubmitAccepted, Ended, OpensPull, LinkedElsewhere, WorldMoves
<1> QED
  BY <1>1, <1>2, PTL DEF EvidenceSpec

\* A row refused before its spawn is refused for work that exists, whatever moved between
\* the calls of its checks (submit, _dispatch_one_inner), for every number of rows.
THEOREM RefusalsHaveGrounds == EvidenceSpec => []RefusedOnEvidence
<1>1. RefusalInv /\ (asking # Resting => asking.row \in Tries) /\ [EvidenceNext]_evvars => RefusalInv'
  <2> SUFFICES ASSUME RefusalInv, asking # Resting => asking.row \in Tries, [EvidenceNext]_evvars
               PROVE  RefusalInv'
    OBVIOUS
  <2>1. CASE UNCHANGED evvars
    BY <2>1 DEF evvars, RefusalInv, RefusalsTyped, LinksPast, PullsOpened, RefusedOnEvidence, LinkedSince
  <2>2. CASE StopWork \/ TargetResolved \/ Superseded \/ DuplicatePr \/ ReuseVerdict \/ Spawns
    <3>1. asking.at # "idle"
      BY <2>2 DEF StopWork, TargetResolved, Superseded, DuplicatePr, ReuseVerdict, Spawns, Refuses, Passes
    <3>2. asking # Resting
      BY <3>1 DEF Resting
    <3> QED
      BY <2>2, <3>2, DispatcherKeepsGrounds
  <2> QED
    BY <2>1, <2>2, SubmitKeepsGrounds, WorkKeepsGrounds DEF EvidenceNext
<1>2. RefusalInv => RefusedOnEvidence
  BY DEF RefusalInv
<1> QED
  BY <1>1, <1>2, RefusalInitially, AskingIsARow, PTL DEF EvidenceSpec

-----------------------------------------------------------------------------
(* TerminalGate *)

\* A call in its steps.
ACloser == [pc : {"idle", "briefs", "file", "commit", "ancestor", "write",
                  "search", "register", "done"},
            claim : Ends, cites : BOOLEAN, file : BOOLEAN, sha : Evidence,
            saw : SUBSET {"file", "commit", "main", "none"}]

\* The types of what a closing rests on.
ClosingTyped ==
    /\ work.sha \in Evidence
    /\ commit \in [Commits -> {"absent", "pushed", "main"}]
    /\ closer \in [Closers -> ACloser]

\* What a call's questions have found is still so: commits are not taken back.
Found(c) ==
    /\ {"commit", "main"} \cap c.saw # {} \/ c.pc = "ancestor" =>
          c.sha \in Commits /\ commit[c.sha] # "absent"
    /\ "main" \in c.saw => commit[c.sha] = "main"

\* The write rests on the answers alone, so those must still be true.
ClosingInv == ClosingTyped /\ (\A k \in Closers : Found(closer[k])) /\ ClosedOnEvidence

\* A call that has not begun found nothing.
LEMMA UnclaimedFound ==
    /\ Unclaimed \in ACloser /\ Unclaimed.saw = {} /\ Unclaimed.pc = "idle"
    /\ \A place \in {"file", "briefs", "search", "register", "done"} :
          LET c == [Unclaimed EXCEPT !.pc = place]
          IN  c \in ACloser /\ c.saw = {} /\ c.pc = place
<1>1. Unclaimed \in ACloser
  BY DEF Unclaimed, ACloser, Ends, Evidence
<1>2. Unclaimed.saw = {} /\ Unclaimed.pc = "idle"
  BY DEF Unclaimed
<1> HIDE DEF Unclaimed
<1> QED
  BY <1>1, <1>2 DEF ACloser

\* The initial states satisfy the invariant.
LEMMA ClosingInitially == TerminalInit => ClosingInv
<1> SUFFICES ASSUME TerminalInit PROVE ClosingInv
  OBVIOUS
<1>1. ClosingTyped
  BY UnclaimedFound DEF TerminalInit, ClosingTyped, Evidence
<1>2. \A k \in Closers : Found(closer[k])
  BY UnclaimedFound DEF TerminalInit, Found
<1>3. ClosedOnEvidence
  BY DEF TerminalInit, ClosedOnEvidence
<1> QED
  BY <1>1, <1>2, <1>3 DEF ClosingInv

\* While commits stand, a call's step keeps the invariant if what it has found is so.
LEMMA CallMoves ==
  ASSUME ClosingInv, NEW k \in Closers, NEW c \in ACloser, Found(c), UNCHANGED commit,
         closer' = [closer EXCEPT ![k] = c],
         work' = work \/ (ClosedOnEvidence' /\ work'.sha \in Evidence)
  PROVE  ClosingInv'
<1>1. \A j \in Closers : closer'[j] = IF j = k THEN c ELSE closer[j]
  BY DEF ClosingInv, ClosingTyped
<1>2. ClosingTyped'
  BY DEF ClosingInv, ClosingTyped
<1>3. \A j \in Closers : Found(closer'[j])
  BY <1>1 DEF ClosingInv
<1>4. \A j \in Closers : Found(closer[j])'
  BY <1>3 DEF Found
<1>5. ClosedOnEvidence'
  BY DEF ClosingInv, ClosedOnEvidence
<1> QED
  BY <1>2, <1>4, <1>5 DEF ClosingInv

\* A call that is asked anew, or is over, has found nothing.
LEMMA Restarts ==
  ASSUME ClosingInv, NEW k \in Closers, NEW place \in {"search", "register", "done"}, Goes(k, place),
         UNCHANGED commit, work' = work \/ (ClosedOnEvidence' /\ work'.sha \in Evidence)
  PROVE  ClosingInv'
<1> DEFINE c == [Unclaimed EXCEPT !.pc = place]
<1>1. c \in ACloser /\ c.saw = {} /\ c.pc = place
  BY UnclaimedFound
<1>2. closer' = [closer EXCEPT ![k] = c]
  BY DEF Goes
<1> HIDE DEF c
<1>3. Found(c)
  BY <1>1 DEF Found
<1> QED
  BY <1>1, <1>2, <1>3, CallMoves

\* A call's first steps keep it: the claim and the check of its pull request.
LEMMA ClaimKeeps == ASSUME ClosingInv, NEW k \in Closers, Claims(k) \/ Briefs(k) PROVE ClosingInv'
<1>1. CASE Claims(k)
  <2>1. PICK claim \in Ends, file \in BOOLEAN, sha \in Evidence, way \in {"file", "briefs"},
             cites \in BOOLEAN :
             closer' = [closer EXCEPT ![k] =
                 [Unclaimed EXCEPT !.pc = way, !.claim = claim, !.cites = cites,
                                   !.file = file, !.sha = sha]]
    <3>1. PICK claim \in Ends, file \in BOOLEAN, sha \in Evidence, way \in {"file", "briefs"} :
              \E cites \in IF way = "file" THEN {FALSE} ELSE BOOLEAN :
                 closer' = [closer EXCEPT ![k] =
                     [Unclaimed EXCEPT !.pc = way, !.claim = claim, !.cites = cites,
                                       !.file = file, !.sha = sha]]
      BY <1>1, Zenon DEF Claims
    <3>2. PICK cites \in IF way = "file" THEN {FALSE} ELSE BOOLEAN :
                 closer' = [closer EXCEPT ![k] =
                     [Unclaimed EXCEPT !.pc = way, !.claim = claim, !.cites = cites,
                                       !.file = file, !.sha = sha]]
      BY <3>1, Zenon
    <3>3. cites \in BOOLEAN
      OBVIOUS
    <3> QED
      BY <3>2, <3>3, Zenon
  <2> DEFINE c == [Unclaimed EXCEPT !.pc = way, !.claim = claim, !.cites = cites,
                                    !.file = file, !.sha = sha]
  <2>2. c \in ACloser /\ c.saw = {} /\ c.pc = way
    BY UnclaimedFound DEF ACloser
  <2>3. closer' = [closer EXCEPT ![k] = c] /\ UNCHANGED <<work, commit>>
    BY <1>1, <2>1 DEF Claims
  <2> HIDE DEF c
  <2>4. Found(c)
    BY <2>2 DEF Found
  <2> QED
    BY <2>2, <2>3, <2>4, CallMoves
<1>2. CASE Briefs(k)
  <2>1. UNCHANGED <<work, commit>>
    BY <1>2 DEF Briefs
  <2>2. CASE Goes(k, "search")
    BY <2>1, <2>2, Restarts
  <2>3. CASE ~Goes(k, "search")
    <3>1. PICK no \in BOOLEAN :
              closer' = [closer EXCEPT ![k].pc = "file", ![k].cites = no]
      BY <1>2, <2>3 DEF Briefs
    <3> DEFINE c == [closer[k] EXCEPT !.pc = "file", !.cites = no]
    <3>2. closer[k] \in ACloser /\ Found(closer[k])
      BY DEF ClosingInv, ClosingTyped
    <3>3. c \in ACloser /\ c.pc = "file" /\ c.saw = closer[k].saw /\ c.sha = closer[k].sha
      BY <3>2 DEF ACloser
    <3>4. closer' = [closer EXCEPT ![k] = c]
      BY <3>1, Zenon
    <3> HIDE DEF c
    <3>5. Found(c)
      BY <3>2, <3>3 DEF Found
    <3> QED
      BY <2>1, <3>3, <3>4, <3>5, CallMoves
  <2> QED
    BY <2>2, <2>3
<1> QED
  BY <1>1, <1>2

\* An answer that is true when it is given.
LEMMA AnswerKeeps ==
  ASSUME ClosingInv, NEW k \in Closers, NEW place \in {"write", "commit", "ancestor"},
         NEW answer \in SUBSET {"file", "commit", "main"}, Sees(k, place, answer),
         UNCHANGED <<work, commit>>,
         place = "ancestor" \/ "commit" \in answer =>
            closer[k].sha \in Commits /\ commit[closer[k].sha] # "absent",
         "main" \in answer => closer[k].pc = "ancestor" /\ commit[closer[k].sha] = "main"
  PROVE  ClosingInv'
<1>1. closer[k] \in ACloser /\ Found(closer[k])
  BY DEF ClosingInv, ClosingTyped
<1> DEFINE c == [closer[k] EXCEPT !.pc = place, !.saw = @ \cup answer]
<1>2. c \in ACloser /\ c.pc = place /\ c.saw = closer[k].saw \cup answer /\ c.sha = closer[k].sha
  BY <1>1 DEF ACloser
<1>3. closer' = [closer EXCEPT ![k] = c]
  BY Zenon DEF Sees
<1> HIDE DEF c
<1>4. Found(c)
  BY <1>1, <1>2 DEF Found
<1> QED
  BY <1>2, <1>3, <1>4, CallMoves

\* The questions of mark-umr-terminal keep it.
LEMMA QuestionKeeps ==
  ASSUME ClosingInv, NEW k \in Closers, ChecksFile(k) \/ ChecksCommit(k) \/ ChecksAncestor(k)
  PROVE  ClosingInv'
<1>1. closer[k] \in ACloser /\ UNCHANGED <<work, commit>>
  BY DEF ClosingInv, ClosingTyped, ChecksFile, ChecksCommit, ChecksAncestor
<1>2. ASSUME Sees(k, "write", {}) PROVE ClosingInv'
  BY <1>1, <1>2, AnswerKeeps
<1>3. CASE ChecksFile(k)
  <2> DEFINE found == closer[k].file /\ onDisk
             place == IF closer[k].claim = "failed" \/ (closer[k].claim = "completed" /\ found)
                   THEN "write" ELSE "commit"
             answer == IF found THEN {"file"} ELSE {}
  <2>1. Sees(k, place, answer)
    BY <1>3 DEF ChecksFile
  <2>2. place \in {"write", "commit"} /\ answer \in {{"file"}, {}}
    OBVIOUS
  <2> HIDE DEF place, answer
  <2>3. PICK p \in {"write", "commit"} : p = place
    BY <2>2
  <2>4. PICK a \in {{"file"}, {}} : a = answer
    BY <2>2
  <2>5. Sees(k, p, a)
    BY <2>1, <2>3, <2>4
  <2> QED
    BY <1>1, <2>5, AnswerKeeps
<1>4. CASE ChecksCommit(k)
  <2>1. closer[k].sha \in Evidence
    BY <1>1 DEF ACloser
  <2>2. CASE Sees(k, "ancestor", {"commit"}) /\ closer[k].sha # NoCommit
             /\ commit[closer[k].sha] # "absent"
    BY <1>1, <2>1, <2>2, AnswerKeeps DEF Evidence
  <2> QED
    BY <1>2, <1>4, <2>2 DEF ChecksCommit
<1>5. CASE ChecksAncestor(k)
  <2>1. CASE Sees(k, "write", {"main"}) /\ commit[closer[k].sha] = "main"
    <3>1. closer[k].sha \in Commits /\ closer[k].pc = "ancestor"
      BY <1>5 DEF ClosingInv, Found, ChecksAncestor
    <3> QED
      BY <1>1, <2>1, <3>1, AnswerKeeps
  <2> QED
    BY <1>2, <1>5, <2>1 DEF ChecksAncestor
<1> QED
  BY <1>3, <1>4, <1>5

\* The write of an accepted call keeps it.
LEMMA MarkKeeps == ASSUME ClosingInv, NEW k \in Closers, Marks(k) PROVE ClosingInv'
<1>1. closer[k] \in ACloser /\ Found(closer[k]) /\ UNCHANGED commit /\ Goes(k, "search")
  BY DEF ClosingInv, ClosingTyped, Marks
<1>2. CASE Accepted(closer[k])
  <2>1. work' = [status |-> closer[k].claim, sha |-> closer[k].sha, file |-> "file" \in closer[k].saw]
    BY <1>2 DEF Marks
  <2>2. /\ work'.sha \in Evidence /\ work'.sha = closer[k].sha
        /\ work'.status = closer[k].claim /\ work'.file = ("file" \in closer[k].saw)
    BY <1>1, <2>1 DEF ACloser
  <2>3. closer[k].sha \in Commits => closer[k].sha # NoCommit
    BY TerminalAssumption
  <2>4. ClosedOnEvidence'
    BY <1>1, <1>2, <2>2, <2>3 DEF ClosedOnEvidence, Accepted, Found
  <2> QED
    BY <1>1, <2>2, <2>4, Restarts
<1>3. CASE ~Accepted(closer[k])
  <2>1. work' = work
    BY <1>3 DEF Marks
  <2> QED
    BY <1>1, <2>1, Restarts
<1> QED
  BY <1>2, <1>3

\* Other commands and the work itself keep it: commits only go on.
LEMMA OthersKeep ==
  ASSUME ClosingInv, MarksDispatched \/ ResetsToQueued \/ WorkMoves
  PROVE  ClosingInv'
<1>1. CASE MarksDispatched \/ ResetsToQueued
  <2>1. PICK s \in {"dispatched", "queued"} : work' = [work EXCEPT !.status = s]
    BY <1>1 DEF MarksDispatched, ResetsToQueued
  <2>2. UNCHANGED <<commit, closer>>
    BY <1>1 DEF MarksDispatched, ResetsToQueued
  <2>3. work'.sha = work.sha /\ work'.status \notin {"completed", "completed_unmerged"}
    BY <2>1
  <2> QED
    BY <2>2, <2>3 DEF ClosingInv, ClosingTyped, ClosedOnEvidence, Found
<1>2. CASE WorkMoves
  <2>1. /\ UNCHANGED <<work, closer>>
        /\ \/ UNCHANGED commit
           \/ \E c \in Commits : commit[c] = "absent" /\ commit' = [commit EXCEPT ![c] = "pushed"]
           \/ \E c \in Commits : commit[c] = "pushed" /\ commit' = [commit EXCEPT ![c] = "main"]
    BY <1>2 DEF WorkMoves
  <2>2. /\ commit' \in [Commits -> {"absent", "pushed", "main"}]
        /\ \A c \in Commits : /\ commit[c] # "absent" => commit'[c] # "absent"
                              /\ commit[c] = "main" => commit'[c] = "main"
    BY <2>1 DEF ClosingInv, ClosingTyped
  <2>3. ClosingTyped'
    BY <2>1, <2>2 DEF ClosingInv, ClosingTyped
  <2>4. \A k \in Closers : Found(closer[k])'
    BY <2>1, <2>2 DEF ClosingInv, Found
  <2>5. ClosedOnEvidence'
    BY <2>1, <2>2 DEF ClosingInv, ClosingTyped, ClosedOnEvidence, Evidence
  <2> QED
    BY <2>3, <2>4, <2>5 DEF ClosingInv
<1> QED
  BY <1>1, <1>2

\* What the questions found is so whenever a call writes.
LEMMA ClosingAlways == TerminalSpec => []ClosingInv
<1>1. ClosingInv /\ [TerminalNext]_endvars => ClosingInv'
  <2> SUFFICES ASSUME ClosingInv, [TerminalNext]_endvars PROVE ClosingInv'
    OBVIOUS
  <2>1. CASE UNCHANGED endvars
    BY <2>1 DEF endvars, ClosingInv, ClosingTyped, Found, ClosedOnEvidence
  <2>2. ASSUME NEW k \in Closers, Searches(k) \/ RegistersEntity(k) PROVE ClosingInv'
    <3>1. UNCHANGED <<work, commit>> /\ \E place \in {"search", "register", "done"} : Goes(k, place)
      BY <2>2 DEF Searches, RegistersEntity
    <3> QED
      BY <3>1, Restarts
  <2> QED
    BY <2>1, <2>2, ClaimKeeps, QuestionKeeps, MarkKeeps, OthersKeep DEF TerminalNext
<1> QED
  BY <1>1, ClosingInitially, PTL DEF TerminalSpec

\* A row that was closed rests on what it was closed with, whatever is pushed, merged or
\* written between the questions and the write (mark-umr-terminal, record-completion),
\* for every number of calls and commits.
THEOREM ClosingsRestOnEvidence == TerminalSpec => []ClosedOnEvidence
<1>1. ClosingInv => ClosedOnEvidence
  BY DEF ClosingInv
<1> QED
  BY <1>1, ClosingAlways, PTL

-----------------------------------------------------------------------------
(* PmDecisions *)

\* What a row of the table and a pass over it may hold.
ARow == [kind : Kinds, status : {"none", "open", "completed"} \cup Answers,
         lists : SUBSET Waiting]

ARun == [pc : {"idle", "listed", "read"}, tasks : SUBSET Waiting, open : SUBSET Rows]

DecisionsTyped ==
    /\ row \in [Rows -> ARow]
    /\ overdue \subseteq Waiting /\ broken \subseteq Seams
    /\ flagger \in [Flaggers -> ARun]
    /\ prober.failed \subseteq AllSeams

\* The rows in use are the first ones: AUTOINCREMENT leaves no gap.
UsedTo(k) == \A d \in Rows : row[d].status # "none" <=> d <= k

Dense == \E k \in 0 .. MaxAsked : UsedTo(k)

\* A seam has one open row.
OneOpenPerSeam ==
    \A d, e \in Open(row) : row[d].kind = row[e].kind /\ row[d].kind \in AllSeams => d = e

\* An insert takes a new row only if the rows in use are counted from the first.
DecisionsInv == DecisionsTyped /\ Dense /\ OneOpenPerSeam

\* What a step may do to a row that is there: nothing, rewrite or close it while it is open, or
\* complete an approved proposal.
Settles(d) ==
    \/ row'[d] = row[d]
    \/ row[d].status = "open" /\ row'[d].kind = row[d].kind /\ row'[d].status # "none"
    \/ row[d].status = "approved" /\ row'[d] = [row[d] EXCEPT !.status = "completed"]

\* A row is opened.
Comes(d) == row[d].status = "none" /\ row'[d].status = "open"

\* There is a row to ask for, and the seams are the four.
LEMMA RowsAsked == MaxAsked \in Nat /\ MaxAsked >= 1 /\ Seams \subseteq AllSeams
  BY DecisionsAssumption

\* The number of rows in use is that of the last one.
LEMMA CountedRows ==
  ASSUME NEW k \in 0 .. MaxAsked, UsedTo(k)
  PROVE  UsedRows(row) = 1 .. k /\ Cardinality(UsedRows(row)) = k
<1>1. UsedRows(row) = 1 .. k
  BY RowsAsked DEF UsedTo, UsedRows, Rows
<1>2. Cardinality(1 .. k) = k
  BY RowsAsked, FS_Interval
<1> QED
  BY <1>1, <1>2

\* A statement that only settles rows keeps answers and opens nothing.
LEMMA SettledTable ==
  ASSUME DecisionsInv, row' \in [Rows -> ARow], \A d \in Rows : Settles(d)
  PROVE  AnswerStands /\ Dense' /\ OneOpenPerSeam'
<1>1. \A d \in Rows : row[d].status # "none" <=> row'[d].status # "none"
  BY DEF Settles, DecisionsInv, DecisionsTyped, ARow
<1>2. Dense'
  BY <1>1 DEF DecisionsInv, Dense, UsedTo
<1>3. \A d \in Open(row') : d \in Open(row) /\ row'[d].kind = row[d].kind
  BY DEF Settles, Open, DecisionsInv, DecisionsTyped, ARow
<1>4. OneOpenPerSeam'
  BY <1>3 DEF DecisionsInv, OneOpenPerSeam, Open
<1>5. \A d \in Rows : row[d].status \notin {"none", "open"} =>
         row'[d] = row[d] \/ (row[d].status = "approved" /\ row'[d] = [row[d] EXCEPT !.status = "completed"])
  <2>1. ASSUME NEW d \in Rows, row[d].status \notin {"none", "open"}
        PROVE  row[d].status # "open"
    BY <2>1
  <2> QED
    BY <2>1, Zenon DEF Settles
<1> QED
  BY <1>2, <1>4, <1>5 DEF AnswerStands, OneOpenPerSeam

\* Rows opened after the last one keep answers, if no seam gets a second one.
LEMMA AddedRows ==
  ASSUME DecisionsInv, row' \in [Rows -> ARow],
         NEW k \in 0 .. MaxAsked, UsedTo(k), NEW n \in Nat, k + n <= MaxAsked,
         \A d \in Rows : IF d \in k + 1 .. k + n THEN row'[d].status = "open" ELSE row'[d] = row[d],
         \A d \in k + 1 .. k + n : \A e \in Open(row') :
            row'[d].kind = row'[e].kind /\ row'[d].kind \in AllSeams => d = e
  PROVE  AnswerStands /\ Dense' /\ OneOpenPerSeam'
<1>1. k + n \in 0 .. MaxAsked /\ k + 1 .. k + n \subseteq Rows
  BY RowsAsked DEF Rows
<1>2. \A d \in Rows : row'[d].status # "none" <=> d <= k + n
  BY <1>1, RowsAsked DEF UsedTo, Rows
<1>3. Dense'
  BY <1>1, <1>2 DEF Dense, UsedTo
<1>4. \A d \in Rows : d \notin k + 1 .. k + n => row'[d] = row[d]
  OBVIOUS
<1>5. \A d \in Rows : d \in k + 1 .. k + n => row[d].status = "none"
  BY RowsAsked DEF UsedTo, Rows
<1>6. \A d \in Open(row') : d \in Rows /\ (d \notin k + 1 .. k + n => d \in Open(row))
  BY <1>4 DEF Open
<1>7. OneOpenPerSeam'
  <2> SUFFICES ASSUME NEW d \in Open(row'), NEW e \in Open(row'),
                      row'[d].kind = row'[e].kind, row'[d].kind \in AllSeams
               PROVE  d = e
    BY DEF OneOpenPerSeam
  <2>1. CASE d \in k + 1 .. k + n \/ e \in k + 1 .. k + n
    BY <2>1
  <2>2. CASE d \notin k + 1 .. k + n /\ e \notin k + 1 .. k + n
    BY <1>4, <1>6, <2>2 DEF DecisionsInv, OneOpenPerSeam
  <2> QED
    BY <2>1, <2>2
<1>8. \A d \in Rows : row[d].status \notin {"none", "open"} => row'[d] = row[d]
  BY <1>4, <1>5
<1> QED
  BY <1>3, <1>7, <1>8 DEF AnswerStands, OneOpenPerSeam

\* insert_pm_decision_pending of a row that is about no seam keeps the invariant.
LEMMA InsertedRow ==
  ASSUME DecisionsInv, NEW kind \in Kinds, kind \notin AllSeams, NEW lists \in SUBSET Waiting,
         RoomIn(row, 1), row' = Inserted(row, kind, lists)
  PROVE  row' \in [Rows -> ARow] /\ AnswerStands /\ Dense' /\ OneOpenPerSeam'
<1>1. PICK k \in 0 .. MaxAsked : UsedTo(k)
  BY DEF DecisionsInv, Dense
<1> DEFINE r == [kind |-> kind, status |-> "open", lists |-> lists]
<1>2. r \in ARow /\ r.status = "open" /\ r.kind = kind
  BY DEF ARow
<1>3. k + 1 <= MaxAsked /\ row' = [row EXCEPT ![k + 1] = r]
  BY <1>1, CountedRows DEF RoomIn, Inserted
<1>4. k + 1 \in Rows /\ k + 1 .. k + 1 = {k + 1}
  BY <1>3, RowsAsked DEF Rows
<1> HIDE DEF r
<1>5. row \in [Rows -> ARow]
  BY DEF DecisionsInv, DecisionsTyped
<1>6. /\ row' \in [Rows -> ARow] /\ row'[k + 1] = r
      /\ \A d \in Rows : d # k + 1 => row'[d] = row[d]
  BY <1>2, <1>3, <1>4, <1>5
<1>7. \A d \in Rows : IF d \in k + 1 .. k + 1 THEN row'[d].status = "open" ELSE row'[d] = row[d]
  BY <1>2, <1>4, <1>6
<1>8. \A d \in k + 1 .. k + 1 : \A e \in Open(row') :
            row'[d].kind = row'[e].kind /\ row'[d].kind \in AllSeams => d = e
  BY <1>2, <1>4, <1>6
<1>9. AnswerStands /\ Dense' /\ OneOpenPerSeam'
  BY <1>1, <1>3, <1>6, <1>7, <1>8, AddedRows
<1> QED
  BY <1>6, <1>9

\* A guarded update changes open rows only.
LEMMA Settling ==
  ASSUME NEW r \in ARow, NEW answer \in Answers, NEW lists \in SUBSET Waiting
  PROVE  /\ Resolved(r, answer) \in ARow /\ Updated(r, lists) \in ARow
         /\ Resolved(r, answer) = r \/ (r.status = "open" /\ Resolved(r, answer).status = answer)
         /\ Resolved(r, answer).kind = r.kind
         /\ Updated(r, lists) = r \/ (r.status = "open" /\ Updated(r, lists).status = "open")
         /\ Updated(r, lists).kind = r.kind
  BY DEF Resolved, Updated, ARow

\* resolve_pm_decision_pending, on any row, keeps the invariant.
LEMMA AnswerSettles ==
  ASSUME DecisionsInv, NEW d \in Rows, NEW answer \in Answers,
         row' = [row EXCEPT ![d] = Resolved(@, answer)]
  PROVE  row' \in [Rows -> ARow] /\ AnswerStands /\ Dense' /\ OneOpenPerSeam'
<1>1. row \in [Rows -> ARow] /\ row[d] \in ARow
  BY DEF DecisionsInv, DecisionsTyped
<1>2. /\ Resolved(row[d], answer) \in ARow
      /\ Resolved(row[d], answer) = row[d] \/ (row[d].status = "open" /\ Resolved(row[d], answer).status = answer)
      /\ Resolved(row[d], answer).kind = row[d].kind
  BY <1>1, Settling
<1>3. row' \in [Rows -> ARow] /\ row'[d] = Resolved(row[d], answer) /\ \A e \in Rows : e # d => row'[e] = row[e]
  BY <1>1, <1>2
<1>4. \A e \in Rows : Settles(e)
  BY <1>2, <1>3 DEF Settles, Answers
<1> QED
  BY <1>3, <1>4, SettledTable

\* record_owner_proposal_completion keeps it.
LEMMA CompletionSettles ==
  ASSUME DecisionsInv, NEW d \in Rows, CompletesProposal(d)
  PROVE  row' \in [Rows -> ARow] /\ AnswerStands /\ Dense' /\ OneOpenPerSeam'
<1>1. row \in [Rows -> ARow] /\ row[d] \in ARow /\ row[d].status = "approved"
  BY DEF DecisionsInv, DecisionsTyped, CompletesProposal
<1> DEFINE r == [row[d] EXCEPT !.status = "completed"]
<1>2. row' = [row EXCEPT ![d] = r]
  BY Zenon DEF CompletesProposal
<1>3. r \in ARow
  BY <1>1 DEF ARow
<1> HIDE DEF r
<1>4. row' \in [Rows -> ARow] /\ row'[d] = r /\ \A e \in Rows : e # d => row'[e] = row[e]
  BY <1>1, <1>2, <1>3
<1>5. \A e \in Rows : Settles(e)
  BY <1>1, <1>4 DEF Settles, r
<1> QED
  BY <1>4, <1>5, SettledTable

\* The write of flag_stale_queued_tasks, of rows read before the lock, keeps it.
LEMMA AggregatesSettle ==
  ASSUME DecisionsInv, NEW f \in Flaggers, WritesAggregates(f)
  PROVE  row' \in [Rows -> ARow] /\ AnswerStands /\ Dense' /\ OneOpenPerSeam'
<1>1. /\ row \in [Rows -> ARow] /\ flagger[f] \in ARun
      /\ flagger[f].tasks \subseteq Waiting /\ flagger[f].open \subseteq Rows
  BY DEF DecisionsInv, DecisionsTyped, ARun
<1>2. CASE flagger[f].open = {} /\ flagger[f].tasks # {}
  <2>1. RoomIn(row, 1) /\ row' = Inserted(row, "aggregate", flagger[f].tasks)
    BY <1>2 DEF WritesAggregates
  <2>2. "aggregate" \in Kinds /\ "aggregate" \notin AllSeams
    BY DEF Kinds, AllSeams
  <2> QED
    BY <1>1, <2>1, <2>2, InsertedRow
<1>3. CASE ~(flagger[f].open = {} /\ flagger[f].tasks # {})
  <2> DEFINE F(d) == d \in flagger[f].open /\ \A e \in flagger[f].open : d <= e
             S(d) == IF d \notin flagger[f].open THEN row[d]
                      ELSE IF flagger[f].tasks = {} THEN Resolved(row[d], "resolved")
                      ELSE IF F(d) THEN Updated(row[d], flagger[f].tasks)
                      ELSE Resolved(row[d], "superseded")
  <2>1. row' = [d \in Rows |-> S(d)]
    BY <1>3 DEF WritesAggregates
  <2>2. ASSUME NEW d \in Rows
        PROVE  /\ S(d) \in ARow /\ S(d).kind = row[d].kind
               /\ S(d) = row[d] \/ (row[d].status = "open" /\ S(d).status # "none")
    <3>1. row[d] \in ARow
      BY <1>1
    <3> HIDE DEF F
    <3>2. {"resolved", "superseded"} \subseteq Answers /\ "none" \notin Answers
      BY DEF Answers
    <3> QED
      BY <1>1, <3>1, <3>2, Settling
  <2> HIDE DEF S
  <2>3. row' \in [Rows -> ARow] /\ \A d \in Rows : Settles(d)
    BY <2>1, <2>2 DEF Settles
  <2> QED
    BY <2>3, SettledTable
<1> QED
  BY <1>2, <1>3

\* A place among n that follow k.
LEMMA Between ==
  ASSUME NEW k \in Nat, NEW n \in Nat, NEW c \in Nat, c >= 1, c <= n
  PROVE  k + c \in k + 1 .. k + n
  OBVIOUS

\* record_failures gives every failing seam without an open row one of its own: the places of
\* different seams differ, and together they are the next rows.
LEMMA FailuresAreAdded ==
  ASSUME DecisionsInv, RecordsFailures
  PROVE  row' \in [Rows -> ARow] /\ AnswerStands /\ Dense' /\ OneOpenPerSeam'
<1>1. PICK k \in 0 .. MaxAsked : UsedTo(k)
  BY DEF DecisionsInv, Dense
<1> DEFINE New == {s \in prober.failed : \A d \in Open(row) : row[d].kind # s}
           To(s) == {n \in New : Rank[n] <= Rank[s]}
           P(s) == k + Cardinality(To(s))
           A(d) == {s \in New : P(s) = d}
           n == Cardinality(New)
<1>2. Cardinality(UsedRows(row)) = k /\ k \in Nat
  BY <1>1, RowsAsked, CountedRows
<1>3. /\ k + n <= MaxAsked
      /\ row' = [d \in Rows |-> IF A(d) = {} THEN row[d]
                                ELSE [kind |-> CHOOSE s \in A(d) : TRUE, status |-> "open", lists |-> {}]]
  BY <1>2 DEF RecordsFailures, RoomIn
<1>4. New \subseteq AllSeams
  BY DEF DecisionsInv, DecisionsTyped
<1>5. IsFiniteSet(AllSeams)
  <2>1. AllSeams = {"pickup"} \cup ({"registries"} \cup ({"report"} \cup {"agents"}))
    BY DEF AllSeams
  <2> QED
    BY <2>1, FS_Singleton, FS_Union
<1>6. IsFiniteSet(New) /\ n \in Nat
  BY <1>4, <1>5, FS_Subset, FS_CardinalityType
<1> HIDE DEF New
<1>7. \A s, u \in AllSeams : s # u => Rank[s] < Rank[u] \/ Rank[u] < Rank[s]
  BY DEF Rank, AllSeams
<1>8. \A s \in AllSeams : Rank[s] \in Nat
  BY DEF Rank, AllSeams
<1>9. ASSUME NEW s \in New
      PROVE  /\ IsFiniteSet(To(s)) /\ Cardinality(To(s)) \in Nat
             /\ Cardinality(To(s)) <= n /\ Cardinality(To(s)) >= 1
  <2>1. To(s) \subseteq New /\ s \in To(s)
    BY <1>4, <1>8
  <2>2. IsFiniteSet(To(s)) /\ Cardinality(To(s)) <= n
    BY <1>6, <2>1, FS_Subset
  <2>3. Cardinality(To(s)) \in Nat /\ Cardinality(To(s)) # 0
    BY <2>1, <2>2, FS_CardinalityType, FS_EmptySet
  <2> QED
    BY <2>2, <2>3
<1>10. ASSUME NEW s \in New, NEW u \in New, Rank[s] < Rank[u] PROVE Cardinality(To(s)) < Cardinality(To(u))
  <2>1. To(s) \subseteq To(u) /\ u \in To(u) /\ u \notin To(s)
    BY <1>4, <1>8, <1>10
  <2> QED
    BY <1>9, <2>1, FS_Subset
<1>11. \A s, u \in New : P(s) = P(u) => s = u
  <2>1. ASSUME NEW s \in New, NEW u \in New, s # u PROVE Cardinality(To(s)) # Cardinality(To(u))
    <3>1. Cardinality(To(s)) \in Nat /\ Cardinality(To(u)) \in Nat
      BY <1>9
    <3>2. Rank[s] < Rank[u] \/ Rank[u] < Rank[s]
      BY <1>4, <1>7, <2>1
    <3>3. CASE Rank[s] < Rank[u]
      <4>1. Cardinality(To(s)) < Cardinality(To(u))
        BY <3>3, <1>10
      <4> QED
        BY <3>1, <4>1
    <3>4. CASE Rank[u] < Rank[s]
      <4>1. Cardinality(To(u)) < Cardinality(To(s))
        BY <3>4, <1>10
      <4> QED
        BY <3>1, <4>1
    <3> QED
      BY <3>2, <3>3, <3>4
  <2>2. ASSUME NEW s \in New, NEW u \in New, P(s) = P(u) PROVE s = u
    <3>1. Cardinality(To(s)) \in Nat /\ Cardinality(To(u)) \in Nat
      BY <1>9
    <3>2. Cardinality(To(s)) = Cardinality(To(u))
      BY <3>1, <2>2
    <3> QED
      BY <2>1, <3>2
  <2> QED
    BY <2>2
<1> DEFINE place == [s \in New |-> P(s)]
<1>12. place \in Injection(New, k + 1 .. k + n)
  <2>1. ASSUME NEW s \in New PROVE P(s) \in k + 1 .. k + n
    BY <1>2, <1>6, <1>9, Between
  <2> QED
    BY <1>11, <2>1 DEF Injection, IsInjective
<1>13. \A d \in k + 1 .. k + n : \E s \in New : P(s) = d
  <2>1. IsFiniteSet(k + 1 .. k + n) /\ Cardinality(k + 1 .. k + n) = n
    <3>1. k + 1 \in Int /\ k + n \in Int /\ (k + n) - (k + 1) + 1 = n
      BY <1>2, <1>6
    <3>2. IF k + 1 > k + n THEN n = 0 ELSE TRUE
      BY <1>2, <1>6
    <3> HIDE DEF n
    <3> QED
      BY <3>1, <3>2, FS_Interval
  <2>2. place \in Surjection(New, k + 1 .. k + n)
    BY <1>12, <2>1, FS_Injection
  <2> QED
    BY <2>2 DEF Surjection
<1>14. ASSUME NEW d \in Rows
       PROVE  /\ A(d) = {} <=> d \notin k + 1 .. k + n
              /\ A(d) # {} => (CHOOSE s \in A(d) : TRUE) \in A(d)
  <2>1. ASSUME NEW s \in New PROVE P(s) \in k + 1 .. k + n
    BY <1>2, <1>6, <1>9, Between
  <2> QED
    BY <1>13, <2>1
<1> DEFINE at(d) == CHOOSE s \in A(d) : TRUE
<1>15. \A d \in k + 1 .. k + n : d \in Rows /\ at(d) \in New /\ P(at(d)) = d /\ at(d) \in AllSeams
  <2>1. k + 1 .. k + n \subseteq Rows
    BY <1>3, <1>6, RowsAsked DEF Rows
  <2> QED
    BY <1>4, <1>14, <2>1
<1>16. \A d \in Rows : row'[d] = IF d \in k + 1 .. k + n
                                THEN [kind |-> at(d), status |-> "open", lists |-> {}]
                                ELSE row[d]
  BY <1>3, <1>14
<1>17. \A d \in k + 1 .. k + n : row'[d].status = "open" /\ row'[d].kind = at(d) /\ row'[d] \in ARow
  <2>1. \A s \in AllSeams : [kind |-> s, status |-> "open", lists |-> {}] \in ARow
    BY DEF ARow, Kinds
  <2> HIDE DEF at
  <2>2. ASSUME NEW d \in k + 1 .. k + n
        PROVE  row'[d].status = "open" /\ row'[d].kind = at(d) /\ row'[d] \in ARow
    <3>1. row'[d] = [kind |-> at(d), status |-> "open", lists |-> {}] /\ at(d) \in AllSeams
      BY <1>15, <1>16
    <3> QED
      BY <2>1, <3>1
  <2> QED
    BY <2>2
<1>18. row' \in [Rows -> ARow]
  <2>1. row' = [d \in Rows |-> row'[d]]
    BY <1>3
  <2>2. \A d \in Rows : row'[d] \in ARow
    BY <1>16, <1>17 DEF DecisionsInv, DecisionsTyped
  <2> QED
    BY <2>1, <2>2
<1>19. ASSUME NEW d \in k + 1 .. k + n, NEW e \in Open(row'), row'[d].kind = row'[e].kind PROVE d = e
  <2>1. CASE e \in k + 1 .. k + n
    <3> HIDE DEF P
    <3>1. at(d) = at(e)
      BY <1>17, <1>19, <2>1
    <3> HIDE DEF at
    <3> QED
      BY <1>15, <2>1, <3>1
  <2>2. CASE e \notin k + 1 .. k + n
    <3>1. e \in Open(row) /\ row'[e] = row[e]
      BY <1>16, <2>2 DEF Open
    <3>2. row[e].kind # at(d)
      BY <1>15, <3>1 DEF New
    <3> QED
      BY <1>17, <1>19, <3>1, <3>2
  <2> QED
    BY <2>1, <2>2
<1>20. \A d \in Rows : IF d \in k + 1 .. k + n THEN row'[d].status = "open" ELSE row'[d] = row[d]
  BY <1>16, <1>17
<1> HIDE DEF n
<1> QED
  BY <1>1, <1>3, <1>6, <1>18, <1>19, <1>20, AddedRows

\* An empty table satisfies the invariant.
LEMMA DecisionsBegin == DecisionsInit => DecisionsInv
<1> SUFFICES ASSUME DecisionsInit PROVE DecisionsInv
  OBVIOUS
<1>1. NoRow \in ARow /\ NoRow.status = "none" /\ NotFlagging \in ARun
  BY DEF NoRow, NotFlagging, ARow, ARun, Kinds
<1>2. DecisionsTyped
  <2>1. row = [d \in Rows |-> NoRow] /\ flagger = [f \in Flaggers |-> NotFlagging]
        /\ overdue = {} /\ broken = {} /\ prober = NotProbing
    BY DEF DecisionsInit
  <2>2. prober.failed = {}
    BY <2>1 DEF NotProbing
  <2> HIDE DEF NoRow, NotFlagging
  <2> QED
    BY <1>1, <2>1, <2>2 DEF DecisionsTyped
<1>3. \A d \in Rows : row[d].status = "none"
  BY <1>1 DEF DecisionsInit
<1>4. UsedTo(0) /\ 0 \in 0 .. MaxAsked
  BY <1>3, RowsAsked DEF UsedTo, Rows
<1>5. Open(row) = {}
  BY <1>3 DEF Open
<1> QED
  BY <1>2, <1>4, <1>5 DEF DecisionsInv, Dense, OneOpenPerSeam

\* A step that leaves the table alone.
LEMMA TableUntouched ==
  ASSUME DecisionsInv, row' = row
  PROVE  AnswerStands /\ Dense' /\ OneOpenPerSeam' /\ row' \in [Rows -> ARow]
<1>1. row \in [Rows -> ARow]
  BY DEF DecisionsInv, DecisionsTyped
<1> QED
  BY <1>1, SettledTable DEF Settles

\* Every step keeps the invariant and lets answers stand.
LEMMA DecisionsStep ==
  ASSUME DecisionsInv, [DecisionsNext]_decvars
  PROVE  DecisionsInv' /\ (AnswerStands \/ UNCHANGED decvars)
<1> USE DEF DecisionsTyped, DecisionsInv
<1>1. CASE \/ AsksDecision \/ AsksOwner
           \/ \E d \in Rows, answer \in Answers : DecidesProposal(d, answer)
           \/ \E d \in Rows : AnswersDecision(d) \/ CompletesProposal(d)
  <2>1. row' \in [Rows -> ARow] /\ AnswerStands /\ Dense' /\ OneOpenPerSeam'
    <3>1. CASE AsksDecision
      <4>1. "pm_decision" \in Kinds /\ "pm_decision" \notin AllSeams
        BY DEF Kinds, AllSeams
      <4> QED
        BY <3>1, <4>1, InsertedRow DEF AsksDecision
    <3>2. CASE AsksOwner
      <4>1. "owner_proposal" \in Kinds /\ "owner_proposal" \notin AllSeams
        BY DEF Kinds, AllSeams
      <4> QED
        BY <3>2, <4>1, InsertedRow DEF AsksOwner
    <3>3. ASSUME NEW d \in Rows, NEW answer \in Answers, DecidesProposal(d, answer)
          PROVE  row' \in [Rows -> ARow] /\ AnswerStands /\ Dense' /\ OneOpenPerSeam'
      BY <3>3, AnswerSettles DEF DecidesProposal
    <3>4. ASSUME NEW d \in Rows, AnswersDecision(d)
          PROVE  row' \in [Rows -> ARow] /\ AnswerStands /\ Dense' /\ OneOpenPerSeam'
      <4>1. "resolved" \in Answers
        BY DEF Answers
      <4> QED
        BY <3>4, <4>1, AnswerSettles DEF AnswersDecision
    <3> QED
      BY <1>1, <3>1, <3>2, <3>3, <3>4, CompletionSettles
  <2>2. UNCHANGED <<overdue, broken, flagger, prober>>
    BY <1>1 DEF AsksDecision, AsksOwner, DecidesProposal, AnswersDecision, CompletesProposal
  <2> QED
    BY <2>1, <2>2
<1>2. CASE \E f \in Flaggers : WritesAggregates(f)
  <2> PICK f \in Flaggers : WritesAggregates(f)
    BY <1>2
  <2>1. row' \in [Rows -> ARow] /\ AnswerStands /\ Dense' /\ OneOpenPerSeam'
    BY AggregatesSettle
  <2>2. NotFlagging \in ARun
    BY DEF NotFlagging, ARun
  <2>3. flagger' = [flagger EXCEPT ![f] = NotFlagging] /\ UNCHANGED <<overdue, broken, prober>>
    BY DEF WritesAggregates
  <2> HIDE DEF NotFlagging
  <2> QED
    BY <2>1, <2>2, <2>3
<1>3. CASE RecordsFailures
  <2>1. row' \in [Rows -> ARow] /\ AnswerStands /\ Dense' /\ OneOpenPerSeam'
    BY <1>3, FailuresAreAdded
  <2>2. prober'.failed = {} /\ UNCHANGED <<overdue, broken, flagger>>
    BY <1>3 DEF RecordsFailures, NotProbing
  <2> QED
    BY <2>1, <2>2
<1>4. CASE \E f \in Flaggers : ListsStale(f) \/ ReadsAggregates(f) \/ FlaggerKilled(f)
  <2> PICK f \in Flaggers : ListsStale(f) \/ ReadsAggregates(f) \/ FlaggerKilled(f)
    BY <1>4
  <2>1. row' = row /\ UNCHANGED <<overdue, broken, prober>>
    BY DEF ListsStale, ReadsAggregates, FlaggerKilled
  <2>2. flagger[f] \in ARun
    OBVIOUS
  <2>3. CASE ListsStale(f)
    <3>1. [flagger[f] EXCEPT !.pc = "listed", !.tasks = overdue] \in ARun
      BY <2>2 DEF ARun
    <3> QED
      BY <2>1, <2>3, <3>1, TableUntouched DEF ListsStale
  <2>4. CASE ReadsAggregates(f)
    <3> DEFINE Agg == {d \in Open(row) : row[d].kind = "aggregate"}
               r == [flagger[f] EXCEPT !.pc = "read", !.open = Agg]
    <3>1. Agg \subseteq Rows
      BY DEF Open
    <3>2. flagger' = [flagger EXCEPT ![f] = r]
      BY <2>4, Zenon DEF ReadsAggregates
    <3> HIDE DEF Agg
    <3>3. r \in ARun
      BY <2>2, <3>1 DEF ARun
    <3> HIDE DEF r
    <3> QED
      BY <2>1, <3>2, <3>3, TableUntouched
  <2>5. CASE FlaggerKilled(f)
    <3>1. NotFlagging \in ARun
      BY DEF NotFlagging, ARun
    <3> HIDE DEF NotFlagging
    <3> QED
      BY <2>1, <2>5, <3>1, TableUntouched DEF FlaggerKilled
  <2> QED
    BY <2>3, <2>4, <2>5
<1>5. CASE ProbingBegins \/ ProbesPickup \/ ProbesRegistries \/ ProbesReport \/ ProbesAgents
  <2>1. UNCHANGED <<row, overdue, broken, flagger>>
    BY <1>5 DEF ProbingBegins, ProbesPickup, ProbesRegistries, ProbesReport, ProbesAgents, Probed
  <2>2. prober'.failed = {} \/ \E s \in AllSeams : prober'.failed = prober.failed \cup ({s} \cap broken)
    BY <1>5 DEF ProbingBegins, ProbesPickup, ProbesRegistries, ProbesReport, ProbesAgents, Probed, AllSeams
  <2>3. prober'.failed \subseteq AllSeams
    BY <2>2, RowsAsked
  <2> QED
    BY <2>1, <2>3, TableUntouched
<1>6. CASE Turns
  <2>1. /\ UNCHANGED <<row, flagger, prober>>
        /\ overdue' \in SUBSET Waiting /\ broken' \in SUBSET Seams
    BY <1>6 DEF Turns
  <2> QED
    BY <2>1, TableUntouched
<1>7. CASE UNCHANGED decvars
  BY <1>7, TableUntouched DEF decvars
<1> QED
  BY <1>1, <1>2, <1>3, <1>4, <1>5, <1>6, <1>7 DEF DecisionsNext

\* The rows in use have no gap and each seam at most one open row, for every number of rows,
\* passes and tasks (pm_decisions_pending).
THEOREM DecisionsHold == DecisionsSpec => []DecisionsInv
<1>1. DecisionsInv /\ [DecisionsNext]_decvars => DecisionsInv'
  BY DecisionsStep
<1> QED
  BY DecisionsBegin, <1>1, PTL DEF DecisionsSpec

\* An answer stands, whatever passes read before it, and a seam that stays broken is asked
\* about once (flag_stale_queued_tasks, record_failures, resolve_pm_decision_pending).
THEOREM AnswersAreKept == DecisionsSpec => AnswersStand
<1>1. DecisionsInv /\ [DecisionsNext]_decvars => [AnswerStands]_decvars
  BY DecisionsStep
<1> QED
  BY DecisionsHold, <1>1, PTL DEF DecisionsSpec, AnswersStand

-----------------------------------------------------------------------------
(* Types of the other components *)

\* The order of the queue: rows are added, taken out and rewritten one at a time.
LEMMA OrderTyped == OrderInit /\ [][OrderNext]_qovars => []OrderTypeOK
<1> USE OrderAssumption
<1>1. OrderInit => OrderTypeOK
  <2>1. <<>> \in Seq(WaitingRow) /\ Len(<<>>) = 0
    BY EmptySeq
  <2>2. 0 <= MaxWaiting /\ 0 \in 0 .. MaxMeddling
    OBVIOUS
  <2> QED  BY <2>1, <2>2, Zenon DEF OrderInit, OrderTypeOK
<1>2. OrderTypeOK /\ [OrderNext]_qovars => OrderTypeOK'
  <2> SUFFICES ASSUME OrderTypeOK, [OrderNext]_qovars PROVE OrderTypeOK'
    OBVIOUS
  <2>1. waiting \in Seq(WaitingRow) /\ Len(waiting) <= MaxWaiting /\ Len(waiting) \in Nat
        /\ DOMAIN waiting = 1 .. Len(waiting)
    BY LenProperties DEF OrderTypeOK
  <2>2. ASSUME NEW t \in Tiers, NEW w \in BOOLEAN, Submitted(t, w) PROVE OrderTypeOK'
    <3> DEFINE entry == [tier |-> t, promotions |-> 0, overridden |-> FALSE, watched |-> w]
    <3>1. entry \in WaitingRow
      BY DEF WaitingRow, Tiers
    <3>2. waiting' = Append(waiting, entry) /\ Len(waiting) < MaxWaiting
      BY <2>2 DEF Submitted
    <3> HIDE DEF entry
    <3>3. waiting' \in Seq(WaitingRow) /\ Len(waiting') = Len(waiting) + 1
      BY <2>1, <3>1, <3>2
    <3> QED  BY <2>1, <2>2, <3>2, <3>3 DEF OrderTypeOK, Submitted
  <2>3. ASSUME NEW i \in DOMAIN waiting, NEW entry \in WaitingRow,
               waiting' = [waiting EXCEPT ![i] = entry]
        PROVE  waiting' \in Seq(WaitingRow) /\ Len(waiting') <= MaxWaiting
    BY <2>1, <2>3, ExceptSeq
  <2>4. ASSUME NEW i \in DOMAIN waiting, Promoted(i) PROVE OrderTypeOK'
    <3>1. waiting[i] \in WaitingRow
      BY <2>1, ElementOfSeq
    <3> DEFINE entry == [waiting[i] EXCEPT !.promotions = @ + 1]
    <3>2. entry \in WaitingRow
      BY <2>4, <3>1 DEF Promoted, WaitingRow, Tiers
    <3>3. waiting' = [waiting EXCEPT ![i] = entry]
      BY <2>4 DEF Promoted
    <3> HIDE DEF entry
    <3> QED  BY <2>3, <2>4, <3>2, <3>3 DEF OrderTypeOK, Promoted
  <2>5. ASSUME NEW i \in DOMAIN waiting, Overridden(i) PROVE OrderTypeOK'
    <3>1. waiting[i] \in WaitingRow
      BY <2>1, ElementOfSeq
    <3> DEFINE entry == [waiting[i] EXCEPT !.overridden = TRUE]
    <3>2. entry \in WaitingRow
      BY <3>1 DEF WaitingRow
    <3>3. waiting' = [waiting EXCEPT ![i] = entry]
      BY <2>5 DEF Overridden
    <3> HIDE DEF entry
    <3>4. waiting' \in Seq(WaitingRow) /\ Len(waiting') <= MaxWaiting
      BY <2>3, <3>2, <3>3
    <3>5. meddling' \in 0 .. MaxMeddling /\ UNCHANGED <<slotFree, submitted>>
      BY <2>5 DEF OrderTypeOK, Overridden, Meddled
    <3> QED  BY <3>4, <3>5 DEF OrderTypeOK
  <2>6. ASSUME NEW i \in DOMAIN waiting, NEW t \in Tiers, SetPriority(i, t) PROVE OrderTypeOK'
    <3>1. waiting[i] \in WaitingRow
      BY <2>1, ElementOfSeq
    <3> DEFINE entry == [waiting[i] EXCEPT !.tier = t]
    <3>2. entry \in WaitingRow
      BY <3>1 DEF WaitingRow
    <3>3. waiting' = [waiting EXCEPT ![i] = entry]
      BY <2>6 DEF SetPriority
    <3> HIDE DEF entry
    <3> QED  BY <2>3, <2>6, <3>2, <3>3, SMTT(30) DEF OrderTypeOK, SetPriority, Meddled
  <2>7. ASSUME NEW i \in DOMAIN waiting, waiting' = RemoveAt(waiting, i)
        PROVE  waiting' \in Seq(WaitingRow) /\ Len(waiting') <= MaxWaiting
    <3> DEFINE left == SubSeq(waiting, 1, i - 1)
               right == SubSeq(waiting, i + 1, Len(waiting))
    <3>1. \A j \in 1 .. Len(waiting) : waiting[j] \in WaitingRow
      BY <2>1, ElementOfSeq
    <3>2. left \in Seq(WaitingRow) /\ Len(left) = i - 1
      <4>1. /\ left \in Seq(WaitingRow)
            /\ Len(left) = IF 1 <= i - 1 THEN (i - 1) - 1 + 1 ELSE 0
        BY <2>1, <3>1, SubSeqProperties
      <4> QED  BY <2>1, <4>1
    <3>3. right \in Seq(WaitingRow) /\ Len(right) = Len(waiting) - i
      <4>1. /\ right \in Seq(WaitingRow)
            /\ Len(right) = IF i + 1 <= Len(waiting) THEN Len(waiting) - (i + 1) + 1 ELSE 0
        BY <2>1, <3>1, SubSeqProperties
      <4> QED  BY <2>1, <4>1
    <3>4. waiting' = left \o right
      BY <2>7 DEF RemoveAt
    <3> HIDE DEF left, right
    <3>5. waiting' \in Seq(WaitingRow) /\ Len(waiting') = Len(left) + Len(right)
      BY <3>2, <3>3, <3>4, ConcatProperties
    <3> QED  BY <2>1, <3>2, <3>3, <3>5
  <2>8. ASSUME NEW i \in DOMAIN waiting, Deleted(i) \/ Dispatches(i) PROVE OrderTypeOK'
    BY <2>7, <2>8 DEF OrderTypeOK, Deleted, Dispatches, Meddled
  <2>9. ASSUME NEW t \in Tiers, QueuedAgain(t) PROVE OrderTypeOK'
    <3> DEFINE entry == [tier |-> t, promotions |-> LowestTier, overridden |-> FALSE, watched |-> FALSE]
    <3>1. entry \in WaitingRow
      BY DEF WaitingRow, Tiers
    <3>2. waiting' = <<entry>> \o waiting /\ Len(waiting) < MaxWaiting
      BY <2>9 DEF QueuedAgain
    <3> HIDE DEF entry
    <3>3. <<entry>> \in Seq(WaitingRow) /\ Len(<<entry>>) = 1
      BY <3>1
    <3>4. waiting' \in Seq(WaitingRow) /\ Len(waiting') = 1 + Len(waiting)
      BY <2>1, <3>2, <3>3, ConcatProperties
    <3> QED  BY <2>1, <2>9, <3>2, <3>4 DEF OrderTypeOK, QueuedAgain, Meddled
  <2>10. CASE SlotTaken \/ SlotFreed \/ UNCHANGED qovars
    BY <2>10 DEF OrderTypeOK, SlotTaken, SlotFreed, qovars
  <2> QED
    BY <2>2, <2>4, <2>5, <2>6, <2>8, <2>9, <2>10 DEF OrderNext, DispatchesAny
<1> QED  BY <1>1, <1>2, PTL

\* Checks before a spawn: times are counted to the bound.
LEMMA EvidenceTyped == EvidenceSpec => []EvidenceTypeOK
<1> USE EvidenceAssumption
<1> DEFINE Full == [status : Live \cup {"none", "rejected", "ended"}, why : Whys,
                    born : 0 .. MaxLinked, made : BOOLEAN]
<1>0. \A r \in Full : r.status \in Live \cup {"none", "rejected", "ended"} /\ r.why \in Whys
                     /\ r.born \in 0 .. MaxLinked /\ r.made \in BOOLEAN
  OBVIOUS
<1>1. NoTry \in Full /\ Resting \in [at : Checks \cup {"idle"}, row : Tries]
  BY DEF NoTry, Live, Whys, Resting, Tries
<1>2. EvidenceInit => EvidenceTypeOK
  <2> SUFFICES ASSUME EvidenceInit PROVE EvidenceTypeOK
    OBVIOUS
  <2> HIDE DEF Full
  <2>1. try \in [Tries -> Full] /\ linked \in [Tries -> 0 .. MaxLinked]
        /\ pull \in [Tries -> {"none", "docs", "code"}]
    BY <1>1 DEF EvidenceInit
  <2> USE DEF Full
  <2>2. {elsewhere, now} \subseteq 0 .. MaxLinked /\ worked \in 0 .. MaxWorked
    BY DEF EvidenceInit
  <2> QED  BY <1>1, <2>1, <2>2 DEF EvidenceInit, EvidenceTypeOK
<1>3. EvidenceTypeOK /\ [EvidenceNext]_evvars => EvidenceTypeOK'
  <2> SUFFICES ASSUME EvidenceTypeOK, [EvidenceNext]_evvars PROVE EvidenceTypeOK'
    OBVIOUS
  <2>0. /\ try \in [Tries -> Full] /\ linked \in [Tries -> 0 .. MaxLinked]
        /\ elsewhere \in 0 .. MaxLinked /\ now \in 0 .. MaxLinked
    BY DEF EvidenceTypeOK
  <2>1. ASSUME UNCHANGED <<ordered, target, successor, named, worked>>, opened' \subseteq Tries,
               pull' \in [Tries -> {"none", "docs", "code"}],
               try' \in [Tries -> Full], linked' \in [Tries -> 0 .. MaxLinked],
               elsewhere' \in 0 .. MaxLinked, now' \in 0 .. MaxLinked,
               asking' \in [at : Checks \cup {"idle"}, row : Tries]
        PROVE  EvidenceTypeOK'
    BY <2>1 DEF EvidenceTypeOK
  <2>2. ASSUME UNCHANGED world, try' \in [Tries -> Full], linked' \in [Tries -> 0 .. MaxLinked],
               elsewhere' \in 0 .. MaxLinked, now' \in 0 .. MaxLinked,
               asking' \in [at : Checks \cup {"idle"}, row : Tries]
        PROVE  EvidenceTypeOK'
    BY <2>1, <2>2 DEF EvidenceTypeOK, world
  <2>3. ASSUME NEW why \in Whys, SubmitRefused(why) PROVE EvidenceTypeOK'
    <3> DEFINE new == [NoTry EXCEPT !.status = "rejected", !.why = why, !.born = now + 1]
    <3>1. new \in Full
      <4>1. now + 1 \in 0 .. MaxLinked
        BY <2>0, <2>3 DEF SubmitRefused
      <4> QED  BY <4>1 DEF NoTry, Live
    <3>2. try' = [try EXCEPT ![NextTry] = new]
      BY <2>3 DEF SubmitRefused
    <3> HIDE DEF new
    <3>3. try' \in [Tries -> Full]
      BY <2>0, <3>1, <3>2
    <3> QED  BY <2>0, <2>2, <2>3, <3>3 DEF SubmitRefused, EvidenceTypeOK
  <2>4. ASSUME NEW t \in Tries, NEW c \in BOOLEAN, SubmitAccepted(t, c) PROVE EvidenceTypeOK'
    <3> DEFINE at == IF t = NextTry THEN now + 1 ELSE try[t].born
               new == [try[t] EXCEPT !.status = "queued", !.why = "none", !.born = at]
    <3>1. try[t] \in Full /\ at \in 0 .. MaxLinked
      BY <2>0, <2>4 DEF SubmitAccepted
    <3>2. try' = [try EXCEPT ![t] = new]
      BY <2>4 DEF SubmitAccepted
    <3> HIDE DEF at
    <3>3. new \in Full
      BY <3>1 DEF Live, Whys
    <3> HIDE DEF new
    <3>4. try' \in [Tries -> Full]
      BY <2>0, <3>2, <3>3
    <3>5. linked' \in [Tries -> 0 .. MaxLinked] /\ now' \in 0 .. MaxLinked
      BY <2>0, <2>4 DEF SubmitAccepted, Registered
    <3> QED  BY <2>0, <2>2, <2>4, <3>4, <3>5 DEF SubmitAccepted, EvidenceTypeOK
  <2>5. ASSUME NEW check, NEW why \in Whys, Refuses(check, why) PROVE EvidenceTypeOK'
    <3> DEFINE r == asking.row
               new == [try[r] EXCEPT !.status = "rejected", !.why = why]
    <3>1. r \in Tries
      BY DEF EvidenceTypeOK
    <3>2. new \in Full
      BY <2>0, <3>1
    <3>3. try' = [try EXCEPT ![r] = new]
      BY <2>5 DEF Refuses
    <3> HIDE DEF new
    <3>4. try' \in [Tries -> Full]
      BY <2>0, <3>1, <3>2, <3>3
    <3> QED  BY <1>1, <2>0, <2>2, <2>5, <3>4 DEF Refuses
  <2>6. ASSUME NEW check, NEW next \in Checks, Passes(check, next) PROVE EvidenceTypeOK'
    <3>1. asking' \in [at : Checks \cup {"idle"}, row : Tries]
      BY <2>6 DEF Passes, EvidenceTypeOK
    <3> QED  BY <2>0, <2>2, <2>6, <3>1 DEF Passes
  <2>7. CASE StopWork \/ TargetResolved \/ Superseded \/ DuplicatePr \/ ReuseVerdict
    <3>1. {"stopped", "target", "superseded", "branch", "verdict"} \subseteq Whys
          /\ {"target", "closed", "ocid", "branch", "verdict", "spawn"} \subseteq Checks
      BY DEF Whys, Checks
    <3> QED
      BY <2>5, <2>6, <2>7, <3>1 DEF StopWork, TargetResolved, Superseded, DuplicatePr, ReuseVerdict
  <2>8. ASSUME NEW t \in Tries, NEW s \in {"running", "ended", "queued"}, NEW b \in BOOLEAN
        PROVE  /\ [try EXCEPT ![t].status = s] \in [Tries -> Full]
               /\ [try EXCEPT ![t] = [@ EXCEPT !.status = s, !.made = b]] \in [Tries -> Full]
    <3> DEFINE one == [try[t] EXCEPT !.status = s]
               two == [try[t] EXCEPT !.status = s, !.made = b]
    <3>1. one \in Full /\ two \in Full
      BY <2>0 DEF Live
    <3> QED  BY <2>0, <3>1
  <2>9. CASE Spawns
    <3>1. asking.row \in Tries
      BY DEF EvidenceTypeOK
    <3>2. try' \in [Tries -> Full]
      <4> DEFINE t == asking.row
      <4>1. \/ try' = [try EXCEPT ![t] = [@ EXCEPT !.status = "running", !.made = TRUE]]
            \/ try' = [try EXCEPT ![t].status = "ended"]
        BY <2>9 DEF Spawns
      <4> HIDE DEF t, Full
      <4>2. t \in Tries
        BY <3>1 DEF t
      <4>3. "running" \in {"running", "ended", "queued"} /\ "ended" \in {"running", "ended", "queued"}
        OBVIOUS
      <4>4. [try EXCEPT ![t] = [@ EXCEPT !.status = "running", !.made = TRUE]] \in [Tries -> Full]
        <5>1. TRUE \in BOOLEAN
          OBVIOUS
        <5> QED  BY <2>8, <4>2, <4>3, <5>1, ZenonT(30)
      <4>5. [try EXCEPT ![t].status = "ended"] \in [Tries -> Full]
        <5>1. TRUE \in BOOLEAN
          OBVIOUS
        <5> QED  BY <2>8, <4>2, <4>3, <5>1, ZenonT(30)
      <4> QED  BY <4>1, <4>4, <4>5
    <3>3. pull' \in [Tries -> {"none", "docs", "code"}]
      BY <2>9 DEF Spawns, EvidenceTypeOK
    <3>4. opened' \subseteq Tries
      BY <2>9 DEF Spawns, EvidenceTypeOK
    <3> QED
      BY <1>1, <2>0, <2>1, <2>9, <3>2, <3>3, <3>4 DEF Spawns
  <2>10. ASSUME NEW t \in Tries, Picks(t) PROVE EvidenceTypeOK'
    <3>1. asking' \in [at : Checks \cup {"idle"}, row : Tries]
      BY <2>10 DEF Picks, Checks
    <3> QED  BY <2>0, <2>2, <2>10, <3>1 DEF Picks
  <2>11. ASSUME NEW t \in Tries, Ended(t) PROVE EvidenceTypeOK'
    <3>1. try' \in [Tries -> Full]
      <4>1. PICK s \in {"ended", "queued"} : try' = [try EXCEPT ![t].status = s]
        BY <2>11 DEF Ended
      <4> HIDE DEF Full
      <4> QED  BY <2>8, <4>1, ZenonT(30)
    <3> QED  BY <2>0, <2>2, <2>11, <3>1 DEF Ended, EvidenceTypeOK
  <2>12. ASSUME NEW t \in Tries, NEW about \in {"docs", "code"}, OpensPull(t, about)
         PROVE  EvidenceTypeOK'
    BY <2>12 DEF OpensPull, EvidenceTypeOK
  <2>13. CASE LinkedElsewhere
    BY <2>0, <2>2, <2>13 DEF LinkedElsewhere, EvidenceTypeOK
  <2>14. CASE WorldMoves
    <3>1. /\ ordered' \in BOOLEAN
          /\ target' \in {"open", "closed", "merged"} /\ successor' \in {"none", "named", "merged"}
          /\ named' \in {"none", "docs", "code"}
      BY <2>14 DEF WorldMoves, EvidenceTypeOK
    <3>2. worked' \in 0 .. MaxWorked
      BY <2>14 DEF WorldMoves, EvidenceTypeOK
    <3>3. UNCHANGED <<try, linked, elsewhere, now, pull, opened, asking>>
      BY <2>14 DEF WorldMoves
    <3> HIDE DEF Full
    <3> QED  BY <3>1, <3>2, <3>3 DEF EvidenceTypeOK
  <2>15. CASE UNCHANGED evvars
    BY <2>0, <2>2, <2>15 DEF evvars, world, EvidenceTypeOK
  <2> HIDE DEF Full
  <2>16. CASE SubmitStopped \/ SubmitActive
    <3>1. {"stopped", "active"} \subseteq Whys
      BY DEF Whys
    <3> QED  BY <2>3, <2>16, <3>1 DEF SubmitStopped, SubmitActive
  <2> QED
    BY <2>4, <2>7, <2>9, <2>10, <2>11, <2>12, <2>13, <2>14, <2>15, <2>16 DEF EvidenceNext
<1> QED  BY <1>2, <1>3, PTL DEF EvidenceSpec

\* Closing of rows: beside what ClosingTyped says.
LEMMA TerminalTyped == TerminalSpec => []TerminalTypeOK
<1> USE TerminalAssumption
<1> DEFINE RowTyped == /\ work \in [status : Doing \cup Ends, sha : Evidence, file : BOOLEAN]
                       /\ {onDisk, docsOnly} \subseteq BOOLEAN
                       /\ entity \in Closers \cup {"none"} /\ moves \in 0 .. MaxMoves
<1>1. TerminalInit => RowTyped
  BY DEF TerminalInit, Doing, Ends, Evidence
<1>2. ClosingInv /\ RowTyped /\ [TerminalNext]_endvars => RowTyped'
  <2> SUFFICES ASSUME ClosingInv, RowTyped, [TerminalNext]_endvars PROVE RowTyped'
    OBVIOUS
  <2>1. ASSUME NEW k \in Closers,
               \/ Claims(k) \/ Briefs(k) \/ Searches(k) \/ RegistersEntity(k)
               \/ ChecksFile(k) \/ ChecksCommit(k) \/ ChecksAncestor(k)
        PROVE  RowTyped'
    BY <2>1 DEF Claims, Briefs, Searches, RegistersEntity, ChecksFile, ChecksCommit, ChecksAncestor
  <2>2. ASSUME NEW k \in Closers, Marks(k) PROVE RowTyped'
    <3>1. closer[k] \in ACloser
      BY DEF ClosingInv, ClosingTyped
    <3>2. work' \in [status : Doing \cup Ends, sha : Evidence, file : BOOLEAN]
      BY <2>2, <3>1 DEF Marks, ACloser
    <3> QED  BY <2>2, <3>2 DEF Marks
  <2>3. CASE MarksDispatched \/ ResetsToQueued \/ WorkMoves
    <3>1. work' \in [status : Doing \cup Ends, sha : Evidence, file : BOOLEAN]
      BY <2>3 DEF MarksDispatched, ResetsToQueued, WorkMoves, Doing
    <3>2. onDisk' \in BOOLEAN /\ docsOnly' \in BOOLEAN
      BY <2>3 DEF MarksDispatched, ResetsToQueued, WorkMoves
    <3>3. moves' \in 0 .. MaxMoves
      BY <2>3 DEF MarksDispatched, ResetsToQueued, WorkMoves, Moves
    <3>4. entity' = entity
      BY <2>3 DEF MarksDispatched, ResetsToQueued, WorkMoves
    <3> QED  BY <3>1, <3>2, <3>3, <3>4
  <2>4. CASE UNCHANGED endvars
    BY <2>4 DEF endvars
  <2> QED  BY <2>1, <2>2, <2>3, <2>4 DEF TerminalNext
<1>3. ClosingInv /\ RowTyped => TerminalTypeOK
  BY DEF ClosingInv, ClosingTyped, ACloser, TerminalTypeOK
<1>4. TerminalSpec => []ClosingInv
  BY ClosingAlways
<1> QED  BY <1>1, <1>2, <1>3, <1>4, PTL DEF TerminalSpec

\* Decisions: beside what DecisionsTyped says.
LEMMA DecisionsWellTyped == DecisionsSpec => []DecisionsTypeOK
<1> USE DecisionsAssumption
<1> DEFINE ProberTyped == /\ turns \in 0 .. MaxTurns
                          /\ prober \in [at : {"idle", "record"} \cup AllSeams, failed : SUBSET AllSeams]
<1>1. DecisionsInit => ProberTyped
  BY DEF DecisionsInit, NotProbing
<1>2. DecisionsInv /\ ProberTyped /\ [DecisionsNext]_decvars => ProberTyped'
  <2> SUFFICES ASSUME DecisionsInv, ProberTyped, [DecisionsNext]_decvars PROVE ProberTyped'
    OBVIOUS
  <2>1. CASE UNCHANGED <<turns, prober>>
    BY <2>1
  <2>2. CASE Turns
    BY <2>2 DEF Turns
  <2>3. ASSUME NEW seam, NEW next \in {"record"} \cup AllSeams, Probed(seam, next) PROVE ProberTyped'
    <3>1. broken \subseteq AllSeams
      BY DEF DecisionsInv, DecisionsTyped
    <3> QED  BY <2>3, <3>1 DEF Probed
  <2>4. CASE ProbingBegins \/ RecordsFailures
    BY <2>4 DEF ProbingBegins, RecordsFailures, NotProbing, AllSeams
  <2>5. CASE ProbesPickup \/ ProbesRegistries \/ ProbesReport \/ ProbesAgents
    <3>1. {"registries", "report", "agents"} \subseteq AllSeams
      BY DEF AllSeams
    <3> QED  BY <2>3, <2>5, <3>1 DEF ProbesPickup, ProbesRegistries, ProbesReport, ProbesAgents
  <2>6. CASE \/ AsksDecision \/ AsksOwner
             \/ \E d \in Rows, answer \in Answers : DecidesProposal(d, answer)
             \/ \E d \in Rows : AnswersDecision(d) \/ CompletesProposal(d)
             \/ \E f \in Flaggers :
                  ListsStale(f) \/ ReadsAggregates(f) \/ WritesAggregates(f) \/ FlaggerKilled(f)
             \/ UNCHANGED decvars
    <3>1. UNCHANGED <<turns, prober>>
      BY <2>6 DEF AsksDecision, AsksOwner, DecidesProposal, AnswersDecision, CompletesProposal,
                  ListsStale, ReadsAggregates, WritesAggregates, FlaggerKilled, decvars
    <3> QED  BY <2>1, <3>1
  <2> QED  BY <2>2, <2>4, <2>5, <2>6 DEF DecisionsNext
<1>3. DecisionsInv /\ ProberTyped => DecisionsTypeOK
  BY DEF DecisionsInv, DecisionsTyped, ARow, ARun, DecisionsTypeOK
<1> QED  BY <1>1, <1>2, <1>3, DecisionsHold, PTL DEF DecisionsSpec

-----------------------------------------------------------------------------
(* The scenes of MCDispatch: in each of them one component moves and the   *)
(* others stay, so what a component keeps holds of the whole.              *)

\* A behaviour of the whole is one of the gate.
LEMMA DispatchIsGate == DispatchSpec => Spec
<1>1. DispatchInit => Init
  BY DEF DispatchInit
<1>2. [DispatchNext]_dispatchvars => [Next]_vars
  BY DEF DispatchNext, dispatchvars
<1> QED
  BY <1>1, <1>2, PTL DEF DispatchSpec, Spec

\* A behaviour of the whole is one of the checks before a spawn.
LEMMA DispatchIsEvidence == DispatchSpec => EvidenceSpec
<1>1. DispatchInit => EvidenceInit
  BY DEF DispatchInit
<1>2. [DispatchNext]_dispatchvars => [EvidenceNext]_evvars
  BY DEF DispatchNext, dispatchvars
<1> QED
  BY <1>1, <1>2, PTL DEF DispatchSpec, EvidenceSpec

\* A behaviour of the whole is one of the closing of rows.
LEMMA DispatchIsClosing == DispatchSpec => TerminalSpec
<1>1. DispatchInit => TerminalInit
  BY DEF DispatchInit
<1>2. [DispatchNext]_dispatchvars => [TerminalNext]_endvars
  BY DEF DispatchNext, dispatchvars
<1> QED
  BY <1>1, <1>2, PTL DEF DispatchSpec, TerminalSpec

\* A behaviour of the whole is one of the decisions.
LEMMA DispatchIsDecisions == DispatchSpec => DecisionsSpec
<1>1. DispatchInit => DecisionsInit
  BY DEF DispatchInit
<1>2. [DispatchNext]_dispatchvars => [DecisionsNext]_decvars
  BY DEF DispatchNext, dispatchvars
<1> QED
  BY <1>1, <1>2, PTL DEF DispatchSpec, DecisionsSpec

\* A behaviour of the whole is one of the queue.
LEMMA DispatchIsOrder == DispatchSpec => OrderInit /\ [][OrderNext]_qovars
<1>1. DispatchInit => OrderInit
  BY DEF DispatchInit
<1>2. [DispatchNext]_dispatchvars => [OrderNext]_qovars
  BY DEF DispatchNext, dispatchvars
<1> QED
  BY <1>1, <1>2, PTL DEF DispatchSpec

\* What the components keep, the whole keeps: admission within the cap, refusals and
\* closings on evidence, and answers that stand.
THEOREM DispatchKeeps ==
    DispatchSpec => [](GatedWithinCap /\ RefusedOnEvidence /\ ClosedOnEvidence) /\ AnswersStand
BY GateKeepsCap, RefusalsHaveGrounds, ClosingsRestOnEvidence, AnswersAreKept,
   DispatchIsGate, DispatchIsEvidence, DispatchIsClosing, DispatchIsDecisions, PTL

\* Every variable keeps its type: the table's rows, calls, runs and counters of each
\* component stay what the code can put there.
THEOREM DispatchWellTyped == DispatchSpec => []DispatchTypeOK
<1>1. DispatchSpec => [](scene \in Scenes)
  <2>1. DispatchInit => scene \in Scenes
    BY DEF DispatchInit
  <2>2. scene \in Scenes /\ [DispatchNext]_dispatchvars => (scene \in Scenes)'
    BY DEF DispatchNext, dispatchvars
  <2> QED  BY <2>1, <2>2, PTL DEF DispatchSpec
<1>2. /\ scene \in Scenes /\ TypeOK /\ OrderTypeOK /\ EvidenceTypeOK /\ DecisionsTypeOK
      /\ TerminalTypeOK
      => DispatchTypeOK
  BY DEF DispatchTypeOK
<1> QED
  BY <1>1, <1>2, TypeCorrect, OrderTyped, EvidenceTyped, DecisionsWellTyped, TerminalTyped,
     DispatchIsGate, DispatchIsOrder, DispatchIsEvidence, DispatchIsDecisions,
     DispatchIsClosing, PTL
=============================================================================
