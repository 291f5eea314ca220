---------------------------- MODULE WorkersProofs ----------------------------
(***************************************************************************)
(* What becomes of a piece of work, for every value of the constants.      *)
(* A main model call of a task is charged first, and a completed task has  *)
(* been reviewed and is merged; at the build lock each loss is requeued    *)
(* once, within the guard.                                                 *)
(***************************************************************************)
EXTENDS MCWorkers, FiniteSetTheorems, TLAPS

USE LimitsAssumption

\* The initial states satisfy the invariant.
LEMMA InvInit == Init => PipelineInv
<1> SUFFICES ASSUME Init PROVE PipelineInv
  OBVIOUS
<1> USE DEF Init
<1>1. handed \in BOOLEAN /\ resume \in BOOLEAN
  OBVIOUS
<1>2. status \in Statuses /\ work \in 0..1 /\ 0..1 \subseteq 0..MaxWork
  BY DEF Statuses, Done
<1>3. {work, pushed, merged, diff, audited} \subseteq 0..MaxWork
  BY <1>2
<1>4. TypeOK
  BY <1>1, <1>2, <1>3 DEF TypeOK
<1> QED  BY <1>4 DEF PipelineInv, CallsAreCharged, CompletedIsMerged

\* A tick, a person or systemd that starts a script preserves it.
LEMMA StartedKeeps == PipelineInv /\ Started => PipelineInv'
<1> SUFFICES ASSUME PipelineInv, Started PROVE PipelineInv'
  OBVIOUS
<1> USE DEF PipelineInv, TypeOK, CallsAreCharged, CompletedIsMerged, StartWorker, Startable,
            StartSupervisor, counters, github, reviewing
<1>1. CASE ResumeQueued
  <2>1. resume' \in BOOLEAN  BY <1>1 DEF ResumeQueued
  <2> QED  BY <1>1, <2>1 DEF ResumeQueued
<1>2. CASE ResumeDispatched
  <2>1. resume' \in BOOLEAN  BY <1>2 DEF ResumeDispatched
  <2>2. worker' \in {"starting", worker}  BY <1>2 DEF ResumeDispatched
  <2> QED  BY <1>2, <2>1, <2>2 DEF ResumeDispatched
<1>3. CASE AutoRestart            BY <1>3 DEF AutoRestart
<1>4. CASE RecoverFailed          BY <1>4 DEF RecoverFailed
<1>5. CASE HumanRestartsWorker    BY <1>5 DEF HumanRestartsWorker
<1>6. CASE SupervisorSweep        BY <1>6 DEF SupervisorSweep
<1>7. CASE HumanRetriggersReview  BY <1>7 DEF HumanRetriggersReview
<1> QED  BY <1>1, <1>2, <1>3, <1>4, <1>5, <1>6, <1>7 DEF Started

\* Every step of the worker's script preserves it.
LEMMA WorkerKeeps == PipelineInv /\ Worker => PipelineInv'
<1> SUFFICES ASSUME PipelineInv, Worker PROVE PipelineInv'
  OBVIOUS
<1> USE DEF PipelineInv, TypeOK, CallsAreCharged, CompletedIsMerged, Statuses, Done,
            Checkpoint, WorkerLeaves, Produces, PushBranch,
            counters, github, reviewing
<1>1. CASE WorkerRefused
  <2>1. infra' \in 0..MaxInfra + 1
    BY <1>1 DEF WorkerRefused
  <2>2. status' \in Statuses /\ handed' = handed
    BY <1>1 DEF WorkerRefused
  <2>3. worker' \in {"off", "restarting"} /\ status' \in {"blocked", "failed"}
    BY <1>1 DEF WorkerRefused
  <2> QED  BY <1>1, <2>1, <2>2, <2>3 DEF WorkerRefused
<1>2. CASE Charge                  BY <1>2 DEF Charge
<1>3. CASE CallModel               BY <1>3 DEF CallModel
<1>4. CASE ModelFails              BY <1>4 DEF ModelFails
<1>5. CASE ModelStopped            BY <1>5 DEF ModelStopped
<1>6. CASE ModelDidNothing         BY <1>6 DEF ModelDidNothing
<1>7. CASE ModelDelivers           BY <1>7 DEF ModelDelivers
<1>8. CASE GatesContended          BY <1>8 DEF GatesContended
<1>9. CASE GatesFail               BY <1>9 DEF GatesFail
<1>10. CASE GatesGiveUp            BY <1>10 DEF GatesGiveUp
<1>11. CASE GatesPass              BY <1>11 DEF GatesPass
<1>12. CASE HandOver               BY <1>12 DEF HandOver
<1>13. CASE WorkerStartsSupervisor BY <1>13 DEF WorkerStartsSupervisor, StartSupervisor
<1>14. CASE WorkerExits            BY <1>14 DEF WorkerExits
<1> QED
  BY <1>1, <1>2, <1>3, <1>4, <1>5, <1>6, <1>7, <1>8, <1>9, <1>10, <1>11, <1>12, <1>13, <1>14
     DEF Worker

\* Every step of the supervisor's script preserves it.
LEMMA SupervisorKeeps == PipelineInv /\ Supervisor => PipelineInv'
<1> SUFFICES ASSUME PipelineInv, Supervisor PROVE PipelineInv'
  OBVIOUS
<1> USE DEF PipelineInv, TypeOK, CallsAreCharged, CompletedIsMerged, Statuses, Done,
            Checkpoint, SupervisorLeaves, counters, github
<1>1. CASE AlreadyReviewed  BY <1>1 DEF AlreadyReviewed
<1>2. CASE ReviewRefused    BY <1>2 DEF ReviewRefused
<1>3. CASE NothingToReview  BY <1>3 DEF NothingToReview
<1>4. CASE DocsOnly         BY <1>4 DEF DocsOnly
<1>5. CASE ReadDiff         BY <1>5 DEF ReadDiff, Fetched
<1>6. CASE NoVerdict        BY <1>6 DEF NoVerdict
<1>7. CASE Verdict          BY <1>7 DEF Verdict
<1>8. CASE OpenPr           BY <1>8 DEF OpenPr
<1>9. CASE NoPr             BY <1>9 DEF NoPr
<1>10. CASE NotMerged       BY <1>10 DEF NotMerged
<1>11. CASE Merge           BY <1>11 DEF Merge
<1>12. CASE Confirm         BY <1>12 DEF Confirm
<1> QED
  BY <1>1, <1>2, <1>3, <1>4, <1>5, <1>6, <1>7, <1>8, <1>9, <1>10, <1>11, <1>12
     DEF Supervisor

\* So does a kill, and a step of something else.
LEMMA InvNext == PipelineInv /\ [Next]_vars => PipelineInv'
<1> SUFFICES ASSUME PipelineInv, [Next]_vars PROVE PipelineInv'
  OBVIOUS
<1>1. CASE Worker      BY <1>1, WorkerKeeps
<1>2. CASE Supervisor  BY <1>2, SupervisorKeeps
<1>3. CASE Started     BY <1>3, StartedKeeps
<1>4. CASE WorkerKilled
  BY <1>4 DEF WorkerKilled, PipelineInv, TypeOK, CallsAreCharged, CompletedIsMerged,
              counters, github, reviewing
<1>5. CASE SupervisorKilled
  BY <1>5 DEF SupervisorKilled, PipelineInv, TypeOK, CallsAreCharged, CompletedIsMerged,
              counters, github
<1>6. CASE UNCHANGED vars
  BY <1>6 DEF vars, PipelineInv, TypeOK, CallsAreCharged, CompletedIsMerged
<1> QED  BY <1>1, <1>2, <1>3, <1>4, <1>5, <1>6 DEF Next

\* The strengthened invariant holds in every reachable state.
LEMMA InvHolds == Spec => []PipelineInv
BY InvInit, InvNext, PTL DEF Spec

\* task.yaml, the counters, review.json and the branch only take the values they
\* should, and the counters stay within their caps.
THEOREM TypeCorrect == Spec => []TypeOK
<1>1. PipelineInv => TypeOK  BY DEF PipelineInv
<1> QED  BY <1>1, InvHolds, PTL

\* However often the worker is killed and started again, no main model call is
\* made that was not charged, and no more than MaxInvocations are.
THEOREM EveryCallCharged == Spec => []CallsAreCharged
<1>1. PipelineInv => CallsAreCharged  BY DEF PipelineInv
<1> QED  BY <1>1, InvHolds, PTL

\* A task that says completed was reviewed, and something of it is merged.
THEOREM CompletedMeansMerged == Spec => []CompletedIsMerged
<1>1. PipelineInv => CompletedIsMerged  BY DEF PipelineInv
<1> QED  BY <1>1, InvHolds, PTL

\* A verdict stands until it is archived, and only an approval merges.
THEOREM VerdictsStand == Spec => VerdictStands
<1> DEFINE Step ==
      /\ review # "none" => review' \in {review, "none"}
      /\ merged' # merged => review = "approve" /\ audited # 0
<1>1. PipelineInv /\ [Next]_vars => [Step]_vars
  <2> SUFFICES ASSUME PipelineInv, Next PROVE Step
    OBVIOUS
  <2> USE DEF PipelineInv, counters, github, reviewing
  <2>1. CASE Worker
    <3>1. review' = review
      BY <2>1 DEF Worker, WorkerRefused, Charge, CallModel, ModelFails, ModelStopped,
         ModelDidNothing, ModelDelivers, GatesContended, GatesFail, GatesGiveUp, GatesPass,
         HandOver, WorkerStartsSupervisor, WorkerExits
    <3>2. merged' = merged
      BY <2>1 DEF Worker, WorkerRefused, Charge, CallModel, ModelFails, ModelStopped,
         ModelDidNothing, ModelDelivers, GatesContended, GatesFail, GatesGiveUp, GatesPass,
         HandOver, WorkerStartsSupervisor, WorkerExits, PushBranch
    <3> QED  BY <3>1, <3>2
  <2>2. CASE Supervisor
    <3>1. review # "none" => review' = review
      BY <2>2 DEF Supervisor, AlreadyReviewed, ReviewRefused, NothingToReview, DocsOnly,
         ReadDiff, NoVerdict, Verdict, OpenPr, NoPr, NotMerged, Merge, Confirm
    <3>2. merged' # merged => review = "approve"
      BY <2>2 DEF Supervisor, AlreadyReviewed, ReviewRefused, NothingToReview, DocsOnly,
         ReadDiff, NoVerdict, Verdict, OpenPr, NoPr, NotMerged, Merge, Confirm
    <3> QED  BY <3>1, <3>2
  <2>3. CASE Started
    BY <2>3 DEF Started, ResumeQueued, ResumeDispatched, AutoRestart, RecoverFailed,
       HumanRestartsWorker, SupervisorSweep, HumanRetriggersReview
  <2>4. CASE WorkerKilled \/ SupervisorKilled
    BY <2>4 DEF WorkerKilled, SupervisorKilled
  <2> QED  BY <2>1, <2>2, <2>3, <2>4 DEF Next
<1> QED  BY <1>1, InvHolds, PTL DEF Spec, VerdictStands

-----------------------------------------------------------------------------
(* BuildLock *)

\* The guard counts one idle window, then the second.
IdleCounted ==
    /\ guard.pc = "idle" => guard.idle = 0
    /\ guard.pc \in {"window", "between"} => guard.idle <= 1

\* The gate runs of BuildSpec keep the types, for every set of tasks and every limit.
THEOREM BuildTypeCorrect == BuildSpec => []BuildTypeOK
<1>1. BuildInit => BuildTypeOK /\ IdleCounted
  BY BuildAssumption DEF BuildInit, BuildTypeOK, IdleCounted, IdleGuard, Running, Gates, Waiting, LintResults
<1>2. BuildTypeOK /\ IdleCounted /\ [BuildNext]_bvars => (BuildTypeOK /\ IdleCounted)'
  <2> SUFFICES ASSUME BuildTypeOK, IdleCounted, [BuildNext]_bvars
               PROVE  (BuildTypeOK /\ IdleCounted)'
    OBVIOUS
  <2> USE BuildAssumption DEF BuildTypeOK, IdleCounted, Running, Gates, Waiting, LintResults
  <2>1. ASSUME NEW t \in Tasks, GateStep(t)
        PROVE  (BuildTypeOK /\ IdleCounted)'
    <3>1. CASE StartGates(t)
      BY <3>1 DEF StartGates
    <3>2. CASE Lint(t)
      BY <3>2 DEF Lint
    <3>3. CASE Acquire(t)
      BY <3>3 DEF Acquire, TakeLock
    <3>4. CASE AcquireUntracked(t)
      BY <3>4 DEF AcquireUntracked, TakeLock
    <3>5. CASE ShortWaitEnds(t)
      BY <3>5 DEF ShortWaitEnds
    <3>6. CASE LongWaitEnds(t)
      BY <3>6 DEF LongWaitEnds, Fail
    <3>7. CASE Requeue(t)
      BY <3>7 DEF Requeue
    <3>8. CASE RequeueRefused(t)
      BY <3>8 DEF RequeueRefused, files
    <3>9. CASE RequeueFails(t)
      BY <3>9 DEF RequeueFails, Fail
    <3>10. CASE Build(t)
      <4>1. PICK passes \in BOOLEAN :
              /\ verdict' = [verdict EXCEPT ![t] =
                               IF passes /\ sound[t] THEN "passed" ELSE "failed"]
              /\ sound' = [sound EXCEPT ![t] = sound[t] /\ passes]
        BY <3>10, Zenon DEF Build
      <4>2. (sound[t] /\ passes) \in BOOLEAN
        OBVIOUS
      <4>3. sound' \in [Tasks -> BOOLEAN] /\ verdict' \in [Tasks -> {"none", "passed", "failed"}]
        BY <4>1, <4>2
      <4>4. guard' \in [pc : {"idle", "window", "between", "confirm"}, idle : 0 .. 2,
                        same : BOOLEAN, saw : {"nothing", "no_holder", "other"}]
            /\ IdleCounted'
        BY <3>10 DEF Build, Unlock
      <4>5. gate' \in [Tasks -> Running \cup {"off", "done"}] /\ lock' = NoTask
        BY <3>10 DEF Build, Unlock
      <4> QED  BY <3>10, <4>3, <4>4, <4>5 DEF Build, Unlock
    <3>11. CASE Leave(t)
      BY <3>11 DEF Leave, files
    <3> QED
      BY <2>1, <3>1, <3>2, <3>3, <3>4, <3>5, <3>6, <3>7, <3>8, <3>9, <3>10, <3>11
      DEF GateStep
  <2>2. ASSUME NEW t \in Tasks, Finish(t) \/ Dispatch(t) \/ Recover(t)
        PROVE  (BuildTypeOK /\ IdleCounted)'
    BY <2>2 DEF Finish, Dispatch, Recover, files
  <2> DEFINE OthersOK == /\ gate' \in [Tasks -> Running \cup {"off", "done"}]
                         /\ marker' \in [Tasks -> LintResults \cup {"absent"}]
                         /\ lock' \in Tasks \cup {NoTask}
                         /\ deaths' \in 0 .. MaxDeaths
                         /\ UNCHANGED <<lint, sound, losses, pid, row, requeues, verdict>>
  <2>3. ASSUME NEW t \in Tasks, Dies(t)
        PROVE  OthersOK
    <3>1. marker' = marker \/ marker' = [marker EXCEPT ![t] = lint[t]]
      BY <2>3 DEF Dies
    <3>2. marker' \in [Tasks -> LintResults \cup {"absent"}]
      BY <3>1
    <3>3. deaths' \in 0 .. MaxDeaths /\ lock' \in Tasks \cup {NoTask}
      BY <2>3 DEF Dies
    <3>4. gate' = [gate EXCEPT ![t] = "off"]
      BY <2>3 DEF Dies
    <3>5. gate' \in [Tasks -> Running \cup {"off", "done"}]
      BY <3>4
    <3> QED  BY <2>3, <3>2, <3>3, <3>5 DEF Dies
  <2>6. ASSUME NEW t \in Tasks, Killed(t)
        PROVE  (BuildTypeOK /\ IdleCounted)'
    <3>1. (guard.same /\ lock' = lock) \in BOOLEAN
      OBVIOUS
    <3>2. guard' = [guard EXCEPT !.same = guard.same /\ lock' = lock]
      BY <2>6 DEF Killed
    <3>3. guard' \in [pc : {"idle", "window", "between", "confirm"}, idle : 0 .. 2,
                      same : BOOLEAN, saw : {"nothing", "no_holder", "other"}]
      BY <3>1, <3>2
    <3> QED  BY <2>3, <2>6, <3>3 DEF Killed
  <2>4. CASE GuardStep
    <3>1. CASE PidReused
      BY <3>1 DEF PidReused, files
    <3>2. CASE GuardFindsNoHolder
      BY <3>2 DEF GuardFindsNoHolder, IdleGuard, files
    <3>3. CASE GuardWatches
      <4>1. guard' \in [pc : {"window"}, idle : {guard.idle}, same : {TRUE}, saw : {"nothing"}]
        BY <3>3 DEF GuardWatches
      <4>2. guard.idle \in 0 .. 1
        BY <3>3 DEF GuardWatches
      <4>3. IdleCounted'
        BY <4>1, <4>2
      <4> QED  BY <3>3, <4>1, <4>2, <4>3 DEF GuardWatches, files
    <3>4. CASE GuardWindowEnds
      <4>1. UNCHANGED <<gate, lint, marker, sound, losses, lock, pid, row, deaths, requeues, verdict>>
        BY <3>4 DEF GuardWindowEnds, files
      <4>2. CASE guard' = IdleGuard("other")
        BY <4>1, <4>2 DEF IdleGuard
      <4>3. CASE guard' = [guard EXCEPT !.idle = @ + 1,
                                        !.pc = IF guard.idle = 0 THEN "between" ELSE "confirm"]
        <5>1. guard.idle + 1 \in 0 .. 2 /\ guard.idle \in 0 .. 1
          BY <3>4 DEF GuardWindowEnds
        <5>2. guard' \in [pc : {"between", "confirm"}, idle : 0 .. 2, same : BOOLEAN,
                          saw : {"nothing", "no_holder", "other"}]
          BY <4>3, <5>1
        <5>3. guard'.pc = "between" => guard'.idle <= 1
          BY <4>3, <5>1
        <5> QED  BY <4>1, <5>2, <5>3
      <4> QED  BY <3>4, <4>2, <4>3 DEF GuardWindowEnds
    <3>5. CASE GuardKills
      <4>1. guard' \in [pc : {"idle", "window", "between", "confirm"}, idle : 0 .. 2,
                        same : BOOLEAN, saw : {"nothing", "no_holder", "other"}]
        BY <3>5 DEF GuardKills, IdleGuard
      <4>2. pid' = pid /\ IdleCounted'
        BY <3>5 DEF GuardKills, IdleGuard
      <4>3. CASE UNCHANGED <<gate, files, lock, deaths, row, requeues, verdict>>
        BY <3>5, <4>1, <4>2, <4>3 DEF GuardKills, files
      <4>4. CASE \E t \in Tasks : Dies(t)
        BY <2>3, <3>5, <4>1, <4>2, <4>4 DEF GuardKills
      <4> QED  BY <3>5, <4>3, <4>4 DEF GuardKills
    <3> QED  BY <2>4, <3>1, <3>2, <3>3, <3>4, <3>5 DEF GuardStep
  <2>5. CASE UNCHANGED bvars
    BY <2>5 DEF bvars, files
  <2> QED  BY <2>1, <2>2, <2>4, <2>5, <2>6 DEF BuildNext
<1> QED  BY <1>1, <1>2, PTL DEF BuildSpec

\* A task whose loss is counted and whose requeue is still to come has the counter
\* ahead of its requeues, and below the limit.
LossAhead ==
    \A t \in Tasks :
        gate[t] = "lost" => requeues[t] < losses[t] /\ losses[t] < LossLimit

\* What was requeued is counted, also by the loss that is still to be seen.
BuildInv == BuildTypeOK /\ RequeuesBounded /\ LossAhead

\* The starvation guard holds for every number of tasks, losses and deaths.
THEOREM StarvationGuard == BuildSpec => []RequeuesBounded
<1>1. BuildInit => BuildInv
  BY BuildAssumption DEF BuildInit, BuildInv, BuildTypeOK, IdleGuard, Running, Gates,
     Waiting, LintResults, RequeuesBounded, LossAhead
<1>2. BuildInv /\ BuildTypeOK' /\ [BuildNext]_bvars => BuildInv'
  <2> SUFFICES ASSUME BuildInv, BuildTypeOK', [BuildNext]_bvars
               PROVE  (RequeuesBounded /\ LossAhead)'
    BY DEF BuildInv
  <2> USE BuildAssumption DEF BuildInv, BuildTypeOK, RequeuesBounded, LossAhead
  <2>1. ASSUME NEW t \in Tasks, GateStep(t)
        PROVE  (RequeuesBounded /\ LossAhead)'
    <3>1. CASE StartGates(t)
      BY <3>1 DEF StartGates
    <3>2. CASE Lint(t)
      BY <3>2 DEF Lint
    <3>3. CASE Acquire(t)
      BY <3>3 DEF Acquire, TakeLock
    <3>4. CASE AcquireUntracked(t)
      BY <3>4 DEF AcquireUntracked, TakeLock
    <3>5. CASE ShortWaitEnds(t)
      BY <3>5 DEF ShortWaitEnds
    <3>6. CASE LongWaitEnds(t)
      BY <3>6 DEF LongWaitEnds, Fail
    <3>7. CASE Requeue(t)
      BY <3>7 DEF Requeue
    <3>8. CASE RequeueRefused(t)
      BY <3>8 DEF RequeueRefused, files
    <3>9. CASE RequeueFails(t)
      BY <3>9 DEF RequeueFails, Fail
    <3>10. CASE Build(t)
      BY <3>10 DEF Build, Unlock
    <3>11. CASE Leave(t)
      BY <3>11 DEF Leave, files
    <3> QED
      BY <2>1, <3>1, <3>2, <3>3, <3>4, <3>5, <3>6, <3>7, <3>8, <3>9, <3>10, <3>11
      DEF GateStep
  <2>2. ASSUME NEW t \in Tasks, Finish(t) \/ Dispatch(t) \/ Recover(t)
        PROVE  (RequeuesBounded /\ LossAhead)'
    BY <2>2 DEF Finish, Dispatch, Recover, files
  <2>3. ASSUME NEW t \in Tasks, Dies(t)
        PROVE  (RequeuesBounded /\ LossAhead)'
    BY <2>3 DEF Dies
  <2>4. CASE GuardStep
    <3>1. CASE PidReused \/ GuardFindsNoHolder \/ GuardWatches \/ GuardWindowEnds
      BY <3>1 DEF PidReused, GuardFindsNoHolder, GuardWatches, GuardWindowEnds, files
    <3>2. CASE GuardKills
      BY <3>2, <2>3 DEF GuardKills, files
    <3> QED  BY <2>4, <3>1, <3>2 DEF GuardStep
  <2>5. CASE UNCHANGED bvars
    BY <2>5 DEF bvars, files
  <2> QED  BY <2>1, <2>2, <2>3, <2>4, <2>5 DEF BuildNext, Killed
<1>3. BuildInv => RequeuesBounded
  BY DEF BuildInv
<1> QED  BY <1>1, <1>2, <1>3, BuildTypeCorrect, PTL DEF BuildSpec

-----------------------------------------------------------------------------
(* The scenes of MCWorkers: a task moves, or the tasks at the lock do. *)

\* A behaviour of the workers is one of the pipeline.
LEMMA WorkersAreTasks == WorkersSpec => Spec
<1>1. WorkersInit => Init
  BY DEF WorkersInit
<1>2. [WorkersNext]_workervars => [Next]_vars
  BY DEF WorkersNext, workervars
<1> QED
  BY <1>1, <1>2, PTL DEF WorkersSpec, Spec

\* And one of the build lock.
LEMMA WorkersAreAtLock == WorkersSpec => BuildSpec
<1>1. WorkersInit => BuildInit
  BY DEF WorkersInit
<1>2. [WorkersNext]_workervars => [BuildNext]_bvars
  BY DEF WorkersNext, workervars
<1> QED
  BY <1>1, <1>2, PTL DEF WorkersSpec, BuildSpec

\* Every variable of the pipeline and of the lock keeps its type, for all limits and
\* every number of tasks.
THEOREM WorkersTyped == WorkersSpec => []WorkersTypeOK
BY TypeCorrect, BuildTypeCorrect, WorkersAreTasks, WorkersAreAtLock, PTL DEF WorkersTypeOK
=============================================================================
