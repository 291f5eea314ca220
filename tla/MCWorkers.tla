------------------------------ MODULE MCWorkers -------------------------------
(***************************************************************************)
(* A task from its first worker to its merge, and two tasks at the build   *)
(* lock inside their workers.  The models share no state: scene says of    *)
(* which the behaviour is, and the other stays where it begins.            *)
(***************************************************************************)
EXTENDS TaskPipeline, BuildLock

VARIABLE scene

workervars == <<scene, vars, bvars>>

WorkersTypeOK == TypeOK /\ BuildTypeOK

WorkersInit ==
    /\ scene \in {"task", "lock"} /\ Init /\ BuildInit
    /\ scene = "lock" => status = "pending"

WorkersNext ==
    \/ scene = "task" /\ Next /\ UNCHANGED <<scene, bvars>>
    \/ scene = "lock" /\ BuildNext /\ UNCHANGED <<scene, vars>>

\* The fairness of TaskPipeline!FairSpec and of BuildFairness, each in its scene.
InTask(A) == scene = "task" /\ A
InLock(A) == scene = "lock" /\ A

WorkersFairness ==
    /\ WF_vars(InTask(SupervisorSweep)) /\ WF_vars(InTask(Supervisor)) /\ WF_vars(InTask(Worker))
    /\ \A t \in Tasks :
          /\ WF_bvars(InLock(GateStep(t)))
          /\ WF_bvars(InLock(Dispatch(t)))
          /\ WF_bvars(InLock(Recover(t)))

WorkersSpec == WorkersInit /\ [][WorkersNext]_workervars /\ WorkersFairness
=============================================================================
