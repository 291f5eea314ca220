----------------------------- MODULE TaskPipeline -----------------------------
(***************************************************************************)
(* One task from its first worker run to its merge: the two entrypoint     *)
(* scripts, the ticks that start them again, and what they share, which is *)
(* a directory (task.yaml, the counters, review.json), a git worktree and  *)
(* a pull request.                                                         *)
(*                                                                         *)
(* Nothing locks the task as a whole.  Each script may be killed between   *)
(* any two of its commands; systemd restarts a failed worker by itself     *)
(* (Restart=on-failure), never a supervisor (Restart=no).                  *)
(*                                                                         *)
(* Commits are numbered: work is the last one in the worktree, pushed the  *)
(* head of the branch on GitHub (0: no branch), merged what the default    *)
(* branch has of it.                                                       *)
(***************************************************************************)
EXTENDS Naturals

CONSTANTS
    MaxInvocations,   \* MAX_LIFETIME_INVOCATIONS
    MaxInfra,         \* MAX_INFRA_REJECTIONS
    GateAttempts,     \* quality-gate attempts in one run of the worker
    MaxWork,          \* bound: commits a task's runs produce
    MaxKills          \* bound: kills of the worker and of the supervisor

ASSUME LimitsAssumption ==
    /\ {MaxInvocations, MaxInfra, MaxKills} \subseteq Nat
    /\ {GateAttempts, MaxWork} \subseteq Nat \ {0}

VARIABLES
    status,       \* task.yaml
    handed,       \* its checkpoints have a pending_review
    invocations,  \* .invocation_count
    infra,        \* .infra_rejection_count
    review,       \* the verdict in review.json
    work, pushed, merged, pr,
    worker,       \* where worker-entrypoint.sh is; "none": the task has no worker
    attempt,      \* its quality-gate attempts
    supervisor,   \* where supervisor-entrypoint.sh is
    diff,         \* the commit whose diff it reviews
    resume,       \* umr_tasks has an active row to start the worker again
    kills,
    mainCalls,    \* history: main model calls begun
    audited       \* history: the last commit a verdict was about

counters == <<invocations, infra>>
github == <<pushed, merged, pr>>
reviewing == <<supervisor, diff, review, audited>>
vars == <<status, handed, invocations, infra, review, work, pushed, merged, pr, worker,
          attempt, supervisor, diff, resume, kills, mainCalls, audited>>

-----------------------------------------------------------------------------
(* task.yaml *)

Done == {"completed", "completed_no_change", "completed_docs_only"}
Statuses == Done \cup {"pending", "in_progress", "pending_review", "blocked", "failed"}

\* RESUMABLE_STATUSES
Resumable == {"pending", "in_progress"}

\* cmd_checkpoint: completed is refused to a task never handed over.
Checkpoint(s) ==
    /\ status' = IF s = "completed" /\ ~handed THEN status ELSE s
    /\ handed' = (handed \/ s = "pending_review")

-----------------------------------------------------------------------------
(* Who starts what *)

Startable == worker \in {"off", "failed"}
WorkerDown == Startable \/ worker = "none"

\* systemctl start veridian-worker@<task>: nothing if it is up.
StartWorker == worker' = IF Startable \/ worker = "restarting" THEN "starting" ELSE worker

\* systemctl start veridian-supervisor@<task>
StartSupervisor == supervisor' = IF supervisor = "off" THEN "starting" ELSE supervisor

\* resume_interrupted_workers_tick: the task says it is under way and its
\* worker is down, so a row that will start it joins the governor's queue ...
ResumeQueued ==
    /\ status \in Resumable
    /\ Startable
    /\ ~resume
    /\ resume' = TRUE
    /\ UNCHANGED <<status, handed, counters, work, github, worker, attempt, reviewing,
                   kills, mainCalls>>

\* ... and is dispatched whenever a slot is free, or refused.
ResumeDispatched ==
    /\ resume
    /\ resume' = FALSE
    /\ StartWorker \/ UNCHANGED worker
    /\ UNCHANGED <<status, handed, counters, work, github, attempt, reviewing, kills, mainCalls>>

\* systemd: RestartSec later it starts the worker, or the start limit is hit.
AutoRestart ==
    /\ worker = "restarting"
    /\ worker' \in {"starting", "failed"}
    /\ UNCHANGED <<status, handed, counters, work, github, attempt, reviewing, resume,
                   kills, mainCalls>>

\* recover-failed-workers.py: reset-failed and start, when a model call's result
\* (result.json) shows an exhausted balance.
RecoverFailed ==
    /\ worker = "failed"
    /\ mainCalls > 0
    /\ StartWorker
    /\ UNCHANGED <<status, handed, counters, work, github, attempt, reviewing, resume,
                   kills, mainCalls>>

\* External: a person starts a blocked task's worker again, as the notes ask.
HumanRestartsWorker ==
    /\ status = "blocked"
    /\ Startable
    /\ StartWorker
    /\ UNCHANGED <<status, handed, counters, work, github, attempt, reviewing, resume,
                   kills, mainCalls>>

\* Mutant of SupervisorSweep: it waits for a pull request.
SupervisorSweepOfPrs ==
    /\ status = "pending_review"
    /\ review = "none"
    /\ pr # "none"
    /\ supervisor = "off"
    /\ StartSupervisor
    /\ UNCHANGED <<status, handed, counters, work, github, worker, attempt, diff, review,
                   audited, resume, kills, mainCalls>>

\* supervisor_sweep_tick
SupervisorSweep ==
    /\ status = "pending_review"
    /\ review = "none"
    /\ supervisor = "off"
    /\ StartSupervisor
    /\ UNCHANGED <<status, handed, counters, work, github, worker, attempt, diff, review,
                   audited, resume, kills, mainCalls>>

\* External: a person archives review.json and restarts the supervisor, having
\* seen that the worker is not at work.
HumanRetriggersReview ==
    /\ WorkerDown
    /\ review # "none"
    /\ supervisor = "off"
    /\ review' = "none"
    /\ StartSupervisor
    /\ UNCHANGED <<status, handed, counters, work, github, worker, attempt, diff, audited,
                   resume, kills, mainCalls>>

-----------------------------------------------------------------------------
(* worker-entrypoint.sh *)

\* checkpoint --status s, disable and exit 0
WorkerLeaves(s) == Checkpoint(s) /\ worker' = "off"

\* git push of whatever there is.  Its exit code is not looked at: it may fail,
\* and after a review it pushes a branch that the worktree's HEAD has left.
PushBranch ==
    /\ pushed' \in {pushed, work}
    /\ UNCHANGED <<merged, pr>>

\* What preflight-guard.py may object to: by the task's own text and history, or the
\* crontab, which no retry changes; and by the server as it is just then.
HardReasons == {"circuit_breaker_tripped", "tight_task_schema_violation",
                "crontab_unauthorized_change"}
TransientReasons == {"disk_low", "memory_low", "worktree_locked",
                   "owner_ai_protocol_file_drift"}
Rejections == HardReasons \cup TransientReasons

\* The lifetime cap, then preflight-guard.py: a hard stop, or an infrastructure
\* rejection, which has a counter of its own.
WorkerRefused ==
    /\ worker = "starting"
    /\ \/ invocations >= MaxInvocations /\ WorkerLeaves("blocked") /\ UNCHANGED infra
       \/ /\ invocations < MaxInvocations
          /\ \E reason \in Rejections :
                \/ reason \in HardReasons /\ WorkerLeaves("blocked") /\ UNCHANGED infra
                \/ /\ reason \notin HardReasons
                   /\ infra <= MaxInfra      \* bound: further ones end as the last did
                   /\ infra' = infra + 1
                   /\ \/ infra' > MaxInfra /\ WorkerLeaves("blocked")
                      \/ infra' <= MaxInfra /\ Checkpoint("failed") /\ worker' = "restarting"
    /\ UNCHANGED <<invocations, work, github, attempt, reviewing, resume, kills, mainCalls>>

\* Mutant of Charge: no lifetime cap.
ChargeUncapped ==
    /\ worker = "starting"
    /\ invocations' = invocations + 1
    /\ worker' = "charged"
    /\ UNCHANGED <<status, handed, infra, work, github, attempt, reviewing, resume, kills,
                   mainCalls>>

\* Mutant of Charge: the count is left to the end of the run, which a kill skips.
ChargeLater ==
    /\ worker = "starting"
    /\ invocations < MaxInvocations
    /\ worker' = "charged"
    /\ UNCHANGED <<status, handed, counters, work, github, attempt, reviewing, resume, kills,
                   mainCalls>>

\* Preflight has passed: the invocation is charged ...
Charge ==
    /\ worker = "starting"
    /\ invocations < MaxInvocations
    /\ invocations' = invocations + 1
    /\ worker' = "charged"
    /\ UNCHANGED <<status, handed, infra, work, github, attempt, reviewing, resume, kills,
                   mainCalls>>

\* ... and the model called.
CallModel ==
    /\ worker = "charged"
    /\ Checkpoint("in_progress")
    /\ worker' = "model"
    /\ attempt' = 0
    /\ mainCalls' = mainCalls + 1
    /\ UNCHANGED <<counters, work, github, reviewing, resume, kills>>

\* What a call leaves in the worktree: a further commit, or nothing new.
Produces == work' \in {work, work + 1} \cap 0..MaxWork

\* It exits non-zero: push what there is, exit 1.
ModelFails ==
    /\ worker = "model"
    /\ Produces
    /\ pushed' \in {pushed, work'}
    /\ Checkpoint("failed")
    /\ worker' = "restarting"
    /\ UNCHANGED <<counters, merged, pr, attempt, reviewing, resume, kills, mainCalls>>

\* A usage limit, a budget cap, or the completion gate: blocked, and pushed.
ModelStopped ==
    /\ worker = "model"
    /\ Produces
    /\ pushed' \in {pushed, work'}
    /\ WorkerLeaves("blocked")
    /\ UNCHANGED <<counters, merged, pr, attempt, reviewing, resume, kills, mainCalls>>

\* Nothing to commit and nothing ahead of the default branch.
ModelDidNothing ==
    /\ worker = "model"
    /\ work <= merged
    /\ Checkpoint("pending_review")
    /\ worker' = "handing_over"
    /\ UNCHANGED <<counters, work, github, attempt, reviewing, resume, kills, mainCalls>>

\* On to the quality gates.
ModelDelivers ==
    /\ worker = "model"
    /\ Produces
    /\ work' > 0
    /\ worker' = "gates"
    /\ UNCHANGED <<status, handed, counters, github, attempt, reviewing, resume, kills, mainCalls>>

\* The build lock is busy: quality-gate.sh requeues the task's row from inside
\* the worker, which then exits 0; the row may be dispatched before it has.
GatesContended ==
    /\ worker = "gates"
    /\ worker' = "leaving"
    /\ resume' = TRUE
    /\ UNCHANGED <<status, handed, counters, work, github, attempt, reviewing, kills, mainCalls>>

\* A gate fails with attempts left: the model is called again to fix it, on no
\* counter; the credit accountant or the cost cap may stop it.
GatesFail ==
    /\ worker = "gates"
    /\ attempt' = attempt + 1
    /\ attempt' < GateAttempts
    /\ \/ WorkerLeaves("blocked") /\ PushBranch /\ UNCHANGED work
       \/ /\ Produces
          /\ \/ Checkpoint("in_progress") /\ UNCHANGED <<worker, pushed>>
             \/ WorkerLeaves("blocked") /\ pushed' \in {pushed, work'}
          /\ UNCHANGED <<merged, pr>>
    /\ UNCHANGED <<counters, reviewing, resume, kills, mainCalls>>

\* The last attempt fails.
GatesGiveUp ==
    /\ worker = "gates"
    /\ attempt' = attempt + 1
    /\ attempt' >= GateAttempts
    /\ PushBranch
    /\ WorkerLeaves("blocked")
    /\ UNCHANGED <<counters, work, reviewing, resume, kills, mainCalls>>

\* The gates pass: push ...
GatesPass ==
    /\ worker = "gates"
    /\ attempt < GateAttempts
    /\ PushBranch
    /\ worker' = "pushed"
    /\ UNCHANGED <<status, handed, counters, work, attempt, reviewing, resume, kills, mainCalls>>

\* ... checkpoint pending_review ...
HandOver ==
    /\ worker = "pushed"
    /\ Checkpoint("pending_review")
    /\ worker' = "handing_over"
    /\ UNCHANGED <<counters, work, github, attempt, reviewing, resume, kills, mainCalls>>

\* ... start the supervisor, disable, exit 0.
WorkerStartsSupervisor ==
    /\ worker = "handing_over"
    /\ StartSupervisor
    /\ worker' = "leaving"
    /\ UNCHANGED <<status, handed, counters, work, github, attempt, diff, review, audited,
                   resume, kills, mainCalls>>

WorkerExits ==
    /\ worker = "leaving"
    /\ worker' = "off"
    /\ UNCHANGED <<status, handed, counters, work, github, attempt, reviewing, resume,
                   kills, mainCalls>>

\* Out of memory, a watchdog's SIGKILL, a reboot.
WorkerKilled ==
    /\ ~WorkerDown
    /\ kills < MaxKills
    /\ kills' = kills + 1
    /\ worker' \in {"restarting", "off"}
    /\ UNCHANGED <<status, handed, counters, work, github, attempt, reviewing, resume, mainCalls>>

-----------------------------------------------------------------------------
(* supervisor-entrypoint.sh *)

SupervisorLeaves(s) == Checkpoint(s) /\ supervisor' = "off"

\* The idempotency guard: review.json is there.
AlreadyReviewed ==
    /\ supervisor = "starting"
    /\ review # "none"
    /\ supervisor' = "off"
    /\ UNCHANGED <<status, handed, counters, work, github, worker, attempt, diff, review,
                   audited, resume, kills, mainCalls>>

\* What checkout -f origin/<branch> puts in the worktree; without a branch on
\* GitHub it fails, and the worktree stays as it is.
Fetched == IF pushed = 0 THEN work ELSE pushed

\* preflight-guard.py rejects, or the diff has a bare gitlink.
ReviewRefused ==
    /\ supervisor = "starting"
    /\ review = "none"
    /\ SupervisorLeaves("blocked")
    /\ UNCHANGED <<counters, work, github, worker, attempt, diff, review, audited, resume,
                   kills, mainCalls>>

\* Nothing ahead of the default branch: no PR, no review.
NothingToReview ==
    /\ supervisor = "starting"
    /\ review = "none"
    /\ Fetched <= merged
    /\ SupervisorLeaves("completed_no_change")
    /\ UNCHANGED <<counters, work, github, worker, attempt, diff, review, audited, resume,
                   kills, mainCalls>>

\* Only progress files and documents: an open PR is closed.
DocsOnly ==
    /\ supervisor = "starting"
    /\ review = "none"
    /\ Fetched > merged
    /\ pr' = IF pr = "open" THEN "closed" ELSE pr
    /\ SupervisorLeaves("completed_docs_only")
    /\ UNCHANGED <<counters, work, pushed, merged, worker, attempt, diff, review, audited,
                   resume, kills, mainCalls>>

\* Mutant of ReadDiff: no idempotency guard.
ReadDiffAgain ==
    /\ supervisor = "starting"
    /\ Fetched > merged
    /\ diff' = Fetched
    /\ supervisor' = "reviewing"
    /\ UNCHANGED <<status, handed, counters, work, github, worker, attempt, review, audited,
                   resume, kills, mainCalls>>

\* The diff goes into the reviewer's prompt.
ReadDiff ==
    /\ supervisor = "starting"
    /\ review = "none"
    /\ Fetched > merged
    /\ diff' = Fetched
    /\ supervisor' = "reviewing"
    /\ UNCHANGED <<status, handed, counters, work, github, worker, attempt, review, audited,
                   resume, kills, mainCalls>>

\* The reviewer leaves no verdict.
NoVerdict ==
    /\ supervisor = "reviewing"
    /\ SupervisorLeaves("blocked")
    /\ UNCHANGED <<counters, work, github, worker, attempt, diff, review, audited, resume,
                   kills, mainCalls>>

\* review.json is written.
Verdict ==
    /\ supervisor = "reviewing"
    /\ review' \in {"approve", "reject"}
    /\ audited' = diff
    /\ supervisor' = "reviewed"
    /\ UNCHANGED <<status, handed, counters, work, github, worker, attempt, diff, resume,
                   kills, mainCalls>>

\* gh pr create, or the branch's open PR; the verdict is posted there.
OpenPr ==
    /\ supervisor = "reviewed"
    /\ pr = "open" \/ pushed > merged
    /\ pr' = "open"
    /\ supervisor' = "deciding"
    /\ UNCHANGED <<status, handed, counters, work, pushed, merged, worker, attempt, diff,
                   review, audited, resume, kills, mainCalls>>

\* Neither: refuse to go on without a PR.
NoPr ==
    /\ supervisor = "reviewed"
    /\ pr # "open"
    /\ SupervisorLeaves("blocked")
    /\ UNCHANGED <<counters, work, github, worker, attempt, diff, review, audited, resume,
                   kills, mainCalls>>

\* Rejected, or outside the task's scope (scope-check.py).
NotMerged ==
    /\ supervisor = "deciding"
    /\ SupervisorLeaves("blocked")
    /\ UNCHANGED <<counters, work, github, worker, attempt, diff, review, audited, resume,
                   kills, mainCalls>>

\* Mutant of Merge: whatever the verdict.
MergeAnyway ==
    /\ supervisor = "deciding"
    /\ pr = "open" /\ pushed > 0
    /\ merged' = pushed
    /\ pr' = "merged"
    /\ supervisor' = "merging"
    /\ UNCHANGED <<status, handed, counters, work, pushed, worker, attempt, diff, review,
                   audited, resume, kills, mainCalls>>

\* Approved and in scope: gh pr merge merges the PR's head of now, or fails.
Merge ==
    /\ supervisor = "deciding"
    /\ review = "approve"
    /\ \/ /\ pr = "open" /\ pushed > 0
          /\ merged' = pushed
          /\ pr' = "merged"
       \/ UNCHANGED <<merged, pr>>
    /\ supervisor' = "merging"
    /\ UNCHANGED <<status, handed, counters, work, pushed, worker, attempt, diff, review,
                   audited, resume, kills, mainCalls>>

\* Mutant of Confirm: gh pr merge is taken at its word.
ConfirmUnseen ==
    /\ supervisor = "merging"
    /\ SupervisorLeaves("completed")
    /\ UNCHANGED <<counters, work, github, worker, attempt, diff, review, audited, resume,
                   kills, mainCalls>>

\* A fresh gh pr view decides: delete the branch and complete, or block.
Confirm ==
    /\ supervisor = "merging"
    /\ \/ pr = "merged" /\ pushed' \in {0, pushed} /\ SupervisorLeaves("completed")
       \/ pr # "merged" /\ SupervisorLeaves("blocked") /\ UNCHANGED pushed
    /\ UNCHANGED <<counters, work, merged, pr, worker, attempt, diff, review, audited,
                   resume, kills, mainCalls>>

SupervisorKilled ==
    /\ supervisor # "off"
    /\ kills < MaxKills
    /\ kills' = kills + 1
    /\ supervisor' = "off"
    /\ UNCHANGED <<status, handed, counters, work, github, worker, attempt, diff, review,
                   audited, resume, mainCalls>>

-----------------------------------------------------------------------------
\* Created with its worker started, or adopted: a branch that awaits review.
Init ==
    /\ \/ status = "pending" /\ handed = FALSE /\ worker = "starting" /\ work = 0
       \/ status = "pending_review" /\ handed = TRUE /\ worker = "none" /\ work = 1
    /\ pushed = work
    /\ invocations = 0
    /\ infra = 0
    /\ review = "none"
    /\ merged = 0
    /\ pr = "none"
    /\ attempt = 0
    /\ supervisor = "off"
    /\ diff = 0
    /\ resume = FALSE
    /\ kills = 0
    /\ mainCalls = 0
    /\ audited = 0

Worker ==
    \/ WorkerRefused \/ Charge \/ CallModel
    \/ ModelFails \/ ModelStopped \/ ModelDidNothing \/ ModelDelivers
    \/ GatesContended \/ GatesFail \/ GatesGiveUp \/ GatesPass
    \/ HandOver \/ WorkerStartsSupervisor \/ WorkerExits

Supervisor ==
    \/ AlreadyReviewed \/ ReviewRefused \/ NothingToReview \/ DocsOnly
    \/ ReadDiff \/ NoVerdict \/ Verdict
    \/ OpenPr \/ NoPr \/ NotMerged \/ Merge \/ Confirm

Started ==
    \/ ResumeQueued \/ ResumeDispatched \/ AutoRestart \/ RecoverFailed
    \/ HumanRestartsWorker \/ SupervisorSweep \/ HumanRetriggersReview

Next == Worker \/ Supervisor \/ Started \/ WorkerKilled \/ SupervisorKilled

Spec == Init /\ [][Next]_vars

\* The sweep is on a timer, and a script that runs goes on: each command of it
\* returns.  No worker need be started again and no person acts.
FairSpec == Spec /\ WF_vars(SupervisorSweep) /\ WF_vars(Supervisor) /\ WF_vars(Worker)

-----------------------------------------------------------------------------
(* Properties *)

\* The values the variables may take.
TypeOK ==
    /\ status \in Statuses
    /\ handed \in BOOLEAN
    /\ invocations \in 0..MaxInvocations
    /\ infra \in 0..MaxInfra + 1
    /\ review \in {"none", "approve", "reject"}
    /\ {work, pushed, merged, diff, audited} \subseteq 0..MaxWork
    /\ pr \in {"none", "open", "merged", "closed"}
    /\ worker \in {"none", "off", "failed", "restarting", "starting", "charged",
                   "model", "gates", "pushed", "handing_over", "leaving"}
    /\ attempt \in 0..GateAttempts
    /\ supervisor \in {"off", "starting", "reviewing", "reviewed", "deciding", "merging"}
    /\ resume \in BOOLEAN
    /\ kills \in 0..MaxKills
    /\ mainCalls \in Nat

\* Wherever the worker is killed and however often it is started again, a main
\* model call was charged first, and the charges end at the lifetime cap.
CallsAreCharged == mainCalls <= invocations /\ invocations <= MaxInvocations

\* "Success is now judged solely by a fresh gh pr view": a completed task has
\* been reviewed and is merged, whatever its worker and the kills did since.
CompletedIsMerged == status = "completed" => audited # 0 /\ merged # 0

\* A verdict stands until a person archives it: no second run of the supervisor,
\* after a kill, a sweep or a restarted worker's hand-over, reviews over it, and
\* only an approval merges.
VerdictStands ==
    [][/\ review # "none" => review' \in {review, "none"}
       /\ merged' # merged => review = "approve" /\ audited # 0]_vars

AwaitsReview == status = "pending_review" /\ review = "none"

\* The sweep's promise: a hand-over whose start of the supervisor was lost, or
\* whose supervisor was killed before the verdict, is found and reviewed.
ReviewHappens == AwaitsReview ~> ~AwaitsReview

\* What makes CallsAreCharged and CompletedIsMerged inductive.
PipelineInv ==
    /\ TypeOK
    /\ CallsAreCharged
    /\ worker = "charged" => mainCalls < invocations
    /\ worker \in {"model", "gates"} => attempt < GateAttempts
    /\ CompletedIsMerged
    /\ pr = "merged" => merged # 0
    /\ supervisor = "reviewing" => diff # 0 /\ review = "none"
    /\ review # "none" => audited # 0
    /\ supervisor \in {"reviewed", "deciding", "merging"} => review # "none"

-----------------------------------------------------------------------------
(* What comments and messages in the code say and the code does not do *)

\* "the branch's real content on GitHub is the only source of truth a review should
\* ever trust" (supervisor-entrypoint.sh:71): what is merged is what was reviewed.
MergedIsReviewed == [][merged' # merged => merged' = audited]_vars

\* A rejection says: "Worker to address the findings listed above and resubmit",
\* re-audit "Required after corrective changes are pushed"
\* (supervisor-entrypoint.sh:428).
Resubmitted == review = "reject" /\ status = "pending_review" /\ pushed > audited
ReAudited == Resubmitted ~> ~Resubmitted
=============================================================================
