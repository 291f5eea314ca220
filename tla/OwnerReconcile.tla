---------------------------- MODULE OwnerReconcile ----------------------------
(***************************************************************************)
(* reconcile_owner_dispatch_status.py, by hand or in the remediation tick: *)
(* a row that says running is compared with task.yaml, with systemd and    *)
(* with GitHub, one question after the other, and relabelled if they agree *)
(* that it is over.  Minutes lie between the first question and the write, *)
(* in which the worker hands over, the review goes on and pull requests    *)
(* open, merge and close.                                                  *)
(*                                                                         *)
(* One row is modelled; the list of a repository's pull requests is read   *)
(* once for all its rows, maybe for an earlier one.                        *)
(***************************************************************************)
EXTENDS Naturals

CONSTANT MaxSweeps    \* bound: runs of the reconciliation

ASSUME ReconcileAssumption == MaxSweeps \in Nat

VARIABLES
    label,     \* umr_tasks.status of the row
    progress,  \* status in task.yaml
    units,     \* is the worker up, is the supervisor
    request,   \* the pull request of the task's branch
    recon,     \* the reconciliation: where it is, what it was told, its verdict
    lapsed,    \* history: no review was in flight at some time since it read task.yaml
    sweeps

recvars == <<label, progress, units, request, recon, lapsed, sweeps>>
taskvars == <<label, progress, units, request>>

Ended == {"completed", "failed", "killed"}
Requests == {"none", "open", "merged", "closed"}
Progress == {"in_progress", "pending_review", "completed", "blocked"}
NoSweep == [pc |-> "idle", pulls |-> "unasked", progress |-> "blocked", worker |-> FALSE,
            verdict |-> "none"]

ReconcileTypeOK ==
    /\ label \in Ended \cup {"running"}
    /\ progress \in Progress
    /\ units \in [worker : BOOLEAN, supervisor : BOOLEAN]
    /\ request \in Requests
    /\ recon \in [pc : {"idle", "rows", "file", "worker", "pulls", "writing"},
                  pulls : Requests \cup {"unasked"}, progress : Progress, worker : BOOLEAN,
                  verdict : Ended \cup {"none"}]
    /\ lapsed \in BOOLEAN
    /\ sweeps \in 0 .. MaxSweeps

ReconcileInit ==
    /\ label = "running"
    /\ progress = "in_progress"
    /\ units = [worker |-> TRUE, supervisor |-> FALSE]
    /\ request = "none"
    /\ recon = NoSweep
    /\ lapsed = FALSE
    /\ sweeps = 0

UnderReview == progress = "pending_review" /\ units.supervisor
Lapses == lapsed' = (lapsed \/ ~UnderReview')

-----------------------------------------------------------------------------
(* The task meanwhile *)

WorkerHandsOver ==
    /\ units.worker /\ progress = "in_progress"
    /\ progress' = "pending_review"
    /\ UNCHANGED <<label, units, request>>

WorkerLeaves ==
    /\ units.worker
    /\ units' = [units EXCEPT !.worker = FALSE]
    /\ UNCHANGED <<label, progress, request>>

\* Resumed, or started again by a person.
WorkerReturns ==
    /\ ~units.worker /\ progress \in {"in_progress", "blocked"}
    /\ progress' = "in_progress"
    /\ units' = [units EXCEPT !.worker = TRUE]
    /\ UNCHANGED <<label, request>>

\* By the worker or by the sweep.
ReviewBegins ==
    /\ progress = "pending_review" /\ ~units.supervisor
    /\ units' = [units EXCEPT !.supervisor = TRUE]
    /\ UNCHANGED <<label, progress, request>>

\* With a verdict, or killed before it.
ReviewEnds ==
    /\ units.supervisor
    /\ units' = [units EXCEPT !.supervisor = FALSE]
    /\ \/ request = "merged" /\ progress' = "completed"
       \/ progress' = "blocked"
       \/ UNCHANGED progress
    /\ UNCHANGED <<label, request>>

RequestMoves ==
    /\ \/ request \in {"none", "closed"} /\ (units.worker \/ units.supervisor) /\ request' = "open"
       \/ request = "open" /\ request' \in {"merged", "closed"}
    /\ UNCHANGED <<label, progress, units>>

\* The bridge, a sweep or a certificate ends the row; a dispatch runs it again.
Relabelled ==
    /\ \/ label = "running" /\ label' \in Ended
       \/ label # "running" /\ label' = "running"
    /\ UNCHANGED <<progress, units, request>>

RowMoves ==
    /\ \/ WorkerHandsOver \/ WorkerLeaves \/ WorkerReturns
       \/ ReviewBegins \/ ReviewEnds \/ RequestMoves \/ Relabelled
    /\ IF recon.pc \in {"idle", "rows"} THEN UNCHANGED lapsed ELSE Lapses
    /\ UNCHANGED <<recon, sweeps>>

-----------------------------------------------------------------------------
(* The reconciliation *)

LoadsRows ==
    /\ recon.pc = "idle" /\ sweeps < MaxSweeps
    /\ label = "running"
    /\ recon' = [recon EXCEPT !.pc = "rows"]
    /\ sweeps' = sweeps + 1
    /\ UNCHANGED <<taskvars, lapsed>>

\* gh pr list; a call that fails is a repository without pull requests.
ListsPulls ==
    /\ recon.pc \in {"rows", "worker"} /\ recon.pulls = "unasked"
    /\ \E pulls \in {request, "none"} : recon' = [recon EXCEPT !.pulls = pulls]
    /\ UNCHANGED <<taskvars, lapsed, sweeps>>

ReadsTask ==
    /\ recon.pc = "rows"
    /\ recon' = [recon EXCEPT !.pc = "file", !.progress = progress]
    /\ lapsed' = ~UnderReview
    /\ UNCHANGED <<taskvars, sweeps>>

AsksWorker ==
    /\ recon.pc = "file"
    /\ recon' = [recon EXCEPT !.pc = "worker", !.worker = units.worker]
    /\ UNCHANGED <<taskvars, lapsed, sweeps>>

\* Mutant of ReviewSeen: the supervisor is not asked.
ReviewUnasked == FALSE

\* The worker of a task handed over is down and its supervisor up: a live review.
ReviewSeen == recon.progress = "pending_review" /\ units.supervisor

\* An active worker, a live review, an open pull request: left alone, or to a person.
LeavesAlone ==
    /\ recon.pc = "worker" /\ recon.pulls # "unasked"
    /\ recon.worker \/ ReviewSeen \/ recon.pulls = "open"
    /\ recon' = NoSweep
    /\ lapsed' = FALSE
    /\ UNCHANGED <<taskvars, sweeps>>

Outcome(pulls) ==
    CASE pulls = "merged" -> "completed"
      [] pulls = "closed" -> "failed"
      [] pulls = "none" -> "killed"

Decides ==
    /\ recon.pc = "worker" /\ recon.pulls \notin {"unasked", "open"}
    /\ ~recon.worker /\ ~ReviewSeen
    /\ recon' = [recon EXCEPT !.pc = "writing", !.verdict = Outcome(recon.pulls)]
    /\ UNCHANGED <<taskvars, lapsed, sweeps>>

\* update_umr_task under the write lock, by the row's id alone: whatever it says by now.
Corrects ==
    /\ recon.pc = "writing"
    /\ label' = recon.verdict
    /\ recon' = NoSweep
    /\ lapsed' = FALSE
    /\ UNCHANGED <<progress, units, request, sweeps>>

SweepFails ==
    /\ recon.pc # "idle"
    /\ recon' = NoSweep
    /\ lapsed' = FALSE
    /\ UNCHANGED <<taskvars, sweeps>>

ReconcileNext ==
    \/ RowMoves
    \/ LoadsRows \/ ListsPulls \/ ReadsTask \/ AsksWorker
    \/ LeavesAlone \/ Decides \/ Corrects \/ SweepFails

ReconcileSpec == ReconcileInit /\ [][ReconcileNext]_recvars

-----------------------------------------------------------------------------
(* Properties *)

\* A row is about to be relabelled only on evidence: completed says that the pull request
\* is merged now, however old the list; and a review that was in flight when task.yaml was
\* read, and has been ever since, is not ended by any verdict, though its worker is down
\* as that of a dead dispatch would be.
EndedOnEvidence ==
    recon.verdict # "none" =>
        /\ recon.verdict = "completed" => request = "merged"
        /\ lapsed
=============================================================================
