----------------------------- MODULE Remediation -----------------------------
(***************************************************************************)
(* status-remediation-tick.py for one pull request and its task.  It looks *)
(* the request up with gh, call by call, while pushes, verdicts and runs   *)
(* of the audit check go on; it runs a failed check again where the check  *)
(* only ran ahead of the verdict, merges again where an approved merge     *)
(* failed, and leaves everything else to others, with a prompt drafted.    *)
(***************************************************************************)
EXTENDS Integers

CONSTANTS
    MaxHeads,   \* bound: pushes
    RaceGap,    \* RACE_MAX_GAP_SECONDS
    MaxTime     \* bound: of the clock, which each push, verdict and run moves on

Heads == 1 .. MaxHeads
Times == 0 .. MaxTime

ASSUME RemediationAssumption ==
    {MaxHeads, RaceGap, MaxTime} \subseteq Nat \ {0} /\ MaxTime > RaceGap

VARIABLES
    now,
    pr,         \* whether it is open, its head and the time of that, mergeStateStatus
    verdict,    \* the latest AUDIT: comment and its time
    ci,         \* the audit check of each head, and when its last run started
    mergeFailed,  \* whether the task is blocked by a merge that failed
    remedy,     \* the tick: where it is and what it has read
    reruns      \* history: runs of each head the tick started since the verdict

remvars == <<now, pr, verdict, ci, mergeFailed, remedy, reruns>>

NoRemedy == [pc |-> "idle", head |-> 1, failedAt |-> 0]

RemediationTypeOK ==
    /\ now \in Times
    /\ pr \in [open : BOOLEAN, head : Heads, pushed : Times,
               merge : {"CLEAN", "DIRTY", "BLOCKED"}]
    /\ verdict \in [is : {"none", "PASS", "FAIL"}, at : Times]
    /\ ci \in [Heads -> [is : {"none", "running", "FAILURE", "SUCCESS"}, started : Times]]
    /\ mergeFailed \in BOOLEAN
    /\ remedy \in [pc : {"idle", "comments", "commits", "checks", "rerun", "blocked", "merge"},
                   head : Heads, failedAt : Times]
    /\ reruns \in [Heads -> Nat]

RemediationInit ==
    /\ now = 0
    /\ pr = [open |-> TRUE, head |-> 1, pushed |-> 0, merge |-> "CLEAN"]
    /\ verdict = [is |-> "none", at |-> 0]
    /\ ci = [h \in Heads |-> [is |-> IF h = 1 THEN "running" ELSE "none", started |-> 0]]
    /\ mergeFailed = FALSE
    /\ remedy = NoRemedy
    /\ reruns = [h \in Heads |-> 0]

world == <<now, pr, verdict, ci, mergeFailed, reruns>>

\* main: one part after another, of this request and then of its task.
RemedyGoes(pc) == remedy' = [remedy EXCEPT !.pc = pc]
RemedyAt(pc) == remedy' = [NoRemedy EXCEPT !.pc = pc]

\* The draft_for_ functions: what is not mechanical gets a prompt in
\* pending_remediation, which no tick reads back.
LeavesToOthers == RemedyAt("blocked")

\* scan_tasks: of the blocked tasks, the one whose last note tells of a failed merge.
TaskListed == mergeFailed

\* classify_transient_merge and classify_merge_conflict.
ConflictNow == pr.merge = "DIRTY"

\* scan_prs, gh pr list.  A call that fails ends this part, here and below.
ListsPrs ==
    /\ remedy.pc = "idle"
    /\ \/ pr.open /\ remedy' = [NoRemedy EXCEPT !.pc = "comments", !.head = pr.head]
       \/ LeavesToOthers
    /\ UNCHANGED world

ReadsComments ==
    /\ remedy.pc = "comments"
    /\ \/ /\ verdict.is = "FAIL"
          /\ remedy' = [remedy EXCEPT !.pc = "commits", !.failedAt = verdict.at]
       \/ LeavesToOthers
    /\ UNCHANGED world

\* A commit after the verdict is taken for its correction; if the call fails
\* there is none.
ReadsCommits ==
    /\ remedy.pc = "commits"
    /\ \/ pr.pushed > remedy.failedAt /\ LeavesToOthers
       \/ RemedyGoes("checks")
    /\ UNCHANGED world

\* classify_audit_fail: the check started shortly before the verdict existed.
RanAhead(started, failedAt) ==
    failedAt - started \in 0 .. RaceGap

\* statusCheckRollup is that of the head at the time.
ReadsChecks ==
    /\ remedy.pc = "checks"
    /\ LET check == ci[pr.head]
       IN  IF check.is = "FAILURE" /\ RanAhead(check.started, remedy.failedAt)
           THEN RemedyGoes("rerun")
           ELSE LeavesToOthers
    /\ UNCHANGED world

\* action_rerun_ci: of the head that was listed, and only if its run is over.
RerunsCheck ==
    /\ remedy.pc = "rerun"
    /\ RemedyAt("blocked")
    /\ \/ /\ ci[remedy.head].is = "FAILURE"
          /\ now < MaxTime
          /\ now' = now + 1
          /\ ci' = [ci EXCEPT ![remedy.head] = [is |-> "running", started |-> now + 1]]
          /\ reruns' = [reruns EXCEPT ![remedy.head] = @ + 1]
       \/ UNCHANGED <<now, ci, reruns>>
    /\ UNCHANGED <<pr, verdict, mergeFailed>>

\* process, of a task blocked by a failed merge: a prompt is drafted for a
\* conflict, and any other state, a call that fails included, is one to merge in.
ReadsBlocked ==
    /\ remedy.pc = "blocked"
    /\ \/ TaskListed /\ RemedyAt("merge")
       \/ (~TaskListed \/ ConflictNow) /\ RemedyAt("idle")
    /\ UNCHANGED world

\* action_retry_merge: what GitHub merges, of whatever head.  The task stays blocked.
RetriesMerge ==
    /\ remedy.pc = "merge"
    /\ RemedyAt("idle")
    /\ \/ pr.open /\ pr.merge = "CLEAN" /\ pr' = [pr EXCEPT !.open = FALSE]
       \/ pr' = pr
    /\ UNCHANGED <<now, verdict, ci, mergeFailed, reruns>>

RemedyKilled ==
    /\ remedy.pc # "idle"
    /\ RemedyAt("idle")
    /\ UNCHANGED world

\* A push starts the check of its head.
Pushed ==
    /\ pr.open /\ pr.head < MaxHeads /\ now < MaxTime
    /\ now' = now + 1
    /\ pr' = [pr EXCEPT !.head = @ + 1, !.pushed = now + 1]
    /\ ci' = [ci EXCEPT ![pr.head + 1] = [is |-> "running", started |-> now + 1]]
    /\ UNCHANGED <<verdict, mergeFailed, remedy, reruns>>

\* supervisor-entrypoint.sh posts its verdict.
Judged ==
    /\ pr.open /\ now < MaxTime
    /\ now' = now + 1
    /\ \E is \in {"PASS", "FAIL"} : verdict' = [is |-> is, at |-> now + 1]
    /\ reruns' = [h \in Heads |-> 0]
    /\ UNCHANGED <<pr, ci, mergeFailed, remedy>>

\* The audit check succeeds if the latest comment is a pass.
CheckEnds ==
    /\ \E h \in Heads :
          /\ ci[h].is = "running"
          /\ ci' = [ci EXCEPT ![h].is = IF verdict.is = "PASS" THEN "SUCCESS" ELSE "FAILURE"]
    /\ UNCHANGED <<now, pr, verdict, mergeFailed, remedy, reruns>>

\* The base moves, which matters while the request is to be merged; the
\* supervisor blocks the task after a merge that failed; time passes.
ElsewhereMoves ==
    /\ \/ /\ remedy.pc \in {"blocked", "merge"} /\ mergeFailed
          /\ \E m \in {"CLEAN", "DIRTY", "BLOCKED"} : m # pr.merge /\ pr' = [pr EXCEPT !.merge = m]
          /\ UNCHANGED <<now, mergeFailed>>
       \/ /\ ~mergeFailed /\ mergeFailed' = TRUE
          /\ UNCHANGED <<now, pr>>
       \/ /\ now + RaceGap < MaxTime
          /\ now' = now + RaceGap + 1
          /\ UNCHANGED <<pr, mergeFailed>>
    /\ UNCHANGED <<verdict, ci, remedy, reruns>>

RemediationNext ==
    \/ ListsPrs \/ ReadsComments \/ ReadsCommits \/ ReadsChecks \/ RerunsCheck
    \/ ReadsBlocked \/ RetriesMerge \/ RemedyKilled
    \/ Pushed \/ Judged \/ CheckEnds \/ ElsewhereMoves

RemediationSpec == RemediationInit /\ [][RemediationNext]_remvars

-----------------------------------------------------------------------------
\* The tick does not run the failed check of a head again and again: after the
\* run it started, the check no longer ran ahead of the verdict; nor does a
\* verdict or a push between its calls make it.
RerunOncePerVerdict == \A h \in Heads : reruns[h] <= 1
=============================================================================
