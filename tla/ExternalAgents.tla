--------------------------- MODULE ExternalAgents ---------------------------
(***************************************************************************)
(* The external-agent channel of superboss-register.py: a row of umr_tasks *)
(* marked eligible is handed out as a prompt, a person pastes the reply    *)
(* back, and the reply becomes a branch and a pull request, or a strike.   *)
(*                                                                         *)
(* Each command runs under the register's write lock.  A submission runs   *)
(* git, quality-gate.sh and gh inside it, in one database transaction:     *)
(* what it did to the repository outlives a kill, what it wrote does not.  *)
(***************************************************************************)
EXTENDS Naturals, FiniteSets

CONSTANTS
    NumUmrs,      \* rows, numbered in the order of tier and submission
    NumAttempts,  \* bound: rows of external_agent_dispatch
    MaxAttempts,  \* EXTERNAL_AGENT_MAX_ATTEMPTS
    MaxSubKills   \* bound: submissions killed

ASSUME ExternalAssumption ==
    /\ {NumUmrs, NumAttempts, MaxAttempts} \subseteq Nat \ {0}
    /\ MaxSubKills \in Nat

Umrs == 1 .. NumUmrs
Attempts == 1 .. NumAttempts

VARIABLES
    umr,         \* the columns of umr_tasks the channel uses
    attempt,     \* external_agent_dispatch
    repo,        \* per attempt: its branch is there, its pull requests
    submission,  \* the submission under way, which has the write lock
    subKills

xvars == <<umr, attempt, repo, submission, subKills>>

NoSubmission == [pc |-> "idle", id |-> 0]
Unused == [of |-> 0, status |-> "unused", late |-> FALSE, files |-> 0]

ExtTypeOK ==
    /\ umr \in [Umrs -> [there : BOOLEAN, eligible : BOOLEAN, files : 0 .. 2,
                         status : {"null", "dispatched", "requeued", "pr_open",
                                   "fallen_back_internal"},
                         rejects : 0 .. MaxAttempts, dispatches : 0 .. MaxAttempts]]
    /\ attempt \in [Attempts ->
                     [of : 0 .. NumUmrs, late : BOOLEAN, files : 0 .. 2,
                      status : {"unused", "dispatched", "rejected", "expired", "accepted"}]]
    /\ repo \in [Attempts -> [branch : BOOLEAN, prs : Nat]]
    /\ submission \in [pc : {"idle", "gates", "stuck", "push", "pr", "record"},
                       id : 0 .. NumAttempts]
    /\ subKills \in 0 .. MaxSubKills

ExtInit ==
    /\ umr = [u \in Umrs |-> [there |-> TRUE, eligible |-> FALSE, files |-> 0,
                              status |-> "null", rejects |-> 0, dispatches |-> 0]]
    /\ attempt = [d \in Attempts |-> Unused]
    /\ repo = [d \in Attempts |-> [branch |-> FALSE, prs |-> 0]]
    /\ submission = NoSubmission
    /\ subKills = 0

WriteLockFree == submission = NoSubmission

\* mark_external_agent_eligible, on a row of any status and with any allow-list.
MarkEligible(u) ==
    /\ WriteLockFree
    /\ umr[u].there
    /\ \E files \in 1 .. 2 :
          umr' = [umr EXCEPT ![u].eligible = TRUE, ![u].files = files]
    /\ UNCHANGED <<attempt, repo, submission, subKills>>

Eligible(u) ==
    /\ umr[u].there /\ umr[u].eligible
    /\ umr[u].status \in {"null", "requeued"}
    /\ umr[u].rejects < MaxAttempts

\* Mutant of Eligible: rows that await a reply are handed out again.
EligibleAgain(u) ==
    /\ umr[u].there /\ umr[u].eligible
    /\ umr[u].status \in {"null", "requeued", "dispatched"}
    /\ umr[u].rejects < MaxAttempts

\* get_next_external_agent_task: the first eligible row, the prompt's allow-list
\* kept in its file.
GetNext ==
    /\ WriteLockFree
    /\ \E u \in Umrs, d \in Attempts :
          /\ Eligible(u) /\ \A w \in 1 .. (u - 1) : ~Eligible(w)
          /\ attempt[d] = Unused /\ \A e \in 1 .. (d - 1) : attempt[e] # Unused
          /\ attempt' = [attempt EXCEPT ![d] = [of |-> u, status |-> "dispatched",
                                                late |-> FALSE, files |-> umr[u].files]]
          /\ umr' = [umr EXCEPT ![u].status = "dispatched", ![u].dispatches = @ + 1]
    /\ UNCHANGED <<repo, submission, subKills>>

Live(d) == attempt[d].status = "dispatched"

\* expires_at goes by.
TimePasses(d) ==
    /\ Live(d) /\ ~attempt[d].late
    /\ attempt' = [attempt EXCEPT ![d].late = TRUE]
    /\ UNCHANGED <<umr, repo, submission, subKills>>

\* Mutant of Struck: the limit is compared before the strike is counted.
StruckOld(r) ==
    IF r.rejects < MaxAttempts
    THEN [r EXCEPT !.rejects = @ + 1, !.status = "requeued"]
    ELSE [r EXCEPT !.rejects = @ + 1, !.status = "fallen_back_internal", !.eligible = FALSE]

\* _external_agent_apply_reject, on the task's row.
Struck(r) ==
    IF r.rejects + 1 < MaxAttempts
    THEN [r EXCEPT !.rejects = @ + 1, !.status = "requeued"]
    ELSE [r EXCEPT !.rejects = @ + 1, !.status = "fallen_back_internal", !.eligible = FALSE]

Reject(d) ==
    /\ attempt' = [attempt EXCEPT ![d].status = "rejected"]
    /\ umr' = [umr EXCEPT ![attempt[d].of] = Struck(@)]

-----------------------------------------------------------------------------
(* submit_external_agent_result *)

Submittable(d) == WriteLockFree /\ Live(d) /\ umr[attempt[d].of].there

\* The reply names another row, comes late, or its diff is not what was asked for;
\* or the allow-list has changed, or git worktree add finds the branch.
SubmitRefused(d) ==
    /\ Submittable(d)
    /\ Reject(d)
    /\ UNCHANGED <<repo, submission, subKills>>

\* The diff applies on a new branch of the attempt's own.
SubmitBegins(d) ==
    /\ Submittable(d)
    /\ ~attempt[d].late
    /\ attempt[d].files = umr[attempt[d].of].files
    /\ ~repo[d].branch
    /\ repo' = [repo EXCEPT ![d].branch = TRUE]
    /\ submission' = [pc |-> "gates", id |-> d]
    /\ UNCHANGED <<umr, attempt, subKills>>

\* git apply, the commit or the gates fail; or the push does.
SubmitFails ==
    /\ submission.pc \in {"gates", "push"}
    /\ Reject(submission.id)
    /\ submission' = NoSubmission
    /\ UNCHANGED <<repo, subKills>>

SubmitGoesOn ==
    /\ submission.pc \in {"gates", "push"}
    /\ submission' = [submission EXCEPT !.pc = IF @ = "gates" THEN "push" ELSE "pr"]
    /\ UNCHANGED <<umr, attempt, repo, subKills>>

\* The gates lose the build lock: quality-gate.sh calls the register to requeue a
\* row, which waits for the write lock its own grandparent has.
GatesLoseBuildLock ==
    /\ submission.pc = "gates"
    /\ submission' = [submission EXCEPT !.pc = "stuck"]
    /\ UNCHANGED <<umr, attempt, repo, subKills>>

\* gh pr create opens it, and says so.
OpenPr ==
    /\ submission.pc = "pr"
    /\ repo' = [repo EXCEPT ![submission.id].prs = @ + 1]
    /\ submission' = [submission EXCEPT !.pc = "record"]
    /\ UNCHANGED <<umr, attempt, subKills>>

\* gh pr create fails with and without its label, having opened it or not.
PrFails ==
    /\ submission.pc = "pr"
    /\ Reject(submission.id)
    /\ \E opened \in 0 .. 1 : repo' = [repo EXCEPT ![submission.id].prs = @ + opened]
    /\ submission' = NoSubmission
    /\ UNCHANGED subKills

Accept ==
    /\ submission.pc = "record"
    /\ attempt' = [attempt EXCEPT ![submission.id].status = "accepted"]
    /\ umr' = [umr EXCEPT ![attempt[submission.id].of].status = "pr_open"]
    /\ submission' = NoSubmission
    /\ UNCHANGED <<repo, subKills>>

\* The flock goes with the process and the transaction is rolled back.
SubmitKilled ==
    /\ ~WriteLockFree
    /\ subKills < MaxSubKills
    /\ subKills' = subKills + 1
    /\ submission' = NoSubmission
    /\ UNCHANGED <<umr, attempt, repo>>

-----------------------------------------------------------------------------

\* expire_external_agent_dispatches: all late attempts in one transaction.
Expire ==
    LET late == {d \in Attempts : Live(d) /\ attempt[d].late}
    IN /\ WriteLockFree
       /\ late # {}
       /\ attempt' = [d \in Attempts |->
                        IF d \in late THEN [attempt[d] EXCEPT !.status = "expired"] ELSE attempt[d]]
       /\ umr' = [u \in Umrs |->
                    IF umr[u].there /\ \E d \in late : attempt[d].of = u
                    THEN Struck(umr[u]) ELSE umr[u]]
       /\ UNCHANGED <<repo, submission, subKills>>

\* delete_task: a row that is queued, as a marked row may be, goes.
DeleteRow(u) ==
    /\ WriteLockFree
    /\ umr[u].there
    /\ umr' = [umr EXCEPT ![u].there = FALSE]
    /\ UNCHANGED <<attempt, repo, submission, subKills>>

SubmitStep == SubmitFails \/ SubmitGoesOn \/ GatesLoseBuildLock \/ OpenPr \/ PrFails \/ Accept

ExtNext ==
    \/ \E u \in Umrs : MarkEligible(u) \/ DeleteRow(u)
    \/ GetNext
    \/ \E d \in Attempts : TimePasses(d) \/ SubmitRefused(d) \/ SubmitBegins(d)
    \/ SubmitStep \/ SubmitKilled
    \/ Expire

ExtSpec == ExtInit /\ [][ExtNext]_xvars

\* A submission's own steps are taken: git, gh and the gates return, but for a
\* child that waits for the lock.
ExtFairSpec == ExtSpec /\ WF_xvars(SubmitStep)

-----------------------------------------------------------------------------
(* Properties *)

\* The strikes and the hand-outs on a row are those of its attempts, through expiry,
\* refused and killed submissions and repeated marking: never more than MaxAttempts,
\* one reply awaited at a time, and a task that used them up is out of the channel
\* ("A 3rd is never issued", superboss-register.py:9947).  An attempt opens one pull
\* request at the most, however often its reply is pasted after a kill, and one that is
\* accepted has opened it.
AttemptsAccounted ==
    /\ \A u \in {w \in Umrs : umr[w].there} :
        LET its(S) == {d \in Attempts : attempt[d].of = u /\ attempt[d].status \in S}
        IN /\ umr[u].rejects = Cardinality(its({"rejected", "expired"}))
           /\ umr[u].dispatches = umr[u].rejects + Cardinality(its({"dispatched", "accepted"}))
           /\ Cardinality(its({"dispatched", "accepted"})) <= 1
           /\ umr[u].status = "dispatched" <=> its({"dispatched"}) # {}
           /\ umr[u].status = "pr_open" <=> its({"accepted"}) # {}
           /\ umr[u].status = "fallen_back_internal" <=> umr[u].rejects = MaxAttempts
    /\ \A d \in Attempts :
        /\ repo[d].prs <= 1
        /\ attempt[d].status = "accepted" => repo[d].prs = 1

\* What _write_lock's docstring promises ("so this cannot deadlock"): a submission,
\* and with it the register's lock, comes to an end.
SubmissionEnds == submission.pc # "idle" ~> submission.pc = "idle"
=============================================================================
