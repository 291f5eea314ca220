------------------------------- MODULE PmCycle -------------------------------
(***************************************************************************)
(* pm_lifecycle.py: one command takes a task from dispatch to a merged and *)
(* certified pull request.  It polls the row, derives the state of the     *)
(* pull request and of its last audit comment from GitHub, dispatches a    *)
(* fix or an audit a few times, merges, looks again and records.           *)
(*                                                                         *)
(* Workers push and comment, the supervisor and people merge and close,    *)
(* between any two of its calls; a gh call may fail, or say the opposite   *)
(* of what it did.                                                         *)
(***************************************************************************)
EXTENDS Naturals

CONSTANTS
    MaxFixRetries,   \* --max-fix-retries
    MaxPushes        \* bound: heads of the branch

ASSUME PmAssumption == {MaxFixRetries, MaxPushes} \subseteq Nat \ {0}

VARIABLES
    pull,     \* the pull request: state, head, the last audit comment, risk tier
    passed,   \* history: the heads that were the head when a PASS was posted
    pm        \* the command: where it is, what it last read, its counters

pmvars == <<pull, passed, pm>>

Verdicts == {"none", "pass", "fail"}
Pulls == [state : {"absent", "open", "merged", "closed"}, head : 0 .. MaxPushes,
          verdict : Verdicts, stale : BOOLEAN, tier : {"tier1", "tier2"}, green : BOOLEAN]

PmTypeOK ==
    /\ pull \in Pulls
    /\ passed \subseteq 1 .. MaxPushes
    /\ pm \in [pc : {"poll", "decide", "wait", "tier", "checks", "call", "view",
                     "certified", "over"},
               read : Pulls, fixes : 0 .. MaxFixRetries, audits : 0 .. MaxFixRetries]

NoPull == [state |-> "absent", head |-> 0, verdict |-> "none", stale |-> FALSE,
           tier |-> "tier1", green |-> FALSE]

PmInit ==
    /\ pull = NoPull
    /\ passed = {}
    /\ pm = [pc |-> "poll", read |-> NoPull, fixes |-> 0, audits |-> 0]

PmGoes(pc) == pm' = [pm EXCEPT !.pc = pc]

\* independent_verify: what gh says of the pull request and its last comment; a call
\* that fails gives nothing.
PmVerifies ==
    /\ pm.pc \in {"poll", "wait"}
    /\ \E view \in {pull, [pull EXCEPT !.verdict = "none", !.stale = FALSE], NoPull} :
          pm' = [pm EXCEPT !.pc = "decide", !.read = view]
    /\ UNCHANGED <<pull, passed>>

\* The row does not leave its active statuses in time, or a dispatch is refused.
PmGivesUp ==
    /\ pm.pc \in {"poll", "wait"}
    /\ PmGoes("over")
    /\ UNCHANGED <<pull, passed>>

FreshPass == pm.read.verdict = "pass" /\ ~pm.read.stale
FreshFail == pm.read.verdict = "fail" /\ ~pm.read.stale
NeedsAudit == pm.read.state = "open" /\ pm.read.verdict = "none"

\* decide_next_action: a fix or an audit is dispatched and waited for.
PmDispatches ==
    /\ pm.pc = "decide"
    /\ \/ /\ FreshFail /\ pm.fixes < MaxFixRetries
          /\ pm' = [pm EXCEPT !.pc = "wait", !.fixes = @ + 1]
       \/ /\ ~FreshPass /\ NeedsAudit /\ pm.audits < MaxFixRetries
          /\ pm' = [pm EXCEPT !.pc = "wait", !.audits = @ + 1]
    /\ UNCHANGED <<pull, passed>>

\* Stop, or proceed with a pull request that is neither open nor merged.
PmStops ==
    /\ pm.pc = "decide"
    /\ \/ ~FreshPass /\ ~FreshFail /\ ~NeedsAudit
       \/ FreshFail /\ pm.fixes = MaxFixRetries
       \/ NeedsAudit /\ pm.audits = MaxFixRetries
       \/ FreshPass /\ pm.read.state \notin {"open", "merged"}
    /\ PmGoes("over")
    /\ UNCHANGED <<pull, passed>>

\* merge_and_reverify, for a pull request that was merged when it was read.
PmProceeds ==
    /\ pm.pc = "decide" /\ FreshPass
    /\ \/ pm.read.state = "open" /\ PmGoes("tier")
       \/ pm.read.state = "merged" /\ PmGoes("view")
    /\ UNCHANGED <<pull, passed>>

\* classify_merge_tier: anything but tier 1, or no answer, is held for the owner.
PmClassifies ==
    /\ pm.pc = "tier"
    /\ \/ pull.tier = "tier1" /\ PmGoes("checks")
       \/ PmGoes("over")
    /\ UNCHANGED <<pull, passed>>

\* The checks of the head; none at all, or no answer, is no obstacle.
PmChecks ==
    /\ pm.pc = "checks"
    /\ \/ PmGoes("call")
       \/ ~pull.green /\ PmGoes("over")
    /\ UNCHANGED <<pull, passed>>

\* gh pr merge, of whatever the head is by now; its result is not looked at.
PmMerges ==
    /\ pm.pc = "call"
    /\ \E done \in BOOLEAN :
          pull' = IF done /\ pull.state = "open" THEN [pull EXCEPT !.state = "merged"] ELSE pull
    /\ PmGoes("view")
    /\ UNCHANGED passed

\* Mutant of Merged: the call is taken at its word.
MergedAsTold == TRUE

\* The view after the merge says so.
Merged == pull.state = "merged"

\* compute_six_columns: certified when the view says merged and its checks are green.
PmRecords ==
    /\ pm.pc = "view"
    /\ \/ Merged /\ pull.green /\ FreshPass /\ PmGoes("certified")
       \/ PmGoes("over")
    /\ UNCHANGED <<pull, passed>>

-----------------------------------------------------------------------------
(* The others *)

\* A worker opens the pull request or pushes to it.  A commit that is older than
\* the last comment leaves the comment fresh.
Push ==
    /\ pull.state \in {"absent", "open"} /\ pull.head < MaxPushes
    /\ \E tier \in {"tier1", "tier2"}, later \in BOOLEAN :
          pull' = [pull EXCEPT !.state = "open", !.head = @ + 1, !.tier = tier, !.green = FALSE,
                               !.stale = @ \/ (later /\ pull.verdict # "none")]
    /\ UNCHANGED <<passed, pm>>

ChecksPass ==
    /\ pull.head > 0 /\ ~pull.green
    /\ pull' = [pull EXCEPT !.green = TRUE]
    /\ UNCHANGED <<passed, pm>>

AuditComment ==
    /\ pull.head > 0
    /\ \E v \in {"pass", "fail"} :
          /\ pull' = [pull EXCEPT !.verdict = v, !.stale = FALSE]
          /\ passed' = IF v = "pass" THEN passed \cup {pull.head} ELSE passed
    /\ UNCHANGED pm

\* The supervisor or a person.
MergedOrClosed ==
    /\ pull.state = "open"
    /\ \E s \in {"merged", "closed"} : pull' = [pull EXCEPT !.state = s]
    /\ UNCHANGED <<passed, pm>>

PmNext ==
    \/ PmVerifies \/ PmGivesUp \/ PmDispatches \/ PmStops \/ PmProceeds
    \/ PmClassifies \/ PmChecks \/ PmMerges \/ PmRecords
    \/ Push \/ ChecksPass \/ AuditComment \/ MergedOrClosed

PmSpec == PmInit /\ [][PmNext]_pmvars

-----------------------------------------------------------------------------
(* Properties *)

\* A certified task is merged, with green checks, and a head of its branch was passed
\* by an audit ("no self-certification"): whatever gh pr merge said, whoever merged,
\* and however the pull request moved while the command looked away.
CertifiedIsReal ==
    pm.pc = "certified" => pull.state = "merged" /\ pull.green /\ passed # {}
=============================================================================
