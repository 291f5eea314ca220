------------------------------ MODULE PhasePlan ------------------------------
(***************************************************************************)
(* phase-continuation-tick.py dispatches the next phase of a plan file     *)
(* when the phases it depends on are done: the file says so, and a merged  *)
(* pull request or the file on master confirms it.                         *)
(* backfill_phase_self_report.py writes a merged phase's status into the   *)
(* file and pushes it, and its audit takes unconfirmed ones back.          *)
(*                                                                         *)
(* The plan is in four places: the live copy, which anyone edits and which *)
(* may report anything, and the work tree, branch and origin of one        *)
(* repository, which backfills and audits share with no lock.  Commits and *)
(* merges move origin meanwhile; gh may not answer.                        *)
(* A status names the phase's own task; the task of the plan's meta, which *)
(* stands in where it names none, is left out.                             *)
(***************************************************************************)
EXTENDS Naturals

CONSTANTS
    NumPlanned,    \* phases of the plan, in its order
    Requires,      \* their depends_on
    Writers,       \* backfills and audits at once
    MaxOrigin,     \* bound: commits on origin
    MaxJobs        \* bound: tasks started for a phase

PlanPhases == 1 .. NumPlanned

ASSUME PlanAssumption ==
    /\ {NumPlanned, MaxOrigin, MaxJobs} \subseteq Nat \ {0}
    /\ Requires \in [PlanPhases -> SUBSET PlanPhases]

VARIABLES
    says,      \* the phases that report done: in the work tree, the branch (head), origin
    commit,    \* number of origin's commit, and of the one that head is based on
    merges,    \* phases whose task's pull request is merged
    jobs,      \* how many tasks were started for each phase
    writer,    \* per writer: what it does, where it is, its phase, the lines it holds
    continuer, \* the tick: where it is, the phase it chose
    landed     \* history: phases that some commit of origin reported done

planvars == <<says, commit, merges, jobs, writer, continuer, landed>>

NotWriting == [pc |-> "idle", kind |-> "backfill", phase |-> 1, lines |-> {}]
NotContinuing == [pc |-> "idle", phase |-> 1]

PlanTypeOK ==
    /\ says \in [work : SUBSET PlanPhases, head : SUBSET PlanPhases,
                 origin : SUBSET PlanPhases]
    /\ commit \in [origin : 0 .. MaxOrigin, base : 0 .. MaxOrigin]
    /\ merges \subseteq PlanPhases /\ landed \subseteq PlanPhases
    /\ jobs \in [PlanPhases -> 0 .. MaxJobs]
    /\ writer \in [Writers -> [pc : {"idle", "sync", "read", "write", "commit", "push"},
                               kind : {"backfill", "audit"}, phase : PlanPhases,
                               lines : SUBSET PlanPhases]]
    /\ continuer \in [pc : {"idle", "chosen", "submitted"}, phase : PlanPhases]

PlanInit ==
    /\ says = [work |-> {}, head |-> {}, origin |-> {}]
    /\ commit = [origin |-> 0, base |-> 0]
    /\ merges = {} /\ landed = {}
    /\ jobs = [p \in PlanPhases |-> 0]
    /\ writer = [w \in Writers |-> NotWriting]
    /\ continuer = NotContinuing

-----------------------------------------------------------------------------
(* The tick *)

\* _self_reports_done of the merged copies
SelfReports(p, live) == p \in live \cup says.work

\* is_phase_done: gh shows the task's pull request merged, or the branch's file agrees.
PlannedDone(p, live, answered) ==
    SelfReports(p, live) /\ (p \in merges \cap answered \/ p \in says.head)

\* find_next_phase: the first in order that is not done and whose dependencies are.
\* already_dispatched asks two listings for a task like it, and either may be silent.
Chooses ==
    /\ continuer.pc = "idle"
    /\ \E live, answered \in SUBSET PlanPhases, p \in PlanPhases :
          LET Done == {q \in PlanPhases : PlannedDone(q, live, answered)}
              Ready == {q \in PlanPhases \ Done : Requires[q] \subseteq Done}
          IN  /\ p \in Ready /\ \A q \in Ready : p <= q
              /\ jobs[p] = 0 \/ answered = {}
              /\ continuer' = [pc |-> "chosen", phase |-> p]
    /\ UNCHANGED <<says, commit, merges, jobs, writer, landed>>

\* task-gateway.py submit
SubmitsPhase ==
    /\ continuer.pc = "chosen"
    /\ continuer' = [continuer EXCEPT !.pc = "submitted"]
    /\ UNCHANGED <<says, commit, merges, jobs, writer, landed>>

\* task-gateway.py start, inside the gate, which looks at slots and not at the plan.
StartsPhase ==
    /\ continuer.pc = "submitted"
    /\ jobs[continuer.phase] < MaxJobs
    /\ jobs' = [jobs EXCEPT ![continuer.phase] = @ + 1]
    /\ continuer' = NotContinuing
    /\ UNCHANGED <<says, commit, merges, writer, landed>>

\* No slot, a refusal, a failed call, or the end of the process.
DropsPhase ==
    /\ continuer.pc # "idle"
    /\ continuer' = NotContinuing
    /\ UNCHANGED <<says, commit, merges, jobs, writer, landed>>

-----------------------------------------------------------------------------
(* Backfill and audit *)

WriterGoes(w, pc) == writer' = [writer EXCEPT ![w].pc = pc]

\* confirm_merge
ConfirmedMerge(p) == p \in merges

\* backfill_one: a merged phase that origin does not report.
BackfillBegins(w, p) ==
    /\ writer[w] = NotWriting
    /\ jobs[p] > 0 /\ ConfirmedMerge(p) /\ p \notin says.origin
    /\ writer' = [writer EXCEPT ![w] = [NotWriting EXCEPT !.pc = "sync", !.phase = p]]
    /\ UNCHANGED <<says, commit, merges, jobs, continuer, landed>>

AuditBegins(w) ==
    /\ writer[w] = NotWriting
    /\ writer' = [writer EXCEPT ![w] = [NotWriting EXCEPT !.pc = "sync", !.kind = "audit"]]
    /\ UNCHANGED <<says, commit, merges, jobs, continuer, landed>>

\* sync_repo_root: refused on uncommitted changes, otherwise fetch and reset --hard.
Syncs(w) ==
    /\ writer[w].pc = "sync"
    /\ IF says.work # says.head
       THEN /\ writer' = [writer EXCEPT ![w] = NotWriting]
            /\ UNCHANGED <<says, commit>>
       ELSE /\ says' = [says EXCEPT !.head = says.origin, !.work = says.origin]
            /\ commit' = [commit EXCEPT !.base = commit.origin]
            /\ WriterGoes(w, "read")
    /\ UNCHANGED <<merges, jobs, continuer, landed>>

\* patch_phase_block, on the lines as they are now.
ReadsToPatch(w) ==
    /\ writer[w].pc = "read" /\ writer[w].kind = "backfill"
    /\ writer' = [writer EXCEPT ![w] =
           IF writer[w].phase \in says.work THEN NotWriting
           ELSE [@ EXCEPT !.pc = "write", !.lines = says.work \cup {writer[w].phase}]]
    /\ UNCHANGED <<says, commit, merges, jobs, continuer, landed>>

\* find_all_unverified_done_blocks and the reverts; where gh or blame does not answer
\* the phase is left.
ReadsToRevert(w) ==
    /\ writer[w].pc = "read" /\ writer[w].kind = "audit"
    /\ \E reverted \in SUBSET (says.work \ merges) :
          writer' = [writer EXCEPT ![w] =
              IF reverted = {} THEN NotWriting
              ELSE [@ EXCEPT !.pc = "write", !.lines = says.work \ reverted]]
    /\ UNCHANGED <<says, commit, merges, jobs, continuer, landed>>

\* The whole file is written.
WritesPlan(w) ==
    /\ writer[w].pc = "write"
    /\ says' = [says EXCEPT !.work = writer[w].lines]
    /\ WriterGoes(w, "commit")
    /\ UNCHANGED <<commit, merges, jobs, continuer, landed>>

\* git commit of what the file is by now, which may fail and leave it uncommitted.
CommitsPlan(w) ==
    /\ writer[w].pc = "commit"
    /\ \/ /\ says' = [says EXCEPT !.head = says.work]
          /\ WriterGoes(w, "push")
       \/ /\ writer' = [writer EXCEPT ![w] = NotWriting]
          /\ UNCHANGED says
    /\ UNCHANGED <<commit, merges, jobs, continuer, landed>>

\* git push, refused unless the branch is on origin's commit.
PushesPlan(w) ==
    /\ writer[w].pc = "push"
    /\ IF commit.base = commit.origin /\ commit.origin < MaxOrigin
       THEN /\ says' = [says EXCEPT !.origin = says.head]
            /\ commit' = [origin |-> commit.origin + 1, base |-> commit.origin + 1]
       ELSE UNCHANGED <<says, commit>>
    /\ writer' = [writer EXCEPT ![w] = NotWriting]
    /\ UNCHANGED <<merges, jobs, continuer, landed>>

WriterKilled(w) ==
    /\ writer[w] # NotWriting
    /\ writer' = [writer EXCEPT ![w] = NotWriting]
    /\ UNCHANGED <<says, commit, merges, jobs, continuer, landed>>

-----------------------------------------------------------------------------
(* The others *)

\* A commit reaches origin: of a task's pull request or any other, and whatever it
\* reports done, its own phase or another's.
Lands(reported) ==
    /\ commit.origin < MaxOrigin
    /\ commit' = [commit EXCEPT !.origin = @ + 1]
    /\ says' = [says EXCEPT !.origin = @ \cup reported]
    /\ landed' = landed \cup reported
    /\ merges' \in {merges} \cup {merges \cup {p} : p \in {q \in PlanPhases : jobs[q] > 0}}
    /\ UNCHANGED <<jobs, writer, continuer>>

\* A person puts the work tree in order.
Cleaned ==
    /\ says.work # says.head
    /\ says' = [says EXCEPT !.work = says.head]
    /\ UNCHANGED <<commit, merges, jobs, writer, continuer, landed>>

PlanNext ==
    \/ Chooses \/ SubmitsPhase \/ StartsPhase \/ DropsPhase \/ Cleaned
    \/ \E w \in Writers :
          \/ \E p \in PlanPhases : BackfillBegins(w, p)
          \/ AuditBegins(w) \/ Syncs(w) \/ ReadsToPatch(w) \/ ReadsToRevert(w)
          \/ WritesPlan(w) \/ CommitsPlan(w) \/ PushesPlan(w) \/ WriterKilled(w)
    \/ \E reported \in SUBSET PlanPhases : Lands(reported)

PlanSpec == PlanInit /\ [][PlanNext]_planvars

-----------------------------------------------------------------------------
(* Properties *)

\* No phase is started on the word of the live file alone: the pull request of each
\* phase it depends on was merged, or a commit that landed on origin reported it done.
\* Backfills and audits that overwrite each other's files do not make it otherwise.
PhasesInOrder ==
    \A p \in PlanPhases : jobs[p] > 0 => Requires[p] \subseteq merges \cup landed
=============================================================================
