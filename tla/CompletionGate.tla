--------------------------- MODULE CompletionGate ---------------------------
(***************************************************************************)
(* What it takes to hand a task over and to complete it: the files its     *)
(* prompt names, what progress_completion_gate.py finds of them in the     *)
(* branch and in pull requests of other repositories, the quality gates'   *)
(* fixes that follow, and what veridian-task.py checkpoint refuses.        *)
(***************************************************************************)
EXTENDS Naturals, FiniteSets, Sequences

CONSTANTS Files,       \* paths of the repository
          NewFiles,    \* those that git does not track yet
          Base,        \* the last part of a path
          Skipped,     \* progress artifacts, tools and frameworks by name
          OverrideOf,  \* a frozen file's documented replacement, or itself
          Prompts,     \* sets of mentions: a path, and where the text names it
          Pulls,       \* pull requests that may come to exist
          MaxFixes, MaxRounds, MaxEdits

ASSUME GateAssumption ==
    /\ NewFiles \subseteq Files /\ Skipped \subseteq Files
    /\ OverrideOf \in [Files -> Files]
    /\ \A t \in Prompts : t \subseteq Files \X {"plain", "quoted"}
    /\ \A p \in Pulls :
        /\ p \in [own : BOOLEAN, known : BOOLEAN, named : BOOLEAN,
                  late : BOOLEAN, files : SUBSET Files]
        \* A task opens its own requests after its dispatch, and nobody else
        \* names a branch after a task that already runs.
        /\ p.own => p.late
        /\ p.named /\ p.late => p.own
    /\ {MaxFixes, MaxRounds, MaxEdits} \subseteq Nat

VARIABLES prompt,  \* prompt.txt
          tree,    \* the workspace: each file's state in git
          opened,  \* the pull requests that exist
          cited,   \* those whose URL is in result.json
          lead,    \* the first remaining step of the progress file
          points,  \* the checkpoints of task.yaml
          told,    \* the status the app was last sent
          run,     \* the worker's run: where it is, and what it is to send
          past     \* history: files changed, edits, rejections

gatekeepvars == <<prompt, tree, opened, cited, lead, points, told, run, past>>

TreeStates == {"same", "untracked", "changed", "committed"}
Leads == {"none", "BLOCKED on a", "BLOCKED on b"}
PointStatuses == {"in_progress", "pending_review", "blocked", "completed"}

GatekeepTypeOK ==
    /\ prompt \in Prompts
    /\ tree \in [Files -> TreeStates]
    /\ cited \subseteq opened /\ opened \subseteq Pulls
    /\ lead \in Leads
    /\ points \in Seq([status : PointStatuses, lead : Leads])
    /\ told \in PointStatuses \cup {"pending"}
    /\ run.at \in {"off", "agent", "ended", "asking", "passed", "rejected", "over"}
    /\ run.fixes \in 0..MaxFixes
    /\ past.edits \in 0..MaxEdits /\ past.changed \subseteq Files

\* A task is made; requests of others that do not depend on it may exist.
GatekeepInit ==
    /\ prompt \in Prompts
    /\ tree = [f \in Files |-> "same"]
    /\ opened = {p \in Pulls : ~p.own} /\ cited = {}
    /\ lead = "none" /\ points = <<>> /\ told = "pending"
    /\ run = [at |-> "off", fixes |-> 0, send |-> "none", empty |-> FALSE]
    /\ past = [edits |-> 0, changed |-> {}]

\* The files an objective names: mentioned outside quoted evidence, reasons,
\* commands and prohibitions, and none of those left out by name.
Named == {f \in Files \ Skipped : <<f, "plain">> \in prompt}

\* The differences from the merge base: committed, staged and unstaged ones
\* of tracked files.
Diff == {f \in Files : tree[f] \in {"changed", "committed"}}

\* A named file counts by its path or by its last part alone.
Matches(files) == \E n \in Named, f \in files : Base[n] = Base[f]

\* Mutant of Evidence: the request may be older than the task.
EvidenceByBranch(p) == p.known /\ p.named /\ Matches(p.files)

\* A cited request is evidence when gh answers for it and it is of a known
\* repository, its branch carries the task's id, it is not older than the
\* task, and it touches a named file.
Evidence(p) == p.known /\ p.named /\ p.late /\ Matches(p.files)

\* The documented replacement of a frozen file is in the differences.
Overridden ==
    \E n \in Named : OverrideOf[n] # n /\ OverrideOf[n] \in Diff

\* Validates the evidence of Rule 7: every field present, none a placeholder.
\* A caller may give none at all.
ValidEvidence == {"none given", "complete"}

\* Validates a hand-over's log of calls: not empty, with unknowns when a call
\* failed, but not too many of them, and a conclusion of one sentence.
ValidEnvelope == {"none given", "complete"}

\* A completed checkpoint needs a hand-over some time before, and a progress
\* file that does not still lead with the blocker of the checkpoint before.
StillBlocked ==
    /\ lead \in {"BLOCKED on a", "BLOCKED on b"}
    /\ points # <<>> /\ points[Len(points)].lead = lead

MayComplete ==
    /\ \E i \in DOMAIN points : points[i].status = "pending_review"
    /\ ~StillBlocked

\* The status as of the last checkpoint, and the checkpoint that adds one.
TaskStatus == IF points = <<>> THEN "pending" ELSE points[Len(points)].status
Point(status) == points' = Append(points, [status |-> status, lead |-> lead])

\* The worker's entrypoint starts, unless the task is over or under review.
Begins ==
    /\ run.at \in {"off", "over"} /\ run.send = "none"
    /\ TaskStatus \in {"pending", "in_progress", "blocked"}
    /\ Len(points) < MaxRounds
    /\ Point("in_progress")
    /\ run' = [run EXCEPT !.at = "agent", !.fixes = 0, !.send = "in_progress"]
    /\ UNCHANGED <<prompt, tree, opened, cited, lead, told, past>>

\* The agent edits, or undoes its edit of, one file.
Edits(f) ==
    /\ past.edits < MaxEdits
    /\ past' = [past EXCEPT !.edits = @ + 1, !.changed = @ \cup {f}]
    /\ \/ tree' = [tree EXCEPT ![f] =
                    IF f \in NewFiles /\ @ \in {"same", "untracked"}
                    THEN "untracked" ELSE "changed"]
       \/ tree[f] # "same" /\ tree' = [tree EXCEPT ![f] = "same"]

Works(f) ==
    /\ run.at = "agent" /\ run.send = "none" /\ Edits(f)
    /\ UNCHANGED <<prompt, opened, cited, lead, points, told, run>>

Committed == [f \in Files |-> IF tree[f] = "same" THEN "same" ELSE "committed"]

AgentCommits ==
    /\ run.at = "agent" /\ run.send = "none"
    /\ tree' = Committed
    /\ UNCHANGED <<prompt, opened, cited, lead, points, told, run, past>>

\* A request of this task is opened from a clone elsewhere.
OpensPull(p) ==
    /\ run.at = "agent" /\ run.send = "none" /\ p.own /\ p \notin opened
    /\ opened' = opened \cup {p}
    /\ UNCHANGED <<prompt, tree, cited, lead, points, told, run, past>>

WritesProgress(l) ==
    /\ run.at = "agent" /\ run.send = "none" /\ l # lead
    /\ lead' = l
    /\ UNCHANGED <<prompt, tree, opened, cited, points, told, run, past>>

\* The agent ends; result.json may name any request, its own or not.
AgentEnds(S) ==
    /\ run.at = "agent" /\ run.send = "none"
    /\ cited' = S
    /\ run' = [run EXCEPT !.at = "ended"]
    /\ UNCHANGED <<prompt, tree, opened, lead, points, told, past>>

HandOver ==
    /\ Point("pending_review")
    /\ run' = [run EXCEPT !.at = "over", !.send = "pending_review"]

\* A workspace without any change, untracked files included, is handed over
\* before the gate is asked.
NoOp ==
    /\ run.at = "ended" /\ \A f \in Files : tree[f] = "same"
    /\ HandOver
    /\ UNCHANGED <<prompt, tree, opened, cited, lead, told, past>>

\* The gate reads the prompt and the differences.
ReadsDiff ==
    /\ run.at = "ended" /\ \E f \in Files : tree[f] # "same"
    /\ run' = [run EXCEPT
                !.at = IF Named = {} \/ Diff = {} \/ Matches(Diff)
                       THEN "passed" ELSE "asking",
                !.empty = Diff = {}]
    /\ UNCHANGED <<prompt, tree, opened, cited, lead, points, told, past>>

\* The gate asks gh about every cited request; those it gives no answer for
\* are no evidence.
AsksGh(answered) ==
    /\ run.at = "asking"
    /\ run' = [run EXCEPT !.at = IF (\E p \in answered : Evidence(p))
                                    \/ Overridden
                                 THEN "passed" ELSE "rejected"]
    /\ UNCHANGED <<prompt, tree, opened, cited, lead, points, told, past>>

\* A rejected task is blocked, and what there is is committed and pushed.
Blocks ==
    /\ run.at = "rejected"
    /\ Point("blocked") /\ tree' = Committed
    /\ run' = [run EXCEPT !.at = "over", !.send = "blocked"]
    /\ UNCHANGED <<prompt, opened, cited, lead, told, past>>

\* A quality gate fails and the model is called again; the gate of this
\* module is not.
Fixes(f) ==
    /\ run.at = "passed" /\ run.fixes < MaxFixes /\ Edits(f)
    /\ run' = [run EXCEPT !.fixes = @ + 1]
    /\ UNCHANGED <<prompt, opened, cited, lead, points, told>>

\* The quality gates pass: everything is staged, committed and handed over.
HandsOverWork ==
    /\ run.at = "passed"
    /\ tree' = Committed /\ HandOver
    /\ UNCHANGED <<prompt, opened, cited, lead, told, past>>

\* The review's verdict, or anybody's checkpoint as completed, with evidence.
Completes(evidence, envelope) ==
    /\ run.at \in {"off", "over"} /\ run.send = "none" /\ TaskStatus # "completed"
    /\ evidence \in ValidEvidence /\ envelope \in ValidEnvelope /\ MayComplete
    /\ Point("completed")
    /\ run' = [run EXCEPT !.send = "completed"]
    /\ UNCHANGED <<prompt, tree, opened, cited, lead, told, past>>

SendsBack ==
    /\ run.at = "over" /\ run.send = "none" /\ TaskStatus = "pending_review"
    /\ Point("blocked")
    /\ run' = [run EXCEPT !.send = "blocked"]
    /\ UNCHANGED <<prompt, tree, opened, cited, lead, told, past>>

\* After every checkpoint the app is told, once; a failure is swallowed.
Tells ==
    /\ run.send # "none"
    /\ told' \in {told, run.send}
    /\ run' = [run EXCEPT !.send = "none"]
    /\ UNCHANGED <<prompt, tree, opened, cited, lead, points, past>>

GatekeepNext ==
    \/ Begins \/ AgentCommits \/ NoOp \/ ReadsDiff \/ Blocks
    \/ HandsOverWork \/ SendsBack \/ Tells
    \/ \E f \in Files : Works(f) \/ Fixes(f)
    \/ \E p \in Pulls : OpensPull(p)
    \/ \E l \in Leads : WritesProgress(l)
    \/ \E S \in SUBSET opened : AgentEnds(S)
    \/ \E S \in SUBSET cited : AsksGh(S)
    \/ \E e, l \in {"none given", "complete", "wanting"} : Completes(e, l)

GatekeepSpec == GatekeepInit /\ [][GatekeepNext]_gatekeepvars

-----------------------------------------------------------------------------
\* What the task itself changed, in its workspace or in requests of its own.
OwnFiles == past.changed \cup UNION {p.files : p \in {q \in opened : q.own}}

\* A task whose objective names files passes the gate only when the task
\* itself changed one of them or the replacement of a frozen one, here or in
\* a request it opened, or when no tracked file differs at all.
PassedOnOwnWork ==
    run.at = "passed" =>
        \/ Named = {} \/ run.empty \/ Matches(OwnFiles)
        \/ \E n \in Named : OverrideOf[n] # n /\ OverrideOf[n] \in OwnFiles

\* A task is rejected only when none of the files its objective names was
\* left changed in a tracked file.
RejectedIsBare == run.at = "rejected" => ~Matches(Diff)

\* A completed task was handed over before, and its progress file does not
\* lead with the blocker of the checkpoint before.
CompletedInOrder ==
    \A i \in DOMAIN points :
        points[i].status = "completed" =>
            /\ \E j \in 1..(i - 1) : points[j].status = "pending_review"
            /\ points[i].lead \in {"BLOCKED on a", "BLOCKED on b"}
                => points[i].lead # points[i - 1].lead

\* What the gate and the checkpoints promise together.
GateJudges == PassedOnOwnWork /\ RejectedIsBare /\ CompletedInOrder
=============================================================================
