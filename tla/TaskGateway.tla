----------------------------- MODULE TaskGateway -----------------------------
(***************************************************************************)
(* task-gateway.py, which callers use to submit an instruction, to start a *)
(* task of it and to close the task, and the dispatch of an owner's        *)
(* message by prompt_gateway, which is one such caller.                    *)
(*                                                                         *)
(* Each subcommand calls other scripts one after the other; nothing locks  *)
(* the sequence, and a caller may be killed between two of them.  A start  *)
(* makes at most one task, which goes by the start's name here.            *)
(***************************************************************************)
EXTENDS FiniteSets, Naturals

CONSTANTS
    Starts,         \* calls of start, each a process
    Titles,
    Closers,        \* calls of close
    MaxStartKills   \* bound: starts and closes killed

ASSUME GatewayAssumption == MaxStartKills \in Nat

VARIABLES
    starts,     \* per start: where it is, and its title
    claims,     \* task_claims: the titles
    tasks,      \* per start: task.yaml of the task it made, or "none"
    rows,       \* per task: its open and its closed work_items row, its knowledge verified
    mergedTasks,     \* tasks whose pull request is merged
    closers,    \* per close: where it is, and its task
    startKills

gatevars == <<starts, claims, tasks, rows, mergedTasks, closers, startKills>>

StartPlaces == {"new", "submitted", "valid", "claimed", "gated", "made", "proposed", "over"}
ClosePlaces == {"new", "audited", "closed", "checkpointed", "over"}

GateTypeOK ==
    /\ starts \in [Starts -> [pc : StartPlaces, title : Titles \cup {"none"}]]
    /\ claims \subseteq Titles
    /\ tasks \in [Starts -> {"none", "pending", "pending_review", "completed"}]
    /\ rows \in [open : SUBSET Starts, closed : SUBSET Starts, verified : SUBSET Starts]
    /\ mergedTasks \subseteq Starts
    /\ closers \in [Closers -> [pc : ClosePlaces, task : Starts \cup {"none"}]]
    /\ startKills \in 0 .. MaxStartKills

GateInit ==
    /\ starts = [s \in Starts |-> [pc |-> "new", title |-> "none"]]
    /\ claims = {}
    /\ tasks = [s \in Starts |-> "none"]
    /\ rows = [open |-> {}, closed |-> {}, verified |-> {}]
    /\ mergedTasks = {}
    /\ closers = [c \in Closers |-> [pc |-> "new", task |-> "none"]]
    /\ startKills = 0

StartGoes(s, pc) == starts' = [starts EXCEPT ![s].pc = pc]
CloseGoes(c, pc) == closers' = [closers EXCEPT ![c].pc = pc]

-----------------------------------------------------------------------------
(* submit and start *)

\* submit logs the instruction and reports what looks like a duplicate, by a search whose
\* answer may be as old as its cache; the caller goes on or not.
Submits(s, title) ==
    /\ starts[s].pc = "new"
    /\ starts' = [starts EXCEPT ![s] = [pc |-> "submitted", title |-> title]]
    /\ UNCHANGED <<claims, tasks, rows, mergedTasks, closers, startKills>>

\* An owner's message with a task's specification is submitted and started by software;
\* one that needs a word of the owner's first, or has a duplicate reported, is not.
OwnerSubmits(s, title) ==
    /\ starts[s].pc = "new"
    /\ \E pc \in {"submitted", "over"} :
          starts' = [starts EXCEPT ![s] = [pc |-> pc, title |-> title]]
    /\ UNCHANGED <<claims, tasks, rows, mergedTasks, closers, startKills>>

\* The sections, the tight validation and the DDL authorization of the prompt.
Validates(s) ==
    /\ starts[s].pc = "submitted"
    /\ StartGoes(s, "valid") \/ StartGoes(s, "over")
    /\ UNCHANGED <<claims, tasks, rows, mergedTasks, closers, startKills>>

\* Mutant of Claims: the insert does not refuse a key that is there.
ClaimsAnyway(s) ==
    /\ starts[s].pc = "valid"
    /\ claims' = claims \cup {starts[s].title}
    /\ StartGoes(s, "claimed")
    /\ UNCHANGED <<tasks, rows, mergedTasks, closers, startKills>>

\* claim-task-key: one insert, which UNIQUE(task_key) refuses.
Claims(s) ==
    /\ starts[s].pc = "valid"
    /\ LET title == starts[s].title
       IN  /\ claims' = claims \cup {title}
           /\ StartGoes(s, IF title \in claims THEN "over" ELSE "claimed")
    /\ UNCHANGED <<tasks, rows, mergedTasks, closers, startKills>>

\* The governor's stop-work orders and thresholds.  A start they block keeps its claim,
\* for ever: nothing deletes one.
PassesGate(s) ==
    /\ starts[s].pc = "claimed"
    /\ StartGoes(s, "gated") \/ StartGoes(s, "over")
    /\ UNCHANGED <<claims, tasks, rows, mergedTasks, closers, startKills>>

\* veridian-task.py create, which starts the worker.  A create that fails late, or whose
\* output cannot be read, leaves the task behind.
Makes(s) ==
    /\ starts[s].pc = "gated"
    /\ \/ /\ tasks' = [tasks EXCEPT ![s] = "pending"]
          /\ StartGoes(s, "made") \/ StartGoes(s, "over")
       \/ /\ StartGoes(s, "over")
          /\ UNCHANGED tasks
    /\ UNCHANGED <<claims, rows, mergedTasks, closers, startKills>>

\* credit-accountant.py propose: its verdict is reported and decides nothing here.
ProposesFirst(s) ==
    /\ starts[s].pc = "made"
    /\ StartGoes(s, "proposed")
    /\ UNCHANGED <<claims, tasks, rows, mergedTasks, closers, startKills>>

\* systemctl start, of a worker that is up, and the work item.
LogsStart(s) ==
    /\ starts[s].pc = "proposed"
    /\ rows' = [rows EXCEPT !.open = @ \cup {s}]
    /\ StartGoes(s, "over")
    /\ UNCHANGED <<claims, tasks, mergedTasks, closers, startKills>>

StartKilled(s) ==
    /\ starts[s].pc \notin {"new", "over"}
    /\ startKills < MaxStartKills
    /\ startKills' = startKills + 1
    /\ StartGoes(s, "over")
    /\ UNCHANGED <<claims, tasks, rows, mergedTasks, closers>>

-----------------------------------------------------------------------------
(* What the task does meanwhile *)

HandsOver(s) ==
    /\ tasks[s] = "pending"
    /\ tasks' = [tasks EXCEPT ![s] = "pending_review"]
    /\ UNCHANGED <<starts, claims, rows, mergedTasks, closers, startKills>>

\* The supervisor, or a person.
PullMerged(s) ==
    /\ tasks[s] \in {"pending_review", "completed"} /\ s \notin mergedTasks
    /\ mergedTasks' = mergedTasks \cup {s}
    /\ UNCHANGED <<starts, claims, tasks, rows, closers, startKills>>

-----------------------------------------------------------------------------
(* close *)

\* The audit command must be the one of the task's prompt; anything but DONE ends it.
Audits(c, s) ==
    /\ closers[c].pc = "new"
    /\ tasks[s] # "none"
    /\ \E pc \in {"audited", "over"} : closers' = [closers EXCEPT ![c] = [pc |-> pc, task |-> s]]
    /\ UNCHANGED <<starts, claims, tasks, rows, mergedTasks, startKills>>

\* log-work inserts a row: the open one, if there is one, stays.
LogsClose(c) ==
    /\ closers[c].pc = "audited"
    /\ rows' = [rows EXCEPT !.closed = @ \cup {closers[c].task}]
    /\ CloseGoes(c, "closed")
    /\ UNCHANGED <<starts, claims, tasks, mergedTasks, startKills>>

\* The checkpoint is refused to a task that was never handed over, and the close goes on.
ChecksIn(c) ==
    /\ closers[c].pc = "closed"
    /\ tasks' = [tasks EXCEPT ![closers[c].task] = IF @ = "pending" THEN @ ELSE "completed"]
    /\ CloseGoes(c, "checkpointed")
    /\ UNCHANGED <<starts, claims, rows, mergedTasks, startKills>>

\* check_branch_merged_to_master.  Of a branch not merged the report names a count that
\* the check does not return, and the close ends there in an exception; of another, the
\* knowledge rows and the registries are brought up to date.
Reverifies(c) ==
    /\ closers[c].pc = "checkpointed"
    /\ rows' = [rows EXCEPT !.verified = @ \cup ({closers[c].task} \cap mergedTasks)]
    /\ CloseGoes(c, "over")
    /\ UNCHANGED <<starts, claims, tasks, mergedTasks, startKills>>

CloseKilled(c) ==
    /\ closers[c].pc \notin {"new", "over"}
    /\ startKills < MaxStartKills
    /\ startKills' = startKills + 1
    /\ CloseGoes(c, "over")
    /\ UNCHANGED <<starts, claims, tasks, rows, mergedTasks>>

GateNext ==
    \/ \E s \in Starts :
          \/ Validates(s) \/ Claims(s) \/ PassesGate(s) \/ Makes(s) \/ ProposesFirst(s)
          \/ LogsStart(s) \/ StartKilled(s) \/ HandsOver(s) \/ PullMerged(s)
          \/ \E title \in Titles : Submits(s, title) \/ OwnerSubmits(s, title)
          \/ \E c \in Closers : Audits(c, s)
    \/ \E c \in Closers : LogsClose(c) \/ ChecksIn(c) \/ Reverifies(c) \/ CloseKilled(c)

GateSpec == GateInit /\ [][GateNext]_gatevars

-----------------------------------------------------------------------------
(* Properties *)

\* A title is worked on once: of starts with one title, at the same time or long after,
\* whatever submit's search answered and wherever they were killed, at most one has made
\* a task.
OneTaskPerTitle ==
    \A s, r \in Starts :
        tasks[s] # "none" /\ tasks[r] # "none" /\ starts[s].title = starts[r].title => s = r
=============================================================================
