------------------------------ MODULE QueueTick ------------------------------
(***************************************************************************)
(* dispatch-tick.py's two file queues: gap_queue.yaml and the module       *)
(* queues.  A tick reads the task files once, and then for each queue      *)
(* loads the yaml, syncs it, creates tasks for its candidates one by one,  *)
(* and saves it.  What a killed tick created is not in the file.           *)
(***************************************************************************)
EXTENDS Naturals, FiniteSets

CONSTANTS
    GapItems, ModuleItems,
    Deps,          \* [ModuleItems -> SUBSET ModuleItems]
    MaxRetries,    \* MAX_RETRIES
    MaxCreated,    \* bound: tasks created
    MaxTickKills   \* bound: ticks killed

ASSUME QueueAssumption ==
    /\ GapItems \cap ModuleItems = {} /\ "nothing" \notin GapItems \cup ModuleItems
    /\ Deps \in [ModuleItems -> SUBSET ModuleItems]
    /\ MaxRetries \in Nat \ {0}
    /\ {MaxCreated, MaxTickKills} \subseteq Nat

Items == GapItems \cup ModuleItems
Created == 1 .. MaxCreated

VARIABLES
    queue,      \* the items, as the yaml files have them
    copy,       \* the items as the tick has them in memory
    tick,       \* the tick: where it is, and the candidates it has left
    seen,       \* task_status_sync: the task files as the tick read them
    task,       \* the tasks created: for which item, and their status
    tickKills

qvars == <<queue, copy, tick, seen, task, tickKills>>

TaskStatuses == {"none", "in_progress", "completed", "blocked", "awaiting_human_approval"}
ItemStatuses ==
    {"queued", "dispatched", "completed", "needs_retry", "stuck_needs_human",
     "awaiting_human_approval", "skipped_possible_duplicate", "dispatch_failed",
     "NEW", "RUNNING", "MERGED", "REWORK", "REVIEW"}
ItemStates == [Items -> [status : ItemStatuses, id : 0 .. MaxCreated, retries : 0 .. MaxRetries]]

QueueTypeOK ==
    /\ queue \in ItemStates
    /\ copy \in ItemStates
    /\ tick \in [pc : {"idle", "gap", "gap items", "module", "module items"},
                 left : SUBSET Items]
    /\ seen \in [Created -> TaskStatuses]
    /\ task \in [Created -> [of : Items \cup {"nothing"}, status : TaskStatuses]]
    /\ tickKills \in 0 .. MaxTickKills

NewQueue ==
    [i \in Items |-> [status |-> IF i \in GapItems THEN "queued" ELSE "NEW",
                      id |-> 0, retries |-> 0]]

NothingSeen == [n \in Created |-> "none"]

QueueInit ==
    /\ queue = NewQueue
    /\ copy = NewQueue
    /\ tick = [pc |-> "idle", left |-> {}]
    /\ seen = NothingSeen
    /\ task = [n \in Created |-> [of |-> "nothing", status |-> "none"]]
    /\ tickKills = 0

Goto(pc, left) == tick' = [pc |-> pc, left |-> left]

\* The process ends, and with it what it had in memory.
TickGone == Goto("idle", {}) /\ copy' = NewQueue /\ seen' = NothingSeen

\* The task files are read; those the queues wait for matter.
TickBegins ==
    /\ tick.pc = "idle"
    /\ seen' = [n \in Created |->
                   IF \E i \in Items : queue[i].id = n /\ queue[i].status \in {"dispatched", "RUNNING"}
                   THEN task[n].status ELSE "none"]
    /\ Goto("gap", {})
    /\ UNCHANGED <<queue, copy, task, tickKills>>

-----------------------------------------------------------------------------
(* gap_queue_tick *)

StatusOf(it) == IF it.id = 0 THEN "none" ELSE seen[it.id]

\* sync_gap_queue_statuses
GapSynced(it) ==
    IF it.status # "dispatched" THEN it
    ELSE CASE StatusOf(it) = "completed" -> [it EXCEPT !.status = "completed"]
           [] StatusOf(it) = "blocked" ->
                 [it EXCEPT !.retries = @ + 1,
                            !.status = IF it.retries + 1 >= MaxRetries
                                       THEN "stuck_needs_human" ELSE "needs_retry"]
           [] StatusOf(it) = "awaiting_human_approval" -> [it EXCEPT !.status = StatusOf(it)]
           [] OTHER -> it

\* dispatch_paused, which a person edits in the file, is set: the queue is neither
\* synced nor saved.
GapPaused ==
    /\ tick.pc = "gap"
    /\ Goto("module", {})
    /\ UNCHANGED <<queue, copy, seen, task, tickKills>>

GapLoads ==
    /\ tick.pc = "gap"
    /\ LET items == [i \in Items |-> IF i \in GapItems THEN GapSynced(queue[i]) ELSE queue[i]]
       IN /\ copy' = items
          /\ Goto("gap items", {i \in GapItems : items[i].status \in {"queued", "needs_retry"}})
    /\ UNCHANGED <<queue, seen, task, tickKills>>

Marked(i, status) == copy' = [copy EXCEPT ![i].status = status]

\* existing_scope_conflict: an open pull request or a remote branch has the name,
\* which may be of this item's own earlier attempt.
GapConflict(i) ==
    /\ tick.pc = "gap items" /\ i \in tick.left
    /\ Marked(i, "skipped_possible_duplicate")
    /\ Goto("gap items", tick.left \ {i})
    /\ UNCHANGED <<queue, seen, task, tickKills>>

NoSlot ==
    /\ tick.pc \in {"gap items", "module items"}
    /\ tick.left # {}
    /\ Goto(tick.pc, {})
    /\ UNCHANGED <<queue, copy, seen, task, tickKills>>

\* veridian-task.py create
Create(i, status) ==
    \E n \in Created :
        /\ task[n].of = "nothing" /\ \A k \in 1 .. (n - 1) : task[k].of # "nothing"
        /\ task' = [task EXCEPT ![n] = [of |-> i, status |-> "in_progress"]]
        /\ copy' = [copy EXCEPT ![i].status = status, ![i].id = n]

GapDispatches(i) ==
    /\ tick.pc = "gap items" /\ i \in tick.left
    /\ \/ Create(i, "dispatched")
       \/ Marked(i, "dispatch_failed") /\ UNCHANGED task
    /\ Goto("gap items", tick.left \ {i})
    /\ UNCHANGED <<queue, seen, tickKills>>

\* The whole file is written back.
GapSaves ==
    /\ tick.pc = "gap items" /\ tick.left = {}
    /\ queue' = [i \in Items |-> IF i \in GapItems THEN copy[i] ELSE queue[i]]
    /\ copy' = NewQueue
    /\ Goto("module", {})
    /\ UNCHANGED <<seen, task, tickKills>>

-----------------------------------------------------------------------------
(* module_queue_tick *)

\* sync_module_statuses: an item in review or rework is looked at no more.
ModuleSynced(it) ==
    IF it.status # "RUNNING" THEN it
    ELSE CASE StatusOf(it) = "completed" -> [it EXCEPT !.status = "MERGED"]
           [] StatusOf(it) = "blocked" -> [it EXCEPT !.status = "REWORK"]
           [] StatusOf(it) = "awaiting_human_approval" -> [it EXCEPT !.status = "REVIEW"]
           [] OTHER -> it

\* Mutant of DependencyMet: a dependency that is through its gates will do.
DependencyMetEarly(i, items) == \A d \in Deps[i] : items[d].status \in {"MERGED", "REVIEW"}

\* dependency_met
DependencyMet(i, items) == \A d \in Deps[i] : items[d].status = "MERGED"

\* The last use of what the tick has read of the task files.
ModuleLoads ==
    /\ tick.pc = "module"
    /\ LET items == [i \in Items |-> IF i \in ModuleItems THEN ModuleSynced(queue[i]) ELSE queue[i]]
       IN /\ copy' = items
          /\ Goto("module items",
                  {i \in ModuleItems : items[i].status = "NEW" /\ DependencyMet(i, items)})
    /\ seen' = NothingSeen
    /\ UNCHANGED <<queue, task, tickKills>>

ModuleDispatches(i) ==
    /\ tick.pc = "module items" /\ i \in tick.left
    /\ \/ Create(i, "RUNNING")
       \/ Marked(i, "REWORK") /\ UNCHANGED task
    /\ Goto("module items", tick.left \ {i})
    /\ UNCHANGED <<queue, seen, tickKills>>

ModuleSaves ==
    /\ tick.pc = "module items" /\ tick.left = {}
    /\ queue' = [i \in Items |-> IF i \in ModuleItems THEN copy[i] ELSE queue[i]]
    /\ TickGone
    /\ UNCHANGED <<task, tickKills>>

-----------------------------------------------------------------------------
(* Around the tick *)

TickKilled ==
    /\ tick.pc # "idle"
    /\ tickKills < MaxTickKills
    /\ tickKills' = tickKills + 1
    /\ TickGone
    /\ UNCHANGED <<queue, task>>

\* The worker and its review end the task; a person restarts a blocked one, and
\* merges what waits for approval.
TaskMoves(n) ==
    /\ \E s \in TaskStatuses :
          /\ <<task[n].status, s>> \in
                {"in_progress"} \X {"completed", "blocked", "awaiting_human_approval"}
                \cup {<<"blocked", "in_progress">>, <<"awaiting_human_approval", "completed">>}
          /\ task' = [task EXCEPT ![n].status = s]
    /\ UNCHANGED <<queue, copy, tick, seen, tickKills>>

QueueNext ==
    \/ TickBegins
    \/ GapPaused \/ GapLoads \/ GapSaves \/ NoSlot
    \/ \E i \in GapItems : GapConflict(i) \/ GapDispatches(i)
    \/ ModuleLoads \/ ModuleSaves
    \/ \E i \in ModuleItems : ModuleDispatches(i)
    \/ TickKilled
    \/ \E n \in Created : TaskMoves(n)

QueueSpec == QueueInit /\ [][QueueNext]_qvars

-----------------------------------------------------------------------------
(* Properties *)

Known(i) ==
    IF tick.pc = (IF i \in GapItems THEN "gap items" ELSE "module items")
    THEN copy[i] ELSE queue[i]

\* Every task created for an item is one of its counted attempts, but for one per
\* killed tick: no item is dispatched twice by stale reads, lost saves, pauses or a
\* person who restarts the task of an attempt that was written off.
CreationsCounted ==
    \A i \in Items :
        /\ Cardinality({n \in Created : task[n].of = i}) <= Known(i).retries + 1 + tickKills
        /\ Known(i).status = "stuck_needs_human" <=> Known(i).retries = MaxRetries

\* Whatever the tick read and whenever: a module item has a task only once each of
\* its dependencies has one that is completed (sync from a snapshot, eligibility
\* from the synced copy, creation after both).
DependenciesFirst ==
    \A n \in Created : task[n].of \in ModuleItems =>
        \A d \in Deps[task[n].of] :
            \E k \in Created : task[k].of = d /\ task[k].status = "completed"

\* An item's tasks are all accounted for, and begun only when those it waits for are
\* done, over stale reads, lost saves, kills and pauses of the tick.
ItemsAccounted == CreationsCounted /\ DependenciesFirst
=============================================================================
