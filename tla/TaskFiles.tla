------------------------------ MODULE TaskFiles ------------------------------
(***************************************************************************)
(* The two YAML files a task is kept in: its task.yaml and its line in     *)
(* CONTROLLER.yaml.  veridian-task.py reads and replaces the first under   *)
(* the task's lock, and only then the second under the controller's, from  *)
(* what it saved.                                                          *)
(*                                                                         *)
(* Three tools take neither lock and write in place, so that a reader      *)
(* between the truncation and the write finds an empty file:               *)
(* queue-manager.py and sync-controller-back.py a task.yaml,               *)
(* repair_controller.py the CONTROLLER.                                    *)
(*                                                                         *)
(* A checkpoint or a usage record is an entry, numbered.  pending stands   *)
(* for in_progress too, and completed for every status a task ends in; the *)
(* status a line of CONTROLLER.yaml repeats is left out.                   *)
(***************************************************************************)
EXTENDS Naturals

CONSTANTS
    TaskIds,
    Callers,      \* processes that run veridian-task.py
    MaxEntries,   \* bound: entries begun
    MaxUnlocked,  \* bound: runs of the tools that take no lock
    MaxDeaths     \* bound: kills

ASSUME FilesAssumption == {MaxEntries, MaxUnlocked, MaxDeaths} \subseteq Nat

VARIABLES
    files,    \* per task: task.yaml; status "gone" has no file, "none" an empty one
    torn,     \* the tasks whose file is truncated and not yet written
    listed,   \* CONTROLLER.yaml: the tasks that have a line in it; truncated
    callers,  \* the processes of veridian-task.py
    tool,     \* queue-manager.py or sync-controller-back.py, one at a time
    repair,   \* repair_controller.py
    past      \* history: what has been done

filevars == <<files, torn, listed, callers, tool, repair, past>>

CheckpointStatuses == {"pending", "pending_review", "completed"}
FileStatuses == CheckpointStatuses \cup {"none", "gone"}
TaskFile == [status : FileStatuses, handed : BOOLEAN,
             entries : SUBSET (1 .. MaxEntries)]
NoFile == [status |-> "gone", handed |-> FALSE, entries |-> {}]
EmptyFile == [NoFile EXCEPT !.status = "none"]

FilesTypeOK ==
    /\ files \in [TaskIds -> TaskFile]
    /\ torn \subseteq TaskIds
    /\ listed.has \subseteq TaskIds /\ listed.torn \in BOOLEAN
    /\ callers \in [Callers -> [pc : {"idle", "made", "loaded", "saved", "listing"},
                                task : TaskIds \cup {"none"}, copy : TaskFile, list : SUBSET TaskIds,
                                entry : 0 .. MaxEntries]]
    /\ tool \in [pc : {"idle", "read", "writing"}, task : TaskIds \cup {"none"},
                copy : TaskFile]
    /\ repair.pc \in {"idle", "reading", "writing"} /\ repair.list \subseteq TaskIds
    /\ past \in [entries : 0 .. MaxEntries, finished : SUBSET ((1 .. MaxEntries) \X TaskIds),
                 branches : SUBSET TaskIds, created : SUBSET TaskIds,
                 overwritten : SUBSET TaskIds, rebuilt : BOOLEAN,
                 unlocked : 0 .. MaxUnlocked, deaths : 0 .. MaxDeaths]

IdleCaller == [pc |-> "idle", task |-> "none", copy |-> NoFile, list |-> {}, entry |-> 0]
IdleTool == [pc |-> "idle", task |-> "none", copy |-> NoFile]
IdleRepair == [pc |-> "idle", list |-> {}]

FilesInit ==
    /\ files = [t \in TaskIds |-> NoFile]
    /\ torn = {}
    /\ listed = [has |-> {}, torn |-> FALSE]
    /\ callers = [c \in Callers |-> IdleCaller]
    /\ tool = IdleTool
    /\ repair = IdleRepair
    /\ past = [entries |-> 0, finished |-> {}, branches |-> {}, created |-> {},
               overwritten |-> {}, rebuilt |-> FALSE, unlocked |-> 0, deaths |-> 0]

CallerIdle(c) == callers[c].pc = "idle"
HasFile(t) == files[t].status # "gone"

\* What yaml gives a command it can work with: neither nothing nor half a record.
Readable(t) == files[t].status \notin {"gone", "none"}

-----------------------------------------------------------------------------
(* veridian-task.py *)

\* task_lock, from the load to the save; controller_lock, likewise.
TaskFree(t) == \A c \in Callers : callers[c].pc = "loaded" => callers[c].task # t
ControllerFree(c) == \A d \in Callers : callers[d].pc # "listing" \/ d = c

\* create and adopt: git gives a branch and a worktree to one call only, so an id, a
\* title and a second, has one.
TakesBranch(c, t) ==
    /\ CallerIdle(c)
    /\ t \notin past.branches
    /\ past' = [past EXCEPT !.branches = @ \cup {t}]
    /\ callers' = [callers EXCEPT ![c] = [IdleCaller EXCEPT !.pc = "made", !.task = t]]
    /\ UNCHANGED <<files, torn, listed, tool, repair>>

\* A created task is pending; an adopted one has been handed over.
SavesNew(c) ==
    /\ callers[c].pc = "made"
    /\ \E status \in {"pending", "pending_review"} :
          LET new == [NoFile EXCEPT !.status = status, !.handed = (status = "pending_review")]
          IN  /\ files' = [files EXCEPT ![callers[c].task] = new]
              /\ callers' = [callers EXCEPT ![c].pc = "saved", ![c].copy = new]
    /\ UNCHANGED <<torn, listed, tool, repair, past>>

\* A checkpoint sets a status, never completed before a hand-over; a usage record
\* sets none.  Git runs for a while between this and the save.
Changes(file, status) ==
    [file EXCEPT !.status = status, !.handed = @ \/ status = "pending_review",
                 !.entries = @ \cup {past.entries + 1}]

LoadsTask(c, t, status) ==
    /\ CallerIdle(c) /\ TaskFree(t)
    /\ past.entries < MaxEntries
    /\ Readable(t) /\ t \notin torn
    /\ status = "completed" => files[t].handed \/ files[t].status = status
    /\ past' = [past EXCEPT !.entries = @ + 1]
    /\ callers' = [callers EXCEPT ![c] = [IdleCaller EXCEPT !.pc = "loaded", !.task = t,
                                          !.copy = Changes(files[t], status),
                                          !.entry = past.entries + 1]]
    /\ UNCHANGED <<files, torn, listed, tool, repair>>

\* save_task: a new file takes the old one's place, which a tool may have open.
\* Without a directory there is no file to make, and the call fails.
SavesTask(c) ==
    /\ callers[c].pc = "loaded"
    /\ LET t == callers[c].task
       IN  IF HasFile(t)
           THEN /\ files' = [files EXCEPT ![t] = callers[c].copy]
                /\ torn' = torn \ {t}
                /\ callers' = [callers EXCEPT ![c].pc = "saved"]
           ELSE /\ callers' = [callers EXCEPT ![c] = IdleCaller]
                /\ UNCHANGED <<files, torn>>
    /\ UNCHANGED <<listed, tool, repair, past>>

\* sync_controller_entry: an empty CONTROLLER is one without tasks.
LoadsController(c) ==
    /\ callers[c].pc = "saved" /\ ControllerFree(c)
    /\ callers' = [callers EXCEPT ![c].pc = "listing",
                                  ![c].list = IF listed.torn THEN {} ELSE listed.has]
    /\ UNCHANGED <<files, torn, listed, tool, repair, past>>

\* The task's line is replaced by what was saved, and the call returns.
SavesController(c) ==
    /\ callers[c].pc = "listing"
    /\ LET t == callers[c].task
       IN  /\ listed' = [has |-> callers[c].list \cup {t}, torn |-> FALSE]
           /\ past' = IF callers[c].entry = 0
                      THEN [past EXCEPT !.created = @ \cup {t}]
                      ELSE [past EXCEPT !.finished = @ \cup {<<callers[c].entry, t>>}]
    /\ callers' = [callers EXCEPT ![c] = IdleCaller]
    /\ UNCHANGED <<files, torn, tool, repair>>

CallDies(c) ==
    /\ ~CallerIdle(c) /\ past.deaths < MaxDeaths
    /\ callers' = [callers EXCEPT ![c] = IdleCaller]
    /\ past' = [past EXCEPT !.deaths = @ + 1]
    /\ UNCHANGED <<files, torn, listed, tool, repair>>

-----------------------------------------------------------------------------
(* The tools without a lock *)

\* priority, pause, resume and merge leave the status, modify sets any; the sync of
\* the finished tasks adds its mark.  An empty file is a record of nothing to the one
\* and an error to the other.
ToolReads(t) ==
    /\ tool.pc = "idle" /\ past.unlocked < MaxUnlocked
    /\ HasFile(t)
    /\ \E status \in CheckpointStatuses \cup {files[t].status} :
          tool' = [pc |-> "read", task |-> t, copy |-> [files[t] EXCEPT !.status = status]]
    /\ past' = [past EXCEPT !.unlocked = @ + 1]
    /\ UNCHANGED <<files, torn, listed, callers, repair>>

\* open(..., "w")
ToolTruncates ==
    /\ tool.pc = "read"
    /\ LET t == tool.task
       IN  IF HasFile(t)
           THEN /\ files' = [files EXCEPT ![t] = EmptyFile]
                /\ torn' = torn \cup {t}
                /\ tool' = [tool EXCEPT !.pc = "writing"]
                /\ past' = IF files[t].entries \subseteq tool.copy.entries THEN past
                           ELSE [past EXCEPT !.overwritten = @ \cup {t}]
           ELSE /\ tool' = IdleTool
                /\ UNCHANGED <<files, torn, past>>
    /\ UNCHANGED <<listed, callers, repair>>

\* What it writes goes to the file it opened, which may no longer have a name.
ToolWrites ==
    /\ tool.pc = "writing"
    /\ LET t == tool.task
       IN  /\ files' = IF t \in torn THEN [files EXCEPT ![t] = tool.copy] ELSE files
           /\ torn' = torn \ {t}
    /\ tool' = IdleTool
    /\ UNCHANGED <<listed, callers, repair, past>>

\* delete, and merge of its source: the directory goes.
ToolRemoves(t) ==
    /\ tool.pc = "idle" /\ past.unlocked < MaxUnlocked
    /\ HasFile(t)
    /\ files' = [files EXCEPT ![t] = NoFile]
    /\ torn' = torn \ {t}
    /\ past' = [past EXCEPT !.overwritten = @ \cup {t}, !.unlocked = @ + 1]
    /\ UNCHANGED <<listed, callers, tool, repair>>

ToolDies ==
    /\ tool.pc = "writing" /\ past.deaths < MaxDeaths
    /\ past' = [past EXCEPT !.deaths = @ + 1,
                            !.overwritten = IF tool.task \in torn THEN @ \cup {tool.task} ELSE @]
    /\ torn' = torn \ {tool.task}
    /\ tool' = IdleTool
    /\ UNCHANGED <<files, listed, callers, repair>>

\* repair_controller.py: every file it can see; one it cannot read stops it ...
RepairReads ==
    /\ repair.pc = "idle" /\ past.unlocked < MaxUnlocked
    /\ \A t \in TaskIds : files[t].status # "none"
    /\ repair' = [pc |-> "reading", list |-> {t \in TaskIds : HasFile(t)}]
    /\ past' = [past EXCEPT !.unlocked = @ + 1]
    /\ UNCHANGED <<files, torn, listed, callers, tool>>

\* ... and the file is truncated,
RepairTruncates ==
    /\ repair.pc = "reading"
    /\ repair' = [repair EXCEPT !.pc = "writing"]
    /\ listed' = [has |-> {}, torn |-> TRUE]
    /\ past' = [past EXCEPT !.rebuilt = TRUE]
    /\ UNCHANGED <<files, torn, callers, tool>>

\* ... and written, if it is still the one that is there.
RepairWrites ==
    /\ repair.pc = "writing"
    /\ listed' = IF listed.torn THEN [has |-> repair.list, torn |-> FALSE] ELSE listed
    /\ repair' = IdleRepair
    /\ UNCHANGED <<files, torn, callers, tool, past>>

FilesNext ==
    \/ \E c \in Callers :
          \/ SavesNew(c) \/ SavesTask(c) \/ LoadsController(c) \/ SavesController(c) \/ CallDies(c)
          \/ \E t \in TaskIds :
                \/ TakesBranch(c, t)
                \/ \E status \in CheckpointStatuses \cup {files[t].status} : LoadsTask(c, t, status)
    \/ \E t \in TaskIds : ToolReads(t) \/ ToolRemoves(t)
    \/ ToolTruncates \/ ToolWrites \/ ToolDies
    \/ RepairReads \/ RepairTruncates \/ RepairWrites

FilesSpec == FilesInit /\ [][FilesNext]_filevars

-----------------------------------------------------------------------------
(* Properties *)

\* What a call that returned has recorded stays recorded, whatever other calls did and
\* wherever they were killed: the entry is in task.yaml, unless a tool without the lock
\* wrote over a version it had not read, was killed while writing, or removed the task;
\* and a created task is in CONTROLLER.yaml, unless the repair wrote that.
NothingLost ==
    /\ \A record \in past.finished :
          record[2] \in past.overwritten \/ record[1] \in files[record[2]].entries
                                         \/ record[2] \in torn
    /\ ~past.rebuilt => past.created \subseteq listed.has
=============================================================================
