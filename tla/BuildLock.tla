----------------------------- MODULE BuildLock ------------------------------
(***************************************************************************)
(* The host-wide build lock of quality-gate.sh, the requeue that gives the *)
(* worker slot back when the lock is lost, and the guard that looks for a  *)
(* holder that hangs (build_lock_liveness_guard.py).                       *)
(*                                                                         *)
(* A task's gates run inside its worker.  What outlives the worker is in   *)
(* the task's directory (the loss counter, the resume marker), in its row  *)
(* of umr_tasks, and in the worktree.                                      *)
(***************************************************************************)
EXTENDS Naturals

CONSTANTS
    Tasks,        \* tasks with a Node project, whose gates include a build
    Untracked,    \* those of them started directly, with no umr_tasks row
    LossLimit,    \* the loss at which a task waits long instead of requeuing
    MaxDeaths,     \* bound: workers killed
    NoTask

ASSUME BuildAssumption ==
    /\ Untracked \subseteq Tasks
    /\ NoTask \notin Tasks
    /\ LossLimit \in Nat \ {0}
    /\ MaxDeaths \in Nat

VARIABLES
    gate,      \* where the task's worker is
    lint,      \* RESULTS_FILE: on which worktree lint passed, in this gate run
    marker,    \* .quality-gate-lock-resume.json: the same, saved at a requeue
    sound,     \* OVERALL = 0
    losses,    \* .build-lock-loss-count, saturated at LossLimit
    lock,      \* the task whose quality-gate.sh has the flock on fd 9
    pid,       \* the process with the pid that /proc/locks gives for the flock
    row,       \* status of the task's row
    guard,     \* the liveness guard: what it does, and idle windows seen
    deaths,
    requeues,  \* history: requeues since the task last had the lock or a verdict,
               \* saturated at LossLimit
    verdict    \* what the last finished gate run said

files == <<lint, marker, sound, losses>>
bvars == <<gate, files, lock, pid, row, guard, deaths, requeues, verdict>>

\* "passed" is of the worktree as it is, "outdated" of an earlier one.
LintResults == {"none", "passed", "outdated"}
Waiting == {"short", "long", "patient"}
Gates == {"lint", "lost", "building", "leaving"} \cup Waiting
Running == Gates \cup {"working"}

BuildTypeOK ==
    /\ gate \in [Tasks -> Running \cup {"off", "done"}]
    /\ lint \in [Tasks -> LintResults]
    /\ marker \in [Tasks -> LintResults \cup {"absent"}]
    /\ sound \in [Tasks -> BOOLEAN]
    /\ losses \in [Tasks -> 0 .. LossLimit]
    /\ lock \in Tasks \cup {NoTask}
    /\ pid \in {"gone", "reused"}
    /\ row \in [Tasks -> {"none", "queued", "running"}]
    /\ guard \in [pc : {"idle", "window", "between", "confirm"}, idle : 0 .. 2, same : BOOLEAN,
                  saw : {"nothing", "no_holder", "other"}]
    /\ deaths \in 0 .. MaxDeaths
    /\ requeues \in [Tasks -> 0 .. LossLimit]
    /\ verdict \in [Tasks -> {"none", "passed", "failed"}]

IdleGuard(saw) == [pc |-> "idle", idle |-> 0, same |-> TRUE, saw |-> saw]

BuildInit ==
    /\ gate = [t \in Tasks |-> "working"]
    /\ lint = [t \in Tasks |-> "none"]
    /\ marker = [t \in Tasks |-> "absent"]
    /\ sound = [t \in Tasks |-> TRUE]
    /\ losses = [t \in Tasks |-> 0]
    /\ lock = NoTask
    /\ pid = "gone"
    /\ row = [t \in Tasks |-> IF t \in Untracked THEN "none" ELSE "running"]
    /\ guard = IdleGuard("nothing")
    /\ deaths = 0
    /\ requeues = [t \in Tasks |-> 0]
    /\ verdict = [t \in Tasks |-> "none"]

-----------------------------------------------------------------------------
(* quality-gate.sh *)

\* The worker's model, or its auto-fix, has changed the worktree or not; then
\* quality-gate.sh starts, from the resume marker if there is one.
StartGates(t) ==
    /\ gate[t] = "working"
    /\ \E changed \in BOOLEAN :
          lint' = [lint EXCEPT ![t] =
                     CASE marker[t] = "absent" -> "none"
                       [] marker[t] = "passed" /\ changed -> "outdated"
                       [] OTHER -> marker[t]]
    /\ marker' = [marker EXCEPT ![t] = "absent"]
    /\ sound' = [sound EXCEPT ![t] = TRUE]
    /\ gate' = [gate EXCEPT ![t] = "lint"]
    /\ verdict' = [verdict EXCEPT ![t] = "none"]
    /\ UNCHANGED <<losses, lock, pid, row, guard, deaths, requeues>>

\* run_gate lint: skipped when the results say it passed.
Lint(t) ==
    /\ gate[t] = "lint"
    /\ IF lint[t] # "none"
       THEN UNCHANGED <<lint, sound>>
       ELSE \/ /\ lint' = [lint EXCEPT ![t] = "passed"]
               /\ UNCHANGED sound
            \/ /\ sound' = [sound EXCEPT ![t] = FALSE]
               /\ UNCHANGED lint
    /\ gate' = [gate EXCEPT ![t] = "short"]
    /\ UNCHANGED <<marker, losses, lock, pid, row, guard, deaths, requeues, verdict>>

\* flock(1) takes the lock on the shell's fd 9 and exits: the kernel goes on to
\* name its pid, of a process that is gone, as the owner.
TakeLock(t) ==
    /\ lock = NoTask
    /\ lock' = t
    /\ pid' = "gone"
    /\ gate' = [gate EXCEPT ![t] = "building"]

\* acquire_build_lock_fd succeeds, at once or in the starvation guard's wait.
Acquire(t) ==
    /\ gate[t] \in {"short", "long"}
    /\ TakeLock(t)
    /\ losses' = [losses EXCEPT ![t] = 0]
    /\ requeues' = [requeues EXCEPT ![t] = 0]
    /\ UNCHANGED <<lint, marker, sound, row, guard, deaths, verdict>>

\* The wait of a task with no row to requeue leaves the loss counter alone.
AcquireUntracked(t) ==
    /\ gate[t] = "patient"
    /\ TakeLock(t)
    /\ requeues' = [requeues EXCEPT ![t] = 0]
    /\ UNCHANGED <<lint, marker, sound, losses, row, guard, deaths, verdict>>

\* Mutant of ShortWaitEnds: no starvation guard.
ShortWaitEndsAlways(t) ==
    /\ gate[t] = "short"
    /\ lock # NoTask
    /\ gate' = [gate EXCEPT ![t] = "lost"]
    /\ losses' = [losses EXCEPT ![t] = @ + 1]
    /\ UNCHANGED <<lint, marker, sound, lock, pid, row, guard, deaths, requeues, verdict>>

\* Mutant of ShortWaitEnds: the counter is reset before the wait, not after it.
ShortWaitEndsReset(t) ==
    /\ gate[t] = "short"
    /\ lock # NoTask
    /\ IF LossLimit = 1
       THEN gate' = [gate EXCEPT ![t] = "long"] /\ UNCHANGED losses
       ELSE /\ gate' = [gate EXCEPT ![t] = "lost"]
            /\ losses' = [losses EXCEPT ![t] = 1]
    /\ UNCHANGED <<lint, marker, sound, lock, pid, row, guard, deaths, requeues, verdict>>

\* flock -w runs out: the loss is counted, and at the limit the wait goes on.
ShortWaitEnds(t) ==
    /\ gate[t] = "short"
    /\ lock # NoTask
    /\ LET loss == losses[t] + 1
       IN IF loss >= LossLimit
          THEN /\ gate' = [gate EXCEPT ![t] = "long"]
               /\ UNCHANGED losses
          ELSE /\ gate' = [gate EXCEPT ![t] = "lost"]
               /\ losses' = [losses EXCEPT ![t] = loss]
    /\ UNCHANGED <<lint, marker, sound, lock, pid, row, guard, deaths, requeues, verdict>>

\* The run ends with a failed gate.
Fail(t) ==
    /\ sound' = [sound EXCEPT ![t] = FALSE]
    /\ verdict' = [verdict EXCEPT ![t] = "failed"]
    /\ gate' = [gate EXCEPT ![t] = "working"]
    /\ requeues' = [requeues EXCEPT ![t] = 0]

\* The long wait runs out: no fifth requeue, the build gate fails.
LongWaitEnds(t) ==
    /\ gate[t] \in {"long", "patient"}
    /\ lock # NoTask
    /\ Fail(t)
    /\ losses' = [losses EXCEPT ![t] = IF gate[t] = "long" THEN LossLimit ELSE @]
    /\ UNCHANGED <<lint, marker, lock, pid, row, guard, deaths>>

\* The results are saved and requeue-build-lock-contended resets the task's own
\* row, whatever active status it has; the worker then exits with the slot.
Requeue(t) ==
    /\ gate[t] = "lost"
    /\ row[t] # "none"
    /\ marker' = [marker EXCEPT ![t] = lint[t]]
    /\ row' = [row EXCEPT ![t] = "queued"]
    /\ requeues' = [requeues EXCEPT ![t] = IF @ < LossLimit THEN @ + 1 ELSE @]
    /\ gate' = [gate EXCEPT ![t] = "leaving"]
    /\ UNCHANGED <<lint, sound, losses, lock, pid, guard, deaths, verdict>>

\* No active row: the task waits for the lock where it is.
RequeueRefused(t) ==
    /\ gate[t] = "lost"
    /\ row[t] = "none"
    /\ gate' = [gate EXCEPT ![t] = "patient"]
    /\ UNCHANGED <<files, lock, pid, row, guard, deaths, requeues, verdict>>

\* The register could not be reached: a failed gate.
RequeueFails(t) ==
    /\ gate[t] = "lost"
    /\ Fail(t)
    /\ UNCHANGED <<lint, marker, losses, lock, pid, row, guard, deaths>>

Unlock ==
    /\ lock' = NoTask
    /\ guard' = [guard EXCEPT !.same = FALSE]
    /\ UNCHANGED pid

\* The build ends, or its timeout deaths it; the lock is freed, the tests run.
Build(t) ==
    /\ gate[t] = "building"
    /\ \E passes \in BOOLEAN :
          /\ verdict' = [verdict EXCEPT ![t] =
                           IF passes /\ sound[t] THEN "passed" ELSE "failed"]
          /\ sound' = [sound EXCEPT ![t] = sound[t] /\ passes]
    /\ Unlock
    /\ gate' = [gate EXCEPT ![t] = "working"]
    /\ UNCHANGED <<lint, marker, losses, row, deaths, requeues>>

-----------------------------------------------------------------------------
(* The worker and its row *)

\* Exit 75: the worker exits 0.  Its row may have been dispatched before.
Leave(t) ==
    /\ gate[t] = "leaving"
    /\ gate' = [gate EXCEPT ![t] = "off"]
    /\ UNCHANGED <<files, lock, pid, row, guard, deaths, requeues, verdict>>

\* The worker is through with its gates: handed over, or blocked for a person.
Finish(t) ==
    /\ gate[t] = "working"
    /\ verdict[t] # "none"
    /\ gate' = [gate EXCEPT ![t] = "done"]
    /\ UNCHANGED <<files, lock, pid, row, guard, deaths, requeues, verdict>>

\* The dispatcher starts the unit; starting one that still runs does nothing.
Dispatch(t) ==
    /\ row[t] = "queued"
    /\ row' = [row EXCEPT ![t] = "running"]
    /\ gate' = [gate EXCEPT ![t] = IF @ = "off" THEN "working" ELSE @]
    /\ UNCHANGED <<files, lock, pid, guard, deaths, requeues, verdict>>

\* The sweeps find a row that says running over a worker that does not; a task
\* with no row is started again by hand.
Recover(t) ==
    /\ gate[t] = "off"
    /\ \/ /\ row[t] = "running"
          /\ row' = [row EXCEPT ![t] = "queued"]
          /\ UNCHANGED gate
       \/ /\ row[t] = "none"
          /\ gate' = [gate EXCEPT ![t] = "working"]
          /\ UNCHANGED row
    /\ UNCHANGED <<files, lock, pid, guard, deaths, requeues, verdict>>

\* The worker dies with all of its control group; the kernel drops its lock.
\* Between saving the results and the requeue it leaves the marker behind.
Dies(t) ==
    /\ gate[t] \in Running
    /\ deaths < MaxDeaths
    /\ deaths' = deaths + 1
    /\ gate' = [gate EXCEPT ![t] = "off"]
    /\ marker' \in {marker} \cup
          IF gate[t] = "lost" THEN {[marker EXCEPT ![t] = lint[t]]} ELSE {}
    /\ lock' = IF lock = t THEN NoTask ELSE lock
    /\ UNCHANGED <<lint, sound, losses, pid, row, requeues, verdict>>

Killed(t) ==
    /\ Dies(t)
    /\ guard' = [guard EXCEPT !.same = @ /\ lock' = lock]

-----------------------------------------------------------------------------
(* build_lock_liveness_guard.py *)

\* The pid of the flock(1) that took the lock is given to another process.
PidReused ==
    /\ lock # NoTask
    /\ pid = "gone"
    /\ pid' = "reused"
    /\ UNCHANGED <<gate, files, lock, row, guard, deaths, requeues, verdict>>

\* A window begins (check_holder_liveness): /proc/locks names no holder, or names
\* one of whose process there is nothing to sample.
GuardFindsNoHolder ==
    /\ guard.pc \in {"idle", "between"}
    /\ lock = NoTask \/ pid = "gone"
    /\ guard' = IdleGuard("no_holder")
    /\ UNCHANGED <<gate, files, lock, pid, row, deaths, requeues, verdict>>

\* The holder of a second window is not compared with that of the first.
GuardWatches ==
    /\ guard.pc \in {"idle", "between"}
    /\ lock # NoTask /\ pid = "reused"
    /\ guard' = [guard EXCEPT !.pc = "window", !.same = TRUE, !.saw = "nothing"]
    /\ UNCHANGED <<gate, files, lock, pid, row, deaths, requeues, verdict>>

\* The window ends: over another holder or a busy tree, or over an idle one.
GuardWindowEnds ==
    /\ guard.pc = "window"
    /\ \/ guard' = IdleGuard("other")
       \/ /\ guard.same
          /\ guard' = [guard EXCEPT !.idle = @ + 1,
                                    !.pc = IF guard.idle = 0 THEN "between" ELSE "confirm"]
    /\ UNCHANGED <<gate, files, lock, pid, row, deaths, requeues, verdict>>

\* The last look at the holder, and killpg: whoever has the pid now.
GuardKills ==
    /\ guard.pc = "confirm"
    /\ guard' = IdleGuard("other")
    /\ \/ UNCHANGED <<gate, files, lock, deaths, row, requeues, verdict>>
       \/ guard.same /\ \E t \in Tasks : Dies(t)
    /\ UNCHANGED pid

-----------------------------------------------------------------------------

GateStep(t) ==
    \/ StartGates(t) \/ Lint(t) \/ Acquire(t) \/ AcquireUntracked(t)
    \/ ShortWaitEnds(t) \/ LongWaitEnds(t)
    \/ Requeue(t) \/ RequeueRefused(t) \/ RequeueFails(t)
    \/ Build(t) \/ Leave(t)

GuardStep ==
    \/ PidReused \/ GuardFindsNoHolder \/ GuardWatches \/ GuardWindowEnds \/ GuardKills

BuildNext ==
    \/ \E t \in Tasks :
          GateStep(t) \/ Finish(t) \/ Dispatch(t) \/ Recover(t) \/ Killed(t)
    \/ GuardStep

BuildSpec == BuildInit /\ [][BuildNext]_bvars

\* Each command of the gates returns, a build within its timeout; dispatcher and
\* sweeps are on timers.  Nobody need win the lock, and no worker need be killed.
BuildFairness ==
    \A t \in Tasks : WF_bvars(GateStep(t)) /\ WF_bvars(Dispatch(t)) /\ WF_bvars(Recover(t))

BuildFairSpec == BuildSpec /\ BuildFairness

-----------------------------------------------------------------------------
(* Properties *)

\* The starvation guard: a task gives its slot back fewer than LossLimit times in
\* a row, also over deaths between a loss and its requeue ("on the 4th consecutive
\* loss", quality-gate.sh:370).
RequeuesBounded == \A t \in Tasks : requeues[t] <= losses[t] /\ requeues[t] < LossLimit

\* What a requeued task is promised: in the end it has the lock once, or a verdict
\* ("to guarantee eventual forward progress and prevent starvation").
RequeuedIsServed == \A t \in Tasks : requeues[t] > 0 ~> requeues[t] = 0

\* What the header of quality-gate.sh promises: what passes has passed every gate
\* as it is.
PassedIsLinted == \A t \in Tasks : verdict[t] = "passed" => lint[t] = "passed"

\* What check_holder_liveness promises: it finds no holder when there is none.
GuardSeesHolder == [][GuardFindsNoHolder => lock = NoTask]_bvars
=============================================================================
