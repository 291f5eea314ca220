----------------------------- MODULE ResumeTick ------------------------------
(***************************************************************************)
(* dispatch-tick.py's resumption of interrupted workers: which tasks are   *)
(* submitted again, the slot it leaves to the other queues, and the dead   *)
(* letters of superboss-register.py that end a streak of refusals.         *)
(*                                                                         *)
(* Every call of the register may fail on its own; the tick reads before   *)
(* it submits and records after, in three transactions.                    *)
(***************************************************************************)
EXTENDS Naturals, FiniteSets

CONSTANTS
    NumResumable,   \* tasks, numbered in the order of their directories
    SlotCap,        \* CONCURRENCY_CAP
    MaxRejections,  \* MAX_CONSECUTIVE_RESUME_REJECTIONS
    MaxUpsets,      \* bound: register calls that fail, ticks killed, rows reset by hand
    MaxRefusals     \* bound: refusals counted by the history variable

ASSUME ResumeAssumption ==
    /\ {NumResumable, SlotCap, MaxRejections, MaxRefusals} \subseteq Nat \ {0}
    /\ MaxUpsets \in Nat

Resumables == 1 .. NumResumable
\* max(CONCURRENCY_CAP - 1, 1)
ReservedMax == IF SlotCap > 1 THEN SlotCap - 1 ELSE 1
\* The count could not be read: a number above every count.
Unknown == 2 * NumResumable + 1

VARIABLES
    interrupted,  \* task.yaml has one of RESUMABLE_STATUSES
    unit,         \* the task's worker unit is active
    entry,        \* the task's row: its status, and whether the trigger is the tick's
    letter,       \* resume_dead_letter
    resume,       \* the tick: pc, next task, active_resume_count, submit's answer
    refusals,     \* history: refusals since the last acceptance
    upsets

rvars == <<interrupted, unit, entry, letter, resume, refusals, upsets>>

NoTick == [pc |-> "idle", next |-> 1, count |-> 0, accepted |-> FALSE]

ResumeTypeOK ==
    /\ interrupted \in [Resumables -> BOOLEAN]
    /\ unit \in [Resumables -> BOOLEAN]
    /\ entry \in [Resumables -> [status : {"closed", "queued", "running"}, own : BOOLEAN]]
    /\ letter \in [Resumables -> [count : 0 .. MaxRejections, dead : BOOLEAN]]
    /\ resume \in [pc : {"idle", "look", "submit", "record"}, next : 1 .. NumResumable + 1,
                   count : 0 .. Unknown, accepted : BOOLEAN]
    /\ refusals \in [Resumables -> 0 .. MaxRefusals]
    /\ upsets \in 0 .. MaxUpsets

\* Workers ran when the machine went down.
ResumeInit ==
    /\ interrupted = [t \in Resumables |-> TRUE]
    /\ unit = [t \in Resumables |-> FALSE]
    /\ entry = [t \in Resumables |-> [status |-> "closed", own |-> FALSE]]
    /\ letter = [t \in Resumables |-> [count |-> 0, dead |-> FALSE]]
    /\ resume = NoTick
    /\ refusals = [t \in Resumables |-> 0]
    /\ upsets = 0

ActiveRow(t) == entry[t].status # "closed"
OwnActive == {t \in Resumables : ActiveRow(t) /\ entry[t].own}

Upset == upsets < MaxUpsets /\ upsets' = upsets + 1
Smooth == UNCHANGED upsets

-----------------------------------------------------------------------------
(* resume_interrupted_workers_tick *)

ResumeBegins ==
    /\ resume.pc = "idle"
    /\ \/ Smooth /\ resume' = [NoTick EXCEPT !.pc = "look", !.count = Cardinality(OwnActive)]
       \/ Upset /\ resume' = [NoTick EXCEPT !.pc = "look", !.count = Unknown]
    /\ UNCHANGED <<interrupted, unit, entry, letter, refusals>>

Looked(pc) ==
    resume' = [resume EXCEPT !.pc = pc, !.next = IF pc = "look" THEN @ + 1 ELSE @]

\* Mutant of WithinReserve: the cap itself.
WithinCap == resume.count = Unknown \/ resume.count < SlotCap

WithinReserve == resume.count = Unknown \/ resume.count < ReservedMax

\* Nothing to resume, or it is running, dead, active, or over the reserve.
ResumeSkips ==
    /\ resume.pc = "look" /\ resume.next <= NumResumable
    /\ LET t == resume.next
       IN ~interrupted[t] \/ unit[t] \/ letter[t].dead \/ ActiveRow(t) \/ ~WithinReserve
    /\ Looked("look")
    /\ UNCHANGED <<interrupted, unit, entry, letter, refusals, upsets>>

\* A register that cannot be read does not hold the tick up.
ResumeDecides ==
    /\ resume.pc = "look" /\ resume.next <= NumResumable
    /\ LET t == resume.next
       IN /\ interrupted[t] /\ ~unit[t] /\ WithinReserve
          /\ IF letter[t].dead \/ ActiveRow(t) THEN Upset ELSE Smooth
    /\ Looked("submit")
    /\ UNCHANGED <<interrupted, unit, entry, letter, refusals>>

\* resource_governor.submit: its own check for an active row is under the lock.
SubmitAccepted ==
    /\ resume.pc = "submit"
    /\ LET t == resume.next
       IN /\ ~ActiveRow(t)
          /\ entry' = [entry EXCEPT ![t] = [status |-> "queued", own |-> TRUE]]
          /\ refusals' = [refusals EXCEPT ![t] = 0]
    /\ resume' = [resume EXCEPT !.pc = "record", !.accepted = TRUE]
    /\ UNCHANGED <<interrupted, unit, letter, upsets>>

\* A duplicate, or too similar to some other task; or the register failed.
SubmitTurnedDown ==
    /\ resume.pc = "submit"
    /\ LET t == resume.next
       IN /\ refusals[t] < MaxRefusals
          /\ refusals' = [refusals EXCEPT ![t] = @ + 1]
    /\ resume' = [resume EXCEPT !.pc = "record", !.accepted = FALSE]
    /\ UNCHANGED <<interrupted, unit, entry, letter, upsets>>

\* record_resume_outcome
Recorded(l, accepted) ==
    IF accepted THEN [count |-> 0, dead |-> FALSE]
    ELSE IF l.dead THEN l
    ELSE [count |-> l.count + 1, dead |-> l.count + 1 >= MaxRejections]

\* _record_resume_outcome: without the register the outcome is dropped.
ResumeRecords ==
    /\ resume.pc = "record"
    /\ LET t == resume.next
       IN \/ Smooth /\ letter' = [letter EXCEPT ![t] = Recorded(@, resume.accepted)]
          \/ Upset /\ UNCHANGED letter
    /\ resume' = [resume EXCEPT !.pc = "look", !.next = @ + 1, !.accepted = FALSE,
                                !.count = IF resume.accepted /\ @ # Unknown THEN @ + 1 ELSE @]
    /\ UNCHANGED <<interrupted, unit, entry, refusals>>

ResumeEnds ==
    /\ resume.pc = "look" /\ resume.next > NumResumable
    /\ resume' = NoTick
    /\ UNCHANGED <<interrupted, unit, entry, letter, refusals, upsets>>

ResumeKilled ==
    /\ resume.pc # "idle"
    /\ Upset
    /\ resume' = NoTick
    /\ UNCHANGED <<interrupted, unit, entry, letter, refusals>>

-----------------------------------------------------------------------------
(* What goes on around the tick *)

\* The governor starts a queued row while a slot is free.
StartQueued(t) ==
    /\ entry[t].status = "queued"
    /\ Cardinality({x \in Resumables : unit[x]}) < SlotCap
    /\ entry' = [entry EXCEPT ![t].status = "running"]
    /\ unit' = [unit EXCEPT ![t] = TRUE]
    /\ UNCHANGED <<interrupted, letter, resume, refusals, upsets>>

\* The worker stops, through with its task or not.
UnitStops(t) ==
    /\ unit[t]
    /\ unit' = [unit EXCEPT ![t] = FALSE]
    /\ \E done \in BOOLEAN : interrupted' = [interrupted EXCEPT ![t] = ~done]
    /\ UNCHANGED <<entry, letter, resume, refusals, upsets>>

\* A hook or a sweep closes the row of a worker that stopped, or queues it again.
RowSettled(t) ==
    /\ entry[t].status = "running" /\ ~unit[t]
    /\ \E s \in {"closed", "queued"} : entry' = [entry EXCEPT ![t].status = s]
    /\ UNCHANGED <<interrupted, unit, letter, resume, refusals, upsets>>

\* Somebody else submits the task: the row is reused, with their trigger.
OthersSubmit(t) ==
    /\ ~ActiveRow(t)
    /\ entry' = [entry EXCEPT ![t] = [status |-> "queued", own |-> FALSE]]
    /\ UNCHANGED <<interrupted, unit, letter, resume, refusals, upsets>>

\* reset-umr-to-queued, by a person, of a row that was closed: its trigger stays.
ClosedRowReset(t) ==
    /\ ~ActiveRow(t)
    /\ Upset
    /\ entry' = [entry EXCEPT ![t].status = "queued"]
    /\ UNCHANGED <<interrupted, unit, letter, resume, refusals>>

ResumeNext ==
    \/ ResumeBegins \/ ResumeSkips \/ ResumeDecides
    \/ SubmitAccepted \/ SubmitTurnedDown \/ ResumeRecords
    \/ ResumeEnds \/ ResumeKilled
    \/ \E t \in Resumables :
          \/ StartQueued(t) \/ UnitStops(t) \/ RowSettled(t)
          \/ OthersSubmit(t) \/ ClosedRowReset(t)

ResumeSpec == ResumeInit /\ [][ResumeNext]_rvars

-----------------------------------------------------------------------------
(* Properties *)

\* The rows the tick has active never take the last slot of the cap, however large
\* the backlog and whoever else submits, closes and restarts between its count, its
\* submissions and its next count ("reserving at least one real slot that a resume
\* backlog, however large, can never claim", dispatch-tick.py:286).
ReserveKept == upsets = 0 => Cardinality(OwnActive) <= ReservedMax

\* A task that is always refused is given up after MaxRejections rows, one more for
\* each outcome that was lost; and only such a task is.
RefusalsBounded ==
    \A t \in Resumables :
        /\ refusals[t] <= MaxRejections + upsets
        /\ upsets = 0 /\ letter[t].dead => refusals[t] >= MaxRejections

\* A resume takes neither the reserved slot nor more attempts than its refusals allow.
ResumesBounded == ReserveKept /\ RefusalsBounded
=============================================================================
