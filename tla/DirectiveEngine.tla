--------------------------- MODULE DirectiveEngine ---------------------------
(***************************************************************************)
(* directive_engine.py: the entries of DIRECTIVE.yaml, handed to the       *)
(* governor one by one, pass after pass, and handed in once more when the  *)
(* first try fails.  What is remembered of the retry is a file only the    *)
(* engine writes, so that neither a restart nor another program's write to *)
(* the row makes it try again.                                             *)
(***************************************************************************)
EXTENDS Naturals, Sequences

CONSTANTS
    NumEntries,     \* priority_queue, sorted by priority
    DependsOn,      \* depends_on of each entry
    MaxTries,       \* bound: rows of an entry
    MaxMeddlings    \* bound: restarts of the engine, and requeues by other programs

Entries == 1 .. NumEntries

ASSUME DirectiveAssumption ==
    /\ {NumEntries, MaxTries} \subseteq Nat \ {0} /\ MaxMeddlings \in Nat
    /\ DependsOn \in [Entries -> SUBSET Entries]

VARIABLES
    tries,      \* umr_tasks, of each entry's identity: the statuses of its rows
    twin,       \* entries with a live row of an identity that differs by its prefix
    retried,    \* DIRECTIVE_RETRY_STATE_FILE
    review,     \* PENDING_REVIEW_FILE
    engine,     \* where the engine is, in which entry, and whether it resubmits
    again,      \* history: resubmissions the governor took, per entry
    meddlings   \* restarts and requeues so far

dirvars == <<tries, twin, retried, review, engine, again, meddlings>>

Failures == {"failed", "rejected_duplicate"}    \* and "killed", which is treated alike
TryStatuses == {"live", "completed", "completed_unmerged"} \cup Failures

DirectiveTypeOK ==
    /\ \A e \in Entries : Len(tries[e]) \in 0 .. MaxTries
                          /\ \A k \in DOMAIN tries[e] : tries[e][k] \in TryStatuses
    /\ twin \subseteq Entries /\ retried \subseteq Entries /\ review \subseteq Entries
    /\ engine \in [pc : {"look", "mark", "checks", "battery", "submit"},
                   entry : Entries, forced : BOOLEAN]
    /\ again \in [Entries -> Nat]
    /\ meddlings \in 0 .. MaxMeddlings

EngineAt(pc, e, forced) == [pc |-> pc, entry |-> e, forced |-> forced]

DirectiveInit ==
    /\ tries = [e \in Entries |-> <<>>]
    /\ twin = {} /\ retried = {} /\ review = {}
    /\ engine = EngineAt("look", 1, FALSE)
    /\ again = [e \in Entries |-> 0]
    /\ meddlings = 0

\* umr_status_for_identity: the row submitted last.
Status(e) == IF tries[e] = <<>> THEN "none" ELSE tries[e][Len(tries[e])]

LiveTry(e) == \E k \in DOMAIN tries[e] : tries[e][k] = "live"

\* main: the next entry, and after the last one the file is read again.
ToNext(e) == engine' = EngineAt("look", IF e = NumEntries THEN 1 ELSE e + 1, FALSE)

Retried(e) == e \in retried

\* note_needs_review
Flags(e) == review' = review \cup {e}

\* process_one, as far as the status it reads decides.
Look(e) ==
    /\ engine.pc = "look" /\ engine.entry = e
    /\ \/ Status(e) \in {"live", "completed"} /\ ToNext(e) /\ review' = review
       \/ Status(e) \in Failures /\ Retried(e) /\ ToNext(e) /\ Flags(e)
       \/ Status(e) \in Failures /\ ~Retried(e) /\ engine' = EngineAt("mark", e, TRUE)
          /\ review' = review
       \/ Status(e) \in {"none", "completed_unmerged"} /\ engine' = EngineAt("checks", e, FALSE)
          /\ review' = review
    /\ UNCHANGED <<tries, twin, retried, again, meddlings>>

\* Mutant of MarkRetried: the retry is remembered in the entry read from the
\* file, which the next pass reads anew.
MarkInMemory(e) ==
    /\ engine.pc = "mark" /\ engine.entry = e
    /\ engine' = [engine EXCEPT !.pc = "checks"]
    /\ UNCHANGED <<tries, twin, retried, review, again, meddlings>>

\* _mark_retried: before anything is submitted, and before it is known that
\* something will be.
MarkRetried(e) ==
    /\ engine.pc = "mark" /\ engine.entry = e
    /\ retried' = retried \cup {e}
    /\ engine' = [engine EXCEPT !.pc = "checks"]
    /\ UNCHANGED <<tries, twin, review, again, meddlings>>

\* dependencies_satisfied
DependenciesMet(e) == \A d \in DependsOn[e] : Status(d) = "completed"

\* find_in_flight_duplicate: a look that fails finds none.
TwinsSeen(e) == {FALSE, (e \in twin)}

\* process_one: an entry that waits, or is under way by another name, is passed over.
Checks(e) ==
    /\ engine.pc = "checks" /\ engine.entry = e
    /\ \/ DependenciesMet(e) /\ FALSE \in TwinsSeen(e)
          /\ engine' = [engine EXCEPT !.pc = "battery"]
       \/ (~DependenciesMet(e) \/ TRUE \in TwinsSeen(e)) /\ ToNext(e)
    /\ UNCHANGED <<tries, twin, retried, review, again, meddlings>>

\* run_check_duplicate_battery: a call of up to ninety seconds.
BatteryFinds == {"nothing", "duplicate", "failure"}

\* A duplicate and a failure are for the owner.
Battery(e) ==
    /\ engine.pc = "battery" /\ engine.entry = e
    /\ \E found \in BatteryFinds :
          IF found = "nothing" THEN engine' = [engine EXCEPT !.pc = "submit"] /\ review' = review
                               ELSE ToNext(e) /\ Flags(e)
    /\ UNCHANGED <<tries, twin, retried, again, meddlings>>

\* A live row of the identity refuses it with a row of its own, as a stop-work order does; and
\* an answer that cannot be read is taken for a refusal.
SubmitRefused(e) ==
    /\ \/ tries' = tries
       \/ Len(tries[e]) < MaxTries /\ tries' = [tries EXCEPT ![e] = Append(@, "rejected_duplicate")]
    /\ Flags(e) /\ again' = again

\* force_new_umr_id adds a row; without it the last row is used again.
SubmitTaken(e) ==
    /\ ~LiveTry(e)
    /\ IF tries[e] = <<>> \/ engine.forced
       THEN Len(tries[e]) < MaxTries /\ tries' = [tries EXCEPT ![e] = Append(@, "live")]
       ELSE tries' = [tries EXCEPT ![e][Len(tries[e])] = "live"]
    /\ review' = review
    /\ again' = [again EXCEPT ![e] = IF engine.forced THEN @ + 1 ELSE @]

\* submit_task
SubmitTask(e) ==
    /\ engine.pc = "submit" /\ engine.entry = e
    /\ ToNext(e)
    /\ SubmitRefused(e) \/ SubmitTaken(e)
    /\ UNCHANGED <<twin, retried, meddlings>>

\* The unit of the engine restarts, in the middle of a pass.
EngineRestarts ==
    /\ meddlings < MaxMeddlings
    /\ engine' = EngineAt("look", 1, FALSE)
    /\ meddlings' = meddlings + 1
    /\ UNCHANGED <<tries, twin, retried, review, again>>

\* The task of a live row ends.
TryEnds(e) ==
    /\ \E k \in DOMAIN tries[e], outcome \in {"completed", "completed_unmerged", "failed"} :
          tries[e][k] = "live" /\ tries' = [tries EXCEPT ![e][k] = outcome]
    /\ UNCHANGED <<twin, retried, review, engine, again, meddlings>>

\* Another program queues the last row again, and writes its reason.
Requeued(e) ==
    /\ meddlings < MaxMeddlings
    /\ Status(e) = "failed" /\ ~LiveTry(e)
    /\ tries' = [tries EXCEPT ![e][Len(tries[e])] = "live"]
    /\ meddlings' = meddlings + 1
    /\ UNCHANGED <<twin, retried, review, engine, again>>

\* The same work is submitted under, or ends for, the identity with the prefix.
TwinTurns(e) ==
    /\ twin' = IF e \in twin THEN twin \ {e} ELSE twin \cup {e}
    /\ UNCHANGED <<tries, retried, review, engine, again, meddlings>>

DirectiveNext ==
    \/ EngineRestarts
    \/ \E e \in Entries :
          \/ Look(e) \/ MarkRetried(e) \/ Checks(e) \/ Battery(e) \/ SubmitTask(e)
          \/ TryEnds(e) \/ Requeued(e) \/ TwinTurns(e)

DirectiveSpec == DirectiveInit /\ [][DirectiveNext]_dirvars

-----------------------------------------------------------------------------
\* The governor takes one resubmission of an entry at the most, wherever the
\* engine is restarted and whatever others write to the rows; and an entry it
\* has resubmitted is one the retry file names.
RetriedOnce ==
    \A e \in Entries : again[e] <= 1 /\ (again[e] > 0 => e \in retried)
=============================================================================
