------------------------------ MODULE QueueOrder ------------------------------
(***************************************************************************)
(* The order in which resource_governor.py serves its queue: rows of the   *)
(* owner's active phase first, then by tier, where a row is promoted by    *)
(* one tier for every interval it has waited, then by age.  One dispatch   *)
(* takes one row, when a slot is free.                                     *)
(*                                                                         *)
(* The rest of the queue may grow for ever; one row is watched.  stop,     *)
(* move_up and move_down are left out: what they write is read only by     *)
(* list_queue.                                                             *)
(***************************************************************************)
EXTENDS Naturals, SequencesExt

CONSTANTS
    LowestTier,     \* TIER_MAX
    MaxWaiting,     \* bound: rows in the queue
    MaxMeddling     \* bound: what people, phases and sweeps do to the queue

ASSUME OrderAssumption ==
    /\ {LowestTier, MaxWaiting} \subseteq Nat \ {0}
    /\ MaxMeddling \in Nat

VARIABLES
    waiting,    \* the queued rows, in the order of ts_submitted
    slotFree,   \* has_free_slot, at this moment
    submitted,  \* the watched row was submitted
    meddling

qovars == <<waiting, slotFree, submitted, meddling>>

Tiers == 0 .. LowestTier
WaitingRow == [tier : Tiers, promotions : Tiers, overridden : BOOLEAN, watched : BOOLEAN]

OrderTypeOK ==
    /\ waiting \in Seq(WaitingRow) /\ Len(waiting) <= MaxWaiting
    /\ slotFree \in BOOLEAN
    /\ submitted \in BOOLEAN
    /\ meddling \in 0 .. MaxMeddling

OrderInit ==
    /\ waiting = <<>>
    /\ slotFree = TRUE
    /\ submitted = FALSE
    /\ meddling = 0

\* Mutant of EffectivePriority: no ageing.
OwnTier(row) == row.tier

\* effective_priority
EffectivePriority(row) == IF row.tier > row.promotions THEN row.tier - row.promotions ELSE 0

\* next_queued_task
NextQueued(i) ==
    LET Overridden == {j \in DOMAIN waiting : waiting[j].overridden}
        Before(j, k) == \/ EffectivePriority(waiting[j]) < EffectivePriority(waiting[k])
                        \/ EffectivePriority(waiting[j]) = EffectivePriority(waiting[k]) /\ j < k
    IN  IF Overridden # {}
        THEN i \in Overridden /\ \A j \in Overridden : i <= j
        ELSE \A j \in DOMAIN waiting : j # i => Before(i, j)

-----------------------------------------------------------------------------
\* submit appends a row; ts_submitted is now.
Submitted(tier, watched) ==
    /\ Len(waiting) < MaxWaiting
    /\ watched => ~submitted
    /\ waiting' = Append(waiting, [tier |-> tier, promotions |-> 0, overridden |-> FALSE,
                                   watched |-> watched])
    /\ submitted' = (submitted \/ watched)
    /\ UNCHANGED <<slotFree, meddling>>

\* One more interval of row i has gone by, not before those of older rows.
Promoted(i) ==
    /\ waiting[i].promotions < LowestTier
    /\ i > 1 => waiting[i - 1].promotions > waiting[i].promotions
                \/ waiting[i - 1].promotions = LowestTier
    /\ waiting' = [waiting EXCEPT ![i].promotions = @ + 1]
    /\ UNCHANGED <<slotFree, submitted, meddling>>

\* A dispatch: whether the row is spawned or refused, it is queued no more.
Dispatches(i) ==
    /\ slotFree
    /\ NextQueued(i)
    /\ waiting' = RemoveAt(waiting, i)
    /\ UNCHANGED <<slotFree, submitted, meddling>>

\* Another dispatcher starts a worker, or the machine is under load.
SlotTaken ==
    /\ slotFree /\ slotFree' = FALSE
    /\ UNCHANGED <<waiting, submitted, meddling>>

\* A worker ends: those that do not are killed by scan_stuck_tasks.
SlotFreed ==
    /\ ~slotFree /\ slotFree' = TRUE
    /\ UNCHANGED <<waiting, submitted, meddling>>

Meddled == meddling < MaxMeddling /\ meddling' = meddling + 1

\* set_priority
SetPriority(i, tier) ==
    /\ Meddled
    /\ waiting' = [waiting EXCEPT ![i].tier = tier]
    /\ UNCHANGED <<slotFree, submitted>>

\* delete_task
Deleted(i) ==
    /\ Meddled
    /\ waiting' = RemoveAt(waiting, i)
    /\ UNCHANGED <<slotFree, submitted>>

\* The row becomes a member of the owner's active phase.
Overridden(i) ==
    /\ Meddled /\ ~waiting[i].overridden
    /\ waiting' = [waiting EXCEPT ![i].overridden = TRUE]
    /\ UNCHANGED <<slotFree, submitted>>

\* A sweep queues an old row again, which keeps its ts_submitted.
QueuedAgain(tier) ==
    /\ Meddled /\ Len(waiting) < MaxWaiting
    /\ waiting' = <<[tier |-> tier, promotions |-> LowestTier, overridden |-> FALSE,
                     watched |-> FALSE]>> \o waiting
    /\ UNCHANGED <<slotFree, submitted>>

DispatchesAny == \E i \in DOMAIN waiting : Dispatches(i)

OrderNext ==
    \/ \E tier \in Tiers, watched \in BOOLEAN : Submitted(tier, watched)
    \/ \E i \in DOMAIN waiting :
          Promoted(i) \/ Deleted(i) \/ Overridden(i) \/ \E tier \in Tiers : SetPriority(i, tier)
    \/ \E tier \in Tiers : QueuedAgain(tier)
    \/ DispatchesAny \/ SlotTaken \/ SlotFreed

\* Time passes, workers end, and the timer's dispatches, which follow one another,
\* do not always find the slot taken.
OrderFairness ==
    /\ WF_qovars(SlotFreed)
    /\ SF_qovars(DispatchesAny)
    /\ \A i \in 1 .. MaxWaiting : WF_qovars(i \in DOMAIN waiting /\ Promoted(i))

OrderSpec == OrderInit /\ [][OrderNext]_qovars /\ OrderFairness

-----------------------------------------------------------------------------
(* Properties *)

WatchedWaits == \E i \in DOMAIN waiting : waiting[i].watched

\* No row waits for ever, however many rows of higher tiers keep arriving: ageing makes
\* it the first of the highest tier in the end.
AgedIsServed == WatchedWaits ~> ~WatchedWaits
=============================================================================
