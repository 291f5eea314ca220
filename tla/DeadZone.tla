------------------------------- MODULE DeadZone -------------------------------
(***************************************************************************)
(* reconcile_dispatched_dead_zone.py: a row that has been dispatched for a *)
(* while and left no task directory, unit or artifact link is queued once  *)
(* more, and the second time shown to the PM instead.                      *)
(*                                                                         *)
(* A sweep reads the rows, then looks for traces and for what was done     *)
(* before, and acts under the write lock; the timer's sweep and one by     *)
(* hand may overlap.  No trace is also what a row looks like that a live   *)
(* session works on.                                                       *)
(***************************************************************************)
EXTENDS Naturals

CONSTANTS
    Sweeps,          \* sweeps that may run at once
    MaxDispatches    \* bound: dispatches of the row

ASSUME DeadZoneAssumption == MaxDispatches \in Nat \ {0}

VARIABLES
    zrow,     \* the row; at numbers its ts_dispatched
    trace,    \* a task directory, a unit or a link there is for the row
    sweep,    \* per sweep: where it is and the dispatch it has read
    decision  \* pm_decisions_pending: automatic resets, open escalations

zvars == <<zrow, trace, sweep, decision>>

NotSweeping == [pc |-> "idle", at |-> 0]

ZoneTypeOK ==
    /\ zrow \in [status : {"queued", "dispatched", "running", "terminal"},
                 at : 0 .. MaxDispatches, old : BOOLEAN]
    /\ trace \in BOOLEAN
    /\ sweep \in [Sweeps -> [pc : {"idle", "looks", "counts", "resets", "escalates"},
                             at : 0 .. MaxDispatches]]
    /\ decision \in [resets : Nat, open : Nat]

ZoneInit ==
    /\ zrow = [status |-> "queued", at |-> 0, old |-> FALSE]
    /\ trace = FALSE
    /\ sweep = [s \in Sweeps |-> NotSweeping]
    /\ decision = [resets |-> 0, open |-> 0]

-----------------------------------------------------------------------------
(* The sweep *)

\* load_dispatched_candidates
SweepLoads(s) ==
    /\ sweep[s] = NotSweeping
    /\ zrow.status = "dispatched" /\ zrow.old
    /\ sweep' = [sweep EXCEPT ![s] = [pc |-> "looks", at |-> zrow.at]]
    /\ UNCHANGED <<zrow, trace, decision>>

\* classify
SweepLooks(s) ==
    /\ sweep[s].pc = "looks"
    /\ sweep' = [sweep EXCEPT ![s] = IF trace THEN NotSweeping ELSE [@ EXCEPT !.pc = "counts"]]
    /\ UNCHANGED <<zrow, trace, decision>>

\* _prior_auto_remediation_count, _has_open_escalation
SweepCounts(s) ==
    /\ sweep[s].pc = "counts"
    /\ sweep' = [sweep EXCEPT ![s] =
           IF decision.resets = 0 THEN [@ EXCEPT !.pc = "resets"]
           ELSE IF decision.open = 0 THEN [@ EXCEPT !.pc = "escalates"]
           ELSE NotSweeping]
    /\ UNCHANGED <<zrow, trace, decision>>

\* Mutant of StillMatches: the row need only be dispatched.
StillDispatched(at) == zrow.status = "dispatched"

\* _row_still_matches_evidence
StillMatches(at) == zrow.status = "dispatched" /\ zrow.at = at

\* auto_reset_to_queued: the reset and its record are one transaction.
SweepResets(s) ==
    /\ sweep[s].pc = "resets"
    /\ IF StillMatches(sweep[s].at)
       THEN /\ zrow' = [zrow EXCEPT !.status = "queued", !.old = FALSE]
            /\ decision' = [decision EXCEPT !.resets = @ + 1]
       ELSE UNCHANGED <<zrow, decision>>
    /\ sweep' = [sweep EXCEPT ![s] = NotSweeping]
    /\ UNCHANGED trace

\* escalate: whatever the row is by now, unless there is an escalation.
SweepEscalates(s) ==
    /\ sweep[s].pc = "escalates"
    /\ decision' = IF decision.open = 0 THEN [decision EXCEPT !.open = 1] ELSE decision
    /\ sweep' = [sweep EXCEPT ![s] = NotSweeping]
    /\ UNCHANGED <<zrow, trace>>

\* Killed, or a read fails: run_sweep gives up.
SweepStops(s) ==
    /\ sweep[s] # NotSweeping
    /\ sweep' = [sweep EXCEPT ![s] = NotSweeping]
    /\ UNCHANGED <<zrow, trace, decision>>

-----------------------------------------------------------------------------
(* The row's life *)

\* The relay into a session, which leaves no trace, or the governor's spawn.
Relayed ==
    /\ zrow.status = "queued" /\ zrow.at < MaxDispatches
    /\ zrow' = [status |-> "dispatched", at |-> zrow.at + 1, old |-> FALSE]
    /\ UNCHANGED <<trace, sweep, decision>>

Spawned ==
    /\ zrow.status = "queued" /\ zrow.at < MaxDispatches
    /\ zrow' = [status |-> "running", at |-> zrow.at + 1, old |-> FALSE]
    /\ trace' = TRUE
    /\ UNCHANGED <<sweep, decision>>

\* The threshold goes by.
Ages ==
    /\ zrow.status = "dispatched" /\ ~zrow.old
    /\ zrow' = [zrow EXCEPT !.old = TRUE]
    /\ UNCHANGED <<trace, sweep, decision>>

\* insert_ocid_artifact_link, when work of the row lands.
Linked ==
    /\ ~trace
    /\ trace' = TRUE
    /\ UNCHANGED <<zrow, sweep, decision>>

\* mark-umr-terminal, by a session that was relayed to, whatever the row says now.
MarkedTerminal ==
    /\ zrow.at > 0 /\ zrow.status # "terminal"
    /\ zrow' = [zrow EXCEPT !.status = "terminal", !.old = FALSE]
    /\ UNCHANGED <<trace, sweep, decision>>

\* The PM closes the escalation.
Decided ==
    /\ decision.open > 0
    /\ decision' = [decision EXCEPT !.open = @ - 1]
    /\ UNCHANGED <<zrow, trace, sweep>>

ZoneNext ==
    \/ \E s \in Sweeps :
          \/ SweepLoads(s) \/ SweepLooks(s) \/ SweepCounts(s)
          \/ SweepResets(s) \/ SweepEscalates(s) \/ SweepStops(s)
    \/ Relayed \/ Spawned \/ Ages \/ Linked \/ MarkedTerminal \/ Decided

ZoneSpec == ZoneInit /\ [][ZoneNext]_zvars

-----------------------------------------------------------------------------
(* Properties *)

\* However sweeps overlap with each other and with dispatches, a row is queued again
\* by them once and no more, is escalated only after that, and has one escalation
\* open at a time.
ResetOnceThenEscalated ==
    /\ decision.resets <= 1
    /\ decision.open <= decision.resets
=============================================================================
