----------------------------- MODULE OwnerPhases -----------------------------
(***************************************************************************)
(* owner_priority_sequence of superboss-register.py: the phases whose      *)
(* members go before every other row of the queue, one phase at a time.    *)
(*                                                                         *)
(* advance_owner_priority_phases reads the active phase under the write    *)
(* lock, looks for the evidence of its members with git and no lock, and   *)
(* writes under the lock again.  The governor's tick and the command both  *)
(* call it, and a forced seed may come in between.                         *)
(***************************************************************************)
EXTENDS Naturals, FiniteSets

CONSTANTS
    NumPhases,
    Members,        \* the seeded members of each phase, rows being numbers
    Advancers,      \* processes that may be in the function at once
    EvalsPerTick,   \* OWNER_PRIORITY_PHASE_MAX_EVALUATIONS_PER_TICK
    MaxReseeds      \* bound: forced seeds

Phases == 1 .. NumPhases
MemberRows == UNION {Members[p] : p \in Phases}

ASSUME PhasesAssumption ==
    /\ {NumPhases, EvalsPerTick} \subseteq Nat \ {0}
    /\ MaxReseeds \in Nat
    /\ DOMAIN Members = Phases /\ MemberRows \subseteq Nat

VARIABLES
    phase,       \* owner_priority_sequence: status, confirmed_complete_members
    override,    \* owner_priority_override
    advancer,    \* per process: where it is and what it has read and found
    proven,      \* rows completed with evidence a check would find
    verified,    \* history: rows whose evidence a check has found
    reseeds

pvars == <<phase, override, advancer, proven, verified, reseeds>>

PhaseTypeOK ==
    /\ phase \in [Phases -> [status : {"pending", "active", "complete"},
                             confirmed : SUBSET MemberRows]]
    /\ override \subseteq MemberRows
    /\ advancer \in [Advancers -> [pc : {"idle", "checks"}, phase : 0 .. NumPhases,
                                   confirmed : SUBSET MemberRows, left : SUBSET MemberRows,
                                   found : SUBSET MemberRows]]
    /\ proven \subseteq MemberRows
    /\ verified \subseteq MemberRows
    /\ reseeds \in 0 .. MaxReseeds

Seeded == [p \in Phases |-> [status |-> IF p = 1 THEN "active" ELSE "pending", confirmed |-> {}]]
Idle == [pc |-> "idle", phase |-> 0, confirmed |-> {}, left |-> {}, found |-> {}]

\* _sync_owner_priority_override: raises when two phases are active, which undoes
\* the transaction; so one that commits has one active phase at the most.
OverrideOf(seq) == UNION {Members[p] : p \in {q \in Phases : seq[q].status = "active"}}

PhaseInit ==
    /\ phase = Seeded
    /\ override = OverrideOf(Seeded)
    /\ advancer = [a \in Advancers |-> Idle]
    /\ proven = {}
    /\ verified = {}
    /\ reseeds = 0

\* The first EvalsPerTick members that are not confirmed.
Batch(p) ==
    LET todo == Members[p] \ phase[p].confirmed
    IN {m \in todo : Cardinality({k \in todo : k < m}) < EvalsPerTick}

AdvanceBegins(a) ==
    /\ advancer[a] = Idle
    /\ \E p \in Phases :
          /\ phase[p].status = "active"
          /\ advancer' = [advancer EXCEPT ![a] =
                 [pc |-> "checks", phase |-> p, confirmed |-> phase[p].confirmed,
                  left |-> Batch(p), found |-> {}]]
    /\ UNCHANGED <<phase, override, proven, verified, reseeds>>

\* All phases are complete: the override is emptied.
AdvanceNothing ==
    /\ \A p \in Phases : phase[p].status # "active"
    /\ override' = OverrideOf(phase)
    /\ UNCHANGED <<phase, advancer, proven, verified, reseeds>>

\* _umr_genuinely_completed, of one member.
AdvanceChecks(a, m) ==
    /\ m \in advancer[a].left
    /\ advancer' = [advancer EXCEPT ![a].left = @ \ {m},
                                   ![a].found = IF m \in proven THEN @ \cup {m} ELSE @]
    /\ verified' = IF m \in proven THEN verified \cup {m} ELSE verified
    /\ UNCHANGED <<phase, override, proven, reseeds>>

\* What the second section writes into the memo: the row is read again, and joined
\* with what this call read and found.
Memo(a) ==
    IF advancer[a].found = {} THEN phase[advancer[a].phase].confirmed
    ELSE phase[advancer[a].phase].confirmed \cup advancer[a].confirmed \cup advancer[a].found

\* What it decides by.
Confirmed(a) ==
    advancer[a].confirmed \cup IF advancer[a].found = {} THEN {} ELSE Memo(a)

\* Mutant of PhaseOver: it is not asked whether the phase is still the active one.
PhaseOverUnasked(a) == Members[advancer[a].phase] \subseteq Confirmed(a)

PhaseOver(a) ==
    /\ Members[advancer[a].phase] \subseteq Confirmed(a)
    /\ phase[advancer[a].phase].status = "active"

\* The first pending phase after p, if there is one.
Following(p) ==
    {q \in Phases : /\ q > p /\ phase[q].status = "pending"
                    /\ \A k \in Phases : k > p /\ phase[k].status = "pending" => q <= k}

AdvanceEnds(a) ==
    /\ advancer[a].pc = "checks" /\ advancer[a].left = {}
    /\ LET p == advancer[a].phase
           next == IF PhaseOver(a) THEN Following(p) ELSE {}
           seq == [q \in Phases |->
                     [status |-> IF q \in next THEN "active"
                                 ELSE IF q = p /\ PhaseOver(a) THEN "complete"
                                 ELSE phase[q].status,
                      confirmed |-> IF q = p THEN Memo(a) ELSE phase[q].confirmed]]
       IN /\ phase' = seq
          /\ override' = OverrideOf(seq)
    /\ advancer' = [advancer EXCEPT ![a] = Idle]
    /\ UNCHANGED <<proven, verified, reseeds>>

\* Killed, or git or the database fails: what was found is forgotten.
AdvanceFails(a) ==
    /\ advancer[a] # Idle
    /\ advancer' = [advancer EXCEPT ![a] = Idle]
    /\ UNCHANGED <<phase, override, proven, verified, reseeds>>

\* seed-owner-priority-sequence --force
Reseed ==
    /\ reseeds < MaxReseeds
    /\ reseeds' = reseeds + 1
    /\ phase' = Seeded
    /\ override' = OverrideOf(Seeded)
    /\ UNCHANGED <<advancer, proven, verified>>

\* A row is completed with its evidence, or reset to queued.
RowChanges(m) ==
    /\ proven' = IF m \in proven THEN proven \ {m} ELSE proven \cup {m}
    /\ UNCHANGED <<phase, override, advancer, verified, reseeds>>

PhaseNext ==
    \/ \E a \in Advancers :
          \/ AdvanceBegins(a) \/ AdvanceEnds(a) \/ AdvanceFails(a)
          \/ \E m \in MemberRows : AdvanceChecks(a, m)
    \/ AdvanceNothing \/ Reseed
    \/ \E m \in MemberRows : RowChanges(m)

PhaseSpec == PhaseInit /\ [][PhaseNext]_pvars

-----------------------------------------------------------------------------
(* Properties *)

\* However many processes advance the sequence and whenever it is seeded again, the
\* phases are complete up to the active one and pending after it, a complete phase
\* has had every member's evidence found, and the rows that go first are exactly the
\* members of the active phase ("the override table is never stale",
\* superboss-register.py:11157).
OnePhaseAtATime ==
    /\ \A p, q \in Phases : p < q =>
          /\ phase[q].status # "pending" => phase[p].status = "complete"
          /\ phase[p].status # "complete" => phase[q].status = "pending"
    /\ \A p \in Phases : phase[p].status = "complete" => Members[p] \subseteq verified
    /\ override = OverrideOf(phase)
=============================================================================
