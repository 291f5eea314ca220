----------------------------- MODULE OcidRegistry -----------------------------
(***************************************************************************)
(* ocid_canonical_registry of superboss-register.py is rewritten row by    *)
(* row, all columns, by the resolver's command and by three batch scripts, *)
(* which read the rows long before they take the write lock.  A write      *)
(* whose status claims that the work is completed or verified is refused   *)
(* unless its evidence has the required keys; a refusal ends the batch and *)
(* commits what it wrote.                                                  *)
(*                                                                         *)
(* ocid_lifecycle_state, for one OCID, shares no state with it: the row is *)
(* read before the write lock is taken and written under it.               *)
(***************************************************************************)
EXTENDS Naturals

CONSTANTS
    NumOcids,     \* rows of the registry, numbered in the order the batches take
    NumBatches    \* batch scripts that may run at once

ASSUME OcidAssumption == {NumOcids, NumBatches} \subseteq Nat \ {0}

Ocids == 1 .. NumOcids
Batches == 1 .. NumBatches

VARIABLES
    ocid,        \* ocid_canonical_registry
    batch,       \* per running script: which, and the rows as it read them
    life,        \* ocid_lifecycle_state: the row of one OCID
    caller,      \* a transition that has read it and awaits the lock
    reached      \* history: the states that audited transitions led to

ovars == <<ocid, batch>>
lifevars == <<life, caller, reached>>

\* claim: the status says completed or verified.  schema: evidence_json has the
\* required keys.
OcidRows == [umr : BOOLEAN, claim : BOOLEAN, schema : BOOLEAN]
Scripts == {"audit", "phase2", "evidence"}

OcidTypeOK ==
    /\ ocid \in [Ocids -> OcidRows]
    /\ batch \in [Batches -> [script : Scripts \cup {"none"}, rows : [Ocids -> OcidRows]]]

Blank == [umr |-> FALSE, claim |-> FALSE, schema |-> FALSE]
NoBatch == [script |-> "none", rows |-> [o \in Ocids |-> Blank]]

\* Rows from before the evidence gate claim completion with free-form evidence.
OcidInit ==
    /\ ocid \in [Ocids -> {Blank, [Blank EXCEPT !.umr = TRUE, !.claim = TRUE]}]
    /\ batch = [b \in Batches |-> NoBatch]

-----------------------------------------------------------------------------
(* ocid_canonical_registry *)

\* Mutant of Refused: the gate looks at rows that are new.
RefusedNew(r, old) == ~old.umr /\ r.claim /\ ~r.schema

\* refuse_ocid_registry_completion_if_evidence_incomplete
Refused(r, old) == r.claim /\ ~r.schema

\* What a fresh search gives: nothing, one umr, or several for review.
Fresh == {Blank, [Blank EXCEPT !.umr = TRUE]}

\* resolve-ocid-canonical --apply: whatever the row said.
Resolve(o) ==
    /\ \E r \in Fresh : ocid' = [ocid EXCEPT ![o] = r]
    /\ UNCHANGED batch

BatchReads(b) ==
    /\ batch[b] = NoBatch
    /\ \E s \in Scripts : batch' = [batch EXCEPT ![b] = [script |-> s, rows |-> ocid]]
    /\ UNCHANGED ocid

\* What a script may write for a row it read as r.  The audit keeps a choice that
\* its fresh search still finds, status and evidence included; phase 2 is about the
\* commit and merge columns, which are not modelled, and writes the rest as read.
Planned(s, r) ==
    CASE s = "audit" -> Fresh \cup (IF r.umr THEN {r} ELSE {})
      [] s = "phase2" -> {r}
      [] OTHER -> {[r EXCEPT !.schema = TRUE]}

\* One transaction over all rows; the refusal of one commits those before it.
BatchWrites(b) ==
    /\ batch[b] # NoBatch
    /\ \E plan \in [Ocids -> OcidRows] :
          /\ \A o \in Ocids : plan[o] \in Planned(batch[b].script, batch[b].rows[o])
          /\ ocid' = [o \in Ocids |->
                        IF \E k \in 1 .. o : Refused(plan[k], ocid[k]) THEN ocid[o] ELSE plan[o]]
    /\ batch' = [batch EXCEPT ![b] = NoBatch]

\* A dry run, an interrupt, or gh and git that do not answer.
BatchStops(b) ==
    /\ batch[b] # NoBatch
    /\ batch' = [batch EXCEPT ![b] = NoBatch]
    /\ UNCHANGED ocid

OcidNext ==
    \/ \E o \in Ocids : Resolve(o)
    \/ \E b \in Batches : BatchReads(b) \/ BatchWrites(b) \/ BatchStops(b)

OcidSpec == OcidInit /\ [][OcidNext]_ovars

-----------------------------------------------------------------------------
(* Properties *)

\* A row that claims completion and has the evidence for it is never turned into one
\* that claims it without: not by a batch that read the row before the evidence was
\* written, and not by one that was stopped half way.
ClaimsStayProven ==
    [][\A o \in Ocids : ocid[o].claim /\ ocid[o].schema => (ocid'[o].claim => ocid'[o].schema)]_ocid

-----------------------------------------------------------------------------
(* ocid_lifecycle_state *)

MainPath == <<"created", "registered", "dispatched", "running", "testing",
              "pull_request_created", "merged", "verified", "closed">>
LifeStates == {MainPath[k] : k \in 1 .. 9} \cup {"failed", "rolled_back"}
Lives == [state : LifeStates \cup {"none"}, umr : 0 .. 2]

NoLife == [state |-> "none", umr |-> 0]
NoCaller == [to |-> "none", umr |-> 0]

LifeTypeOK ==
    /\ life \in Lives
    /\ caller \in [to : LifeStates \cup {"none"}, umr : 0 .. 2]
    /\ reached \subseteq LifeStates

LifeInit == life = NoLife /\ caller = NoCaller /\ reached = {}

\* OCID_LIFECYCLE_TRANSITIONS, and validate_lifecycle_transition for no state yet.
Legal(s) ==
    CASE s = "none" -> {"created"}
      [] s = "failed" -> {"rolled_back"}
      [] s \in {"closed", "rolled_back"} -> {}
      [] OTHER -> {"failed"} \cup {MainPath[k + 1] : k \in {j \in 1 .. 8 : MainPath[j] = s}}

\* One UMR per OCID, and a legal transition; both judged by the row as read.
Allowed(l, to, u) == l.umr \in {0, u} /\ to \in Legal(l.state)

\* transition_ocid_lifecycle_state, up to the write lock; what is refused changes
\* nothing but the audit log.
TransitionReads ==
    /\ caller = NoCaller
    /\ \E to \in LifeStates, u \in 1 .. 2 :
          /\ Allowed(life, to, u)
          /\ caller' = [to |-> to, umr |-> u]
    /\ UNCHANGED <<life, reached>>

TransitionWrites ==
    /\ caller # NoCaller
    /\ life' = [state |-> caller.to, umr |-> caller.umr]
    /\ reached' = reached \cup {caller.to}
    /\ caller' = NoCaller

\* Another caller that gets the lock at once.
Transition ==
    /\ \E to \in LifeStates, u \in 1 .. 2 :
          /\ Allowed(life, to, u)
          /\ life' = [state |-> to, umr |-> u]
          /\ reached' = reached \cup {to}
    /\ UNCHANGED caller

LifeNext == TransitionReads \/ TransitionWrites \/ Transition

LifeSpec == LifeInit /\ [][LifeNext]_lifevars

\* Races between transitions may lose one, undo the end of an OCID or give it another
\* UMR, but no stage is ever recorded whose legal predecessor was not: verified
\* without merged, rolled_back without failed.
NoStageSkipped ==
    /\ \A s \in reached : s \in UNION {Legal(p) : p \in reached \cup {"none"}}
    /\ life.state = "none" <=> reached = {}
    /\ life.state # "none" => life.state \in reached
=============================================================================
