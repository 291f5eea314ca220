-------------------------- MODULE DispatchEvidence --------------------------
(***************************************************************************)
(* What a queued veridian_task_create row must pass before it is spawned:  *)
(* the checks of submit and of _dispatch_one_inner in                      *)
(* resource_governor.py, for the submissions of one task whose title names *)
(* an OCID and a pull request to work on.                                  *)
(*                                                                         *)
(* The dispatch lock admits one dispatcher, but each check is a call of    *)
(* its own, to git, to GitHub or to the register, and the work they ask    *)
(* about goes on.  A call that fails lets the row pass, except where said. *)
(***************************************************************************)
EXTENDS Naturals, FiniteSets

CONSTANTS
    NumTries,    \* bound: rows of the task
    MaxLinked,   \* bound: submissions and links that are told apart by their time
    MaxWorked    \* bound: changes of what the checks ask about

Tries == 1 .. NumTries

ASSUME EvidenceAssumption ==
    /\ NumTries \in Nat \ {0}
    /\ {MaxLinked, MaxWorked} \subseteq Nat

Live == {"queued", "running"}
Whys == {"none", "stopped", "active", "target", "superseded", "branch", "verdict"}

VARIABLES
    try,        \* the rows, in the order of ts_submitted
    linked,     \* per row: when ocid_artifact_links got its link, 0 if it has none
    elsewhere,  \* when the OCID's last link of another task was made
    now,        \* time, as far as timestamps differ
    ordered,    \* a stop-work order without exemption is committed
    target,     \* the pull request the title names
    successor,  \* whether a closed target names one, and whether that is merged
    pull,       \* per row: the pull request of the branch of its last spawn
    opened,     \* rows that ever had one
    named,      \* another task's pull request whose title names the same target
    asking,     \* the dispatcher: the row it has picked and the next check
    worked      \* bound

evvars == <<try, linked, elsewhere, now, ordered, target, successor, pull, opened, named,
            asking, worked>>

NoTry == [status |-> "none", why |-> "none", born |-> 0, made |-> FALSE]
Checks == {"stopwork", "target", "closed", "ocid", "branch", "verdict", "spawn"}
Resting == [at |-> "idle", row |-> 1]

EvidenceTypeOK ==
    /\ try \in [Tries -> [status : Live \cup {"none", "rejected", "ended"}, why : Whys,
                          born : 0 .. MaxLinked, made : BOOLEAN]]
    /\ linked \in [Tries -> 0 .. MaxLinked]
    /\ {elsewhere, now} \subseteq 0 .. MaxLinked
    /\ ordered \in BOOLEAN
    /\ target \in {"open", "closed", "merged"}
    /\ successor \in {"none", "named", "merged"}
    /\ pull \in [Tries -> {"none", "docs", "code"}]
    /\ opened \subseteq Tries
    /\ named \in {"none", "docs", "code"}
    /\ asking \in [at : Checks \cup {"idle"}, row : Tries]
    /\ worked \in 0 .. MaxWorked

EvidenceInit ==
    /\ try = [t \in Tries |-> NoTry] /\ linked = [t \in Tries |-> 0]
    /\ elsewhere = 0 /\ now = 0 /\ ordered = FALSE
    /\ target = "open" /\ successor = "none"
    /\ pull = [t \in Tries |-> "none"] /\ opened = {} /\ named = "none"
    /\ asking = Resting /\ worked = 0

world == <<ordered, target, successor, pull, opened, named, worked>>

-----------------------------------------------------------------------------
(* submit *)

Used == {t \in Tries : try[t].status # "none"}
NextTry == Cardinality(Used) + 1
\* find_active_umr_by_identity; all rows are of one task.
Active == \E t \in Tries : try[t].status \in Live

\* A refusal is a row of its own, as a new submission is.
SubmitRefused(why) ==
    /\ NextTry \in Tries /\ now < MaxLinked
    /\ try' = [try EXCEPT ![NextTry] =
                  [NoTry EXCEPT !.status = "rejected", !.why = why, !.born = now + 1]]
    /\ now' = now + 1
    /\ UNCHANGED <<linked, elsewhere, asking, world>>

\* What a reading of the decisions committed on the trunk finds: an order stands until a
\* lift or an exemption is read, so a call that fails finds one.
OrderSeen == {TRUE, ordered}

SubmitStopped == TRUE \in OrderSeen /\ SubmitRefused("stopped")
SubmitActive == Active /\ SubmitRefused("active")

\* insert_ocid_artifact_link leaves a link that is there; it runs after ts_submitted is set.
Registered(t, at) == IF linked[t] = 0 THEN [linked EXCEPT ![t] = at] ELSE linked

\* A new row, or with the umr_id of the last one, whose ts_submitted and outputs it keeps.
SubmitAccepted(t, carriesOcid) ==
    /\ FALSE \in OrderSeen /\ ~Active /\ t \in Tries /\ t \in {NextTry, NextTry - 1}
    /\ now + 1 < MaxLinked
    /\ try' = [try EXCEPT ![t] = [@ EXCEPT !.status = "queued", !.why = "none",
                                           !.born = IF t = NextTry THEN now + 1
                                                           ELSE try[t].born]]
    /\ linked' = IF carriesOcid THEN Registered(t, now + 2) ELSE linked
    /\ now' = now + 2
    /\ UNCHANGED <<elsewhere, asking, world>>

-----------------------------------------------------------------------------
(* _dispatch_one_inner.  Refuses and Passes are the two ends of a check. *)

Refuses(check, why) ==
    /\ asking.at = check
    /\ try' = [try EXCEPT ![asking.row] = [@ EXCEPT !.status = "rejected", !.why = why]]
    /\ asking' = Resting
    /\ UNCHANGED <<linked, elsewhere, now, world>>

Passes(check, next) ==
    /\ asking.at = check /\ asking' = [asking EXCEPT !.at = next]
    /\ UNCHANGED <<try, linked, elsewhere, now, world>>

Picks(t) ==
    /\ asking.at = "idle" /\ try[t].status = "queued"
    /\ asking' = [at |-> "stopwork", row |-> t]
    /\ UNCHANGED <<try, linked, elsewhere, now, world>>

\* _stop_work_order_block_reason reads them anew.
StopWork ==
    \/ TRUE \in OrderSeen /\ Refuses("stopwork", "stopped")
    \/ FALSE \in OrderSeen /\ Passes("stopwork", "target")

\* Mutant of Succeeded: a successor is enough.
SucceededNamed == successor # "none"

\* _closed_pr_superseded_by_merged_pr: the body names a successor, which is merged.
Succeeded == successor = "merged"

\* target_pr_already_resolved, a call for the state and two for a closed one's successor
TargetResolved ==
    \/ target = "merged" /\ Refuses("target", "target")
    \/ target = "closed" /\ Passes("target", "closed")
    \/ Passes("target", "ocid")
    \/ Succeeded /\ Refuses("closed", "target")
    \/ Passes("closed", "ocid")

\* A link of the OCID newer than the row, whoever made it.
LinkedSince(t) == elsewhere > try[t].born \/ \E u \in Tries : linked[u] > try[t].born

Superseded ==
    \/ LinkedSince(asking.row) /\ Refuses("ocid", "superseded")
    \/ ~LinkedSince(asking.row) /\ Passes("ocid", "branch")

\* _recorded_new_task_ids_for_identity: two of the latest three rows, the row's own left out
Earlier(t) == {u \in Used \ {t} : try[u].made /\ u + 3 > Cardinality(Used)}

\* One that is documentation only does not count, unless the listing of its files fails.
Counts(about) == about = "code" \/ about = "docs"

\* find_pr_for_task_identity: any pull request of those branches, whatever its state
BranchPull(t) == \E u \in Earlier(t) : Counts(pull[u])

\* ... or one whose title names the same target
NamedPull == Counts(named)

DuplicatePr ==
    \/ (NamedPull \/ BranchPull(asking.row)) /\ Refuses("branch", "branch")
    \/ Passes("branch", "verdict")

\* _orchestrator_reuse_verdict_gate
ReuseVerdict == Refuses("verdict", "verdict") \/ Passes("verdict", "spawn")

\* _perform_spawn and its record; the new task has a branch of its own.
Spawns ==
    /\ asking.at = "spawn"
    /\ asking' = Resting
    /\ \/ /\ try' = [try EXCEPT ![asking.row] = [@ EXCEPT !.status = "running", !.made = TRUE]]
          /\ pull' = [pull EXCEPT ![asking.row] = "none"]
       \/ /\ try' = [try EXCEPT ![asking.row].status = "ended"]
          /\ UNCHANGED pull
    /\ UNCHANGED <<linked, elsewhere, now, ordered, target, successor, opened, named, worked>>

-----------------------------------------------------------------------------
(* The work the checks ask about *)

Ended(t) ==
    /\ try[t].status = "running"
    /\ \E s \in {"ended", "queued"} : try' = [try EXCEPT ![t].status = s]
    /\ UNCHANGED <<linked, elsewhere, now, asking, world>>

OpensPull(t, about) ==
    /\ try[t].made /\ pull[t] = "none" /\ about \in {"docs", "code"}
    /\ pull' = [pull EXCEPT ![t] = about] /\ opened' = opened \cup {t}
    /\ UNCHANGED <<try, linked, elsewhere, now, ordered, target, successor, named, asking, worked>>

\* Another task finishes the OCID's work and records it.
LinkedElsewhere ==
    /\ now < MaxLinked /\ now' = now + 1 /\ elsewhere' = now + 1
    /\ UNCHANGED <<try, linked, asking, world>>

\* Orders are committed and lifted; pull requests are merged, closed and opened again, and
\* their comments name successors.
WorldMoves ==
    /\ worked < MaxWorked /\ worked' = worked + 1
    /\ \/ ordered' = ~ordered /\ UNCHANGED <<target, successor, named>>
       \/ target # "merged" /\ target' \in {"open", "closed", "merged"} \ {target}
          /\ UNCHANGED <<ordered, successor, named>>
       \/ successor # "merged" /\ successor' = (IF successor = "none" THEN "named" ELSE "merged")
          /\ UNCHANGED <<ordered, target, named>>
       \/ named = "none" /\ named' \in {"docs", "code"} /\ UNCHANGED <<ordered, target, successor>>
    /\ UNCHANGED <<try, linked, elsewhere, now, pull, opened, asking>>

EvidenceNext ==
    \/ SubmitStopped \/ SubmitActive
    \/ \E t \in Tries, carries \in BOOLEAN : SubmitAccepted(t, carries)
    \/ \E t \in Tries : Picks(t) \/ Ended(t) \/ OpensPull(t, "docs") \/ OpensPull(t, "code")
    \/ StopWork \/ TargetResolved \/ Superseded \/ DuplicatePr \/ ReuseVerdict \/ Spawns
    \/ LinkedElsewhere \/ WorldMoves

EvidenceSpec == EvidenceInit /\ [][EvidenceNext]_evvars

-----------------------------------------------------------------------------
(* Properties *)

\* A row refused before its spawn is refused for work that exists: its target or the
\* target's successor is merged, a link of its OCID is newer than it, or another row's
\* branch or another task has a pull request; whatever moved between the calls that found
\* it and however often the rows were reused.
RefusedOnEvidence ==
    \A t \in Tries : try[t].status = "rejected" =>
        /\ try[t].why = "target" => target = "merged" \/ successor = "merged"
        /\ try[t].why = "superseded" => LinkedSince(t)
        /\ try[t].why = "branch" => opened \ {t} # {} \/ named # "none"

\* A row refused as superseded is so by another's link: "direct evidence the same OCID's
\* work was independently completed while this task waited" (resource_governor.py:4132).
\* The link may be the one that submit made for the row itself.
SupersededByOthers ==
    \A t \in Tries : try[t].why = "superseded" =>
        elsewhere > try[t].born \/ \E u \in Tries \ {t} : linked[u] > try[t].born
=============================================================================
