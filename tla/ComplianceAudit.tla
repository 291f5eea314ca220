--------------------------- MODULE ComplianceAudit ---------------------------
(***************************************************************************)
(* audit_ocid_compliance.py judges the rows of one OCID by seven rules and *)
(* four facts about its file.  Each verdict is appended to a log, and      *)
(* triggers derive the flags of ocid_compliance_state from the log,        *)
(* whatever an INSERT or UPDATE says.  Meanwhile the rows change, the      *)
(* registry is written anew, people edit the state by hand, and the tick's *)
(* retention archives and deletes old entries of the log.                  *)
(***************************************************************************)
EXTENDS Naturals, FiniteSets

CONSTANTS Umrs,         \* ids that the registry may list, with a row or not
          MechanismAt,  \* when each rule's mechanism was merged
          Canons,       \* what the registry may know of the OCID's file
          GitShows,     \* where git may show that file: at its commit, the head
          RetainFor,    \* the age at which an entry of the log is deleted
          MaxDay, MaxAudits, MaxByHand, MaxTouched

Rules == {"reuse", "outcome", "minting", "visible", "stall", "duplication",
          "evidence"}
Facts == {"available", "validated", "existing", "implemented"}

ASSUME ComplianceAssumption ==
    /\ IsFiniteSet(Umrs) /\ MechanismAt \in [Rules -> Nat]
    /\ Canons \subseteq SUBSET {"repo", "path", "commit", "merged"}
    /\ GitShows \subseteq SUBSET {"commit", "head"}
    /\ {RetainFor, MaxDay, MaxAudits, MaxByHand, MaxTouched} \subseteq Nat

VARIABLES time,
          uses,      \* umr_tasks: the rows of this OCID
          canon,     \* ocid_canonical_registry: the listed ids, and the file
          entries,   \* ocid_compliance_audit_log, one record for an audit
          flags,     \* ocid_compliance_state
          auditing,  \* a run of the audit: what it read before the lock
          retention, \* a run of the retention
          archived,  \* the entries in its archives
          compast    \* history: all audits, rows that were used again, edits, and
                     \* changes of rows and registry

compvars == <<time, uses, canon, entries, flags, auditing, retention, archived,
              compast>>

Open == MaxDay + 1     \* no ts_completed
NoFlags == [exists |-> FALSE, set |-> {}, done |-> FALSE, passed |-> FALSE]
NoUmr == [status |-> "absent", from |-> 0, until |-> Open, beat |-> FALSE,
          named |-> FALSE, linked |-> FALSE]

ComplianceTypeOK ==
    /\ time \in 0..MaxDay
    /\ uses \in [Umrs -> [status : {"absent", "active", "sigterm", "ended"},
                          from : 0..MaxDay, until : 0..Open, beat : BOOLEAN,
                          named : BOOLEAN, linked : BOOLEAN]]
    /\ canon \in [ids : SUBSET Umrs, file : Canons]
    /\ entries \subseteq compast.audits /\ archived \subseteq compast.audits
    /\ flags \in [Umrs -> [exists : BOOLEAN, set : SUBSET (Rules \cup Facts),
                           done : BOOLEAN, passed : BOOLEAN]]
    /\ auditing.at \in {"off", "planned"}
    /\ retention.at \in {"off", "archived"}

ComplianceInit ==
    /\ time = 0 /\ uses = [u \in Umrs |-> NoUmr]
    /\ \E f \in Canons : canon = [ids |-> {}, file |-> f]
    /\ entries = {} /\ archived = {} /\ flags = [u \in Umrs |-> NoFlags]
    /\ auditing = [at |-> "off", canon |-> canon]
    /\ retention = [at |-> "off", cutoff |-> 0]
    /\ compast = [audits |-> {}, reused |-> {}, byHand |-> 0,
                changes |-> 0]

-----------------------------------------------------------------------------
Changed(reused) ==
    /\ compast.changes < MaxTouched
    /\ compast' = [compast EXCEPT !.changes = @ + 1, !.reused = @ \cup reused]

\* The rows, under the register's lock.  A submission that names the OCID is
\* refused when a linked row is active, as a row of its own that never gets a
\* ts_completed; an accepted one is linked at once.
Active(u) == uses[u].status = "active"
NewestOf(S) == CHOOSE u \in S : \A v \in S : uses[v].from <= uses[u].from
LinkedActive == {u \in Umrs : uses[u].linked /\ Active(u)}

Mints(u, named) ==
    LET refused == named /\ LinkedActive # {} IN
    /\ uses[u].status = "absent"
    /\ uses' = [uses EXCEPT ![u] =
                [NoUmr EXCEPT !.status = IF refused THEN "ended" ELSE "active",
                              !.from = time, !.named = named,
                              !.linked = named /\ ~refused]]
    /\ UNCHANGED <<time, canon, entries, flags, auditing, retention, archived,
                   compast>>

\* The resolver links a row that it found by its pull request.
LinksRow(u) ==
    /\ uses[u].status # "absent" /\ ~uses[u].linked
    /\ uses' = [uses EXCEPT ![u].linked = TRUE]
    /\ Changed({})
    /\ UNCHANGED <<time, canon, entries, flags, auditing, retention, archived>>

\* A heartbeat, a SIGTERM, an end, and a new use of the row, which keeps the
\* time of its submission and of its last end.
RowLives(u) ==
    /\ \/ /\ Active(u) /\ ~uses[u].beat
          /\ uses' = [uses EXCEPT ![u].beat = TRUE]
       \/ Active(u) /\ uses' = [uses EXCEPT ![u].status = "sigterm"]
       \/ /\ uses[u].status \in {"active", "sigterm"}
          /\ uses' = [uses EXCEPT ![u].status = "ended", ![u].until = time]
       \/ /\ uses[u].status = "ended"
          /\ uses' = [uses EXCEPT ![u].status = "active"]
    /\ Changed({u} \ {v \in Umrs : uses[v].status # "ended"})
    /\ UNCHANGED <<time, canon, entries, flags, auditing, retention, archived>>

\* The resolver writes the registry: ids from rows, pull requests and texts.
WritesCanon(ids, file) ==
    /\ canon' = [ids |-> ids, file |-> file] /\ canon' # canon
    /\ Changed({})
    /\ UNCHANGED <<time, uses, entries, flags, auditing, retention, archived>>

-----------------------------------------------------------------------------
\* The rules; an id without a row keeps none of them.

\* Another listed row was submitted before and had no end on record by then.
Overlapped(u, ids) ==
    \E v \in ids \ {u} : /\ uses[v].status # "absent"
                         /\ uses[v].from <= uses[u].from
                         /\ uses[u].from <= uses[v].until

Kept(rule, u, ids) ==
    CASE rule = "reuse" -> ~Overlapped(u, ids)
      [] rule = "outcome" -> uses[u].status # "sigterm"
      [] rule = "minting" -> uses[u].named
      [] rule = "visible" -> TRUE
      [] rule = "stall" -> IF uses[u].status = "ended"
                           THEN uses[u].until # Open
                           ELSE uses[u].beat
      [] rule = "duplication" -> LinkedActive = {} \/ NewestOf(LinkedActive) = u
      [] rule = "evidence" -> uses[u].linked

\* A row from before the rule's mechanism cannot have kept it.
RulesKept(u, ids) ==
    {r \in Rules : /\ uses[u].status # "absent"
                   /\ MechanismAt[r] <= uses[u].from /\ Kept(r, u, ids)}

\* Of the file: a path is on record; git has it in the commit on record, and at
\* the head; the registry says that the commit is merged.
FactsOf(file, shown) ==
    {f \in Facts :
        CASE f = "available" -> "path" \in file
          [] f = "validated" -> {"path", "repo", "commit"} \subseteq file
                                /\ "commit" \in shown
          [] f = "existing" -> {"path", "repo"} \subseteq file /\ "head" \in shown
          [] f = "implemented" -> {"merged", "commit"} \subseteq file}

\* The latest entry about u, and what the triggers make of it, whatever the
\* statement that fired them had said.
Latest(u, log) ==
    CHOOSE e \in {x \in log : x.umr = u} :
        \A x \in log : x.umr = u =>
            x.at < e.at \/ (x.at = e.at /\ x.nr <= e.nr)

Derived(u, log) ==
    LET any == \E x \in log : x.umr = u
        set == IF any THEN Latest(u, log).set ELSE {} IN
    [exists |-> TRUE, set |-> set, done |-> any, passed |-> Rules \subseteq set]

\* Mutant of Triggered: only an INSERT fires a trigger.
TriggeredOnInsert(u, typed, log) ==
    IF flags[u].exists
    THEN [exists |-> TRUE, set |-> typed, done |-> TRUE,
          passed |-> Rules \subseteq typed]
    ELSE Derived(u, log)
Triggered(u, typed, log) == Derived(u, log)

-----------------------------------------------------------------------------
\* --apply reads the registry, then takes the lock.
Plans ==
    /\ auditing.at = "off" /\ Cardinality(compast.audits) < MaxAudits
    /\ auditing' = [at |-> "planned", canon |-> canon]
    /\ UNCHANGED <<time, uses, canon, entries, flags, retention, archived,
                   compast>>

\* Under the lock and in one transaction every planned id is audited: the rows
\* are judged, the entries appended, the state written and so derived.
Audits(shown) ==
    LET ids == auditing.canon.ids
        nr == Cardinality(compast.audits)
        found == {[umr |-> u, nr |-> nr, at |-> time, ids |-> ids,
                   set |-> RulesKept(u, ids)
                           \cup FactsOf(auditing.canon.file, shown)] :
                    u \in ids} IN
    /\ auditing.at = "planned"
    /\ entries' = entries \cup found
    /\ flags' = [u \in Umrs |-> IF u \in ids
                                THEN Triggered(u, Latest(u, found).set,
                                               entries \cup found)
                                ELSE flags[u]]
    /\ compast' = [compast EXCEPT !.audits = @ \cup found]
    /\ auditing' = [auditing EXCEPT !.at = "off"]
    /\ UNCHANGED <<time, uses, canon, retention, archived>>

\* The run is killed, and its transaction with it.
AuditKilled ==
    /\ auditing.at = "planned"
    /\ auditing' = [auditing EXCEPT !.at = "off"]
    /\ UNCHANGED <<time, uses, canon, entries, flags, retention, archived,
                   compast>>

\* Somebody writes all rules as kept into a row of the state.
EditsByHand(u) ==
    /\ compast.byHand < MaxByHand
    /\ flags' = [flags EXCEPT ![u] = Triggered(u, Rules, entries)]
    /\ compast' = [compast EXCEPT !.byHand = @ + 1]
    /\ UNCHANGED <<time, uses, canon, entries, auditing, retention, archived>>

-----------------------------------------------------------------------------
\* The tick's retention, not twice at once: what is old is put into an archive,
\* in full or not at all, and then deleted.
RetentionArchives ==
    /\ retention.at = "off" /\ time >= RetainFor
    /\ \E e \in entries : e.at < time - RetainFor
    /\ archived' = archived \cup {e \in entries : e.at < time - RetainFor}
    /\ retention' = [at |-> "archived", cutoff |-> time - RetainFor]
    /\ UNCHANGED <<time, uses, canon, entries, flags, auditing, compast>>

RetentionDeletes ==
    /\ retention.at = "archived"
    /\ entries' = {e \in entries : e.at >= retention.cutoff}
    /\ retention' = [retention EXCEPT !.at = "off"]
    /\ UNCHANGED <<time, uses, canon, flags, auditing, archived,
                   compast>>

RetentionFails ==
    /\ retention.at = "archived"
    /\ retention' = [retention EXCEPT !.at = "off"]
    /\ UNCHANGED <<time, uses, canon, entries, flags, auditing, archived,
                   compast>>

TimePasses ==
    /\ time < MaxDay /\ time' = time + 1
    /\ UNCHANGED <<uses, canon, entries, flags, auditing, retention, archived,
                   compast>>

ComplianceNext ==
    \/ \E u \in Umrs :
        \/ \E named \in BOOLEAN : Mints(u, named)
        \/ LinksRow(u) \/ RowLives(u) \/ EditsByHand(u)
    \/ \E ids \in SUBSET Umrs, file \in Canons : WritesCanon(ids, file)
    \/ Plans \/ AuditKilled \/ TimePasses
    \/ \E shown \in GitShows : Audits(shown)
    \/ RetentionArchives \/ RetentionDeletes \/ RetentionFails

ComplianceSpec == ComplianceInit /\ [][ComplianceNext]_compvars

-----------------------------------------------------------------------------
AuditsOf(u) == {e \in compast.audits : e.umr = u}

\* What the state says of a row is what the last audit of it found, all of it
\* from one audit, whoever wrote the state since; a row that was never audited
\* has no flag.  Only when retention has deleted that audit's entries may a
\* later write have taken all flags away.
FlagsOfLastAudit ==
    \A u \in Umrs : flags[u].exists =>
        \/ flags[u] = Derived(u, AuditsOf(u))
        \/ flags[u] = Derived(u, {}) /\ AuditsOf(u) \cap entries = {}

\* A row that was minted while another row of the OCID, which the audit was
\* given, still ran has not passed, unless that row was used again since.
DuplicateNeverPasses ==
    \A u, v \in Umrs :
        /\ flags[u].passed /\ u # v /\ v \notin compast.reused
        /\ uses[v].status # "absent" /\ v \in Latest(u, AuditsOf(u)).ids
        => ~(/\ uses[v].from < uses[u].from
             /\ uses[u].from < uses[v].until)

\* No entry is deleted that is not in an archive.
ArchivedFirst == compast.audits \subseteq entries \cup archived

\* What the compliance state is trusted for.
ComplianceKept == FlagsOfLastAudit /\ DuplicateNeverPasses /\ ArchivedFirst
=============================================================================
