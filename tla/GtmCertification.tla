------------------------- MODULE GtmCertification -------------------------
(***************************************************************************)
(* gtm_certification_categories: 25 checks, each a script of its own that  *)
(* looks at the product, judges what it saw and calls                      *)
(* gtm_write_category_result.py; the last judges the rows of the others.   *)
(* pm-sentinel-tick.sh lists the rows every tick and records one           *)
(* certificate when all have passed.  Checks, ticks and their writes       *)
(* overlap; a behaviour watches the rows of one script and the last one.   *)
(***************************************************************************)
EXTENDS Naturals

CONSTANTS Listers,     \* the processes of the tick
          MaxProbes    \* bound: runs of checks

ASSUME GtmAssumption == MaxProbes \in Nat

VARIABLES category, \* the rows: pass, fail, or blocked (NULL)
          fix,      \* the rows that have a fix on record
          pending,  \* per category: what its running check has found, unwritten
          stress,   \* the second half of the load script
          scenario, \* the tasks that the AI check submitted
          listing,  \* per tick: its listing of the rows
          certificate,
          gtmpast   \* history: probes, what each row's check saw, and whether
                    \* all rows had passed at one time

gtmvars == <<category, fix, pending, stress, scenario, listing, certificate,
             gtmpast>>

Watchable == {{c} : c \in (1..24) \ {10, 11}} \cup {{10, 11}}
Verdicts == {"pass", "fail", "blocked"}

\* What can be the matter when a check looks: something it needs is not there,
\* its preparation fails, the tool is stopped, its output cannot be read, its
\* exit code is not zero, nothing or not all was tested, and what was is bad.
Mishaps == {"tools", "prepare", "timeout", "unread", "exit", "none", "some",
             "bad"}

-----------------------------------------------------------------------------
\* The scripts: the troubles that block a verdict, those that fail the category,
\* and those that happen and leave it as it is.
Check(blocks, fails, misses) ==
    [blocks |-> blocks, fails |-> fails, misses |-> misses]

ArchitectureAudit == Check({"tools", "timeout", "unread"}, {"bad"}, {"exit"})
StaticCodeAnalysis == Check({"tools", "prepare"}, {"timeout", "exit", "bad"},
                            {"unread"})
\* A secret scan that leaves no report has found no secret.
SecurityAudit == Check({"tools", "prepare", "unread"}, {"bad"}, {"timeout"})
ApiTesting == Check({"none"}, {"some", "bad"}, {})
UiTesting == Check({"tools", "none"}, {"some", "timeout", "unread", "bad"}, {})
E2eTesting == Check({"tools", "timeout", "unread"}, {"exit", "none", "bad"},
                    {"some"})
RegressionTesting == Check({"tools", "prepare", "unread"},
                           {"exit", "bad", "none"}, {"some"})
AccessibilityTesting == Check({"tools", "timeout", "unread", "none"}, {"bad"}, {})
PerformanceTesting == Check({"tools", "timeout", "unread", "none"},
                            {"bad", "exit"}, {})
\* prepare: the machine is under pressure; timeout: the monitor stops the run.
LoadTesting == Check({"prepare", "tools", "timeout"}, {"exit", "none", "bad"}, {})
DatabaseTesting == Check({"tools", "timeout", "unread"}, {"some", "bad"}, {})
GovernanceTesting == Check({"tools", "none"}, {"bad"}, {})
\* An account that cannot log in is left out.
MultiTenantTesting == Check({"tools", "timeout", "unread", "none"}, {"bad"},
                            {"some"})
RolePermissionTesting == Check({"tools", "timeout", "unread", "none"}, {"bad"},
                               {"some"})
BrowserCompatibility == Check({"tools"}, {"timeout", "unread", "none", "some"}, {})
ResponsiveTesting == Check({"tools", "none"}, {"some", "timeout", "unread"}, {})
BackupRecoveryTesting == Check({"tools"}, {"none", "some", "bad"}, {})
MonitoringTesting == Check({"tools", "unread"}, {"some", "bad"}, {})
\* One deployment that is ready is enough, whatever became of the others.
DeploymentTesting == Check({"tools", "timeout", "exit"}, {"none"}, {"bad"})
DocumentationAudit == Check({"tools", "prepare"}, {"some", "bad"}, {})
UxAudit == Check({"tools", "timeout", "unread", "none"}, {"bad"}, {"some"})
\* A report without any score has no failing one.
LighthouseAudit == Check({"tools", "timeout", "unread"}, {"bad", "exit"}, {"none"})

CheckOf(c) ==
    CASE c = 1 -> ArchitectureAudit [] c = 2 -> StaticCodeAnalysis
      [] c = 3 -> SecurityAudit [] c = 4 -> ApiTesting [] c = 5 -> UiTesting
      [] c = 6 -> E2eTesting [] c = 7 -> RegressionTesting
      [] c = 8 -> AccessibilityTesting [] c = 9 -> PerformanceTesting
      [] c \in {10, 11} -> LoadTesting [] c = 12 -> DatabaseTesting
      [] c = 14 -> GovernanceTesting [] c = 15 -> MultiTenantTesting
      [] c = 16 -> RolePermissionTesting [] c = 17 -> BrowserCompatibility
      [] c = 18 -> ResponsiveTesting [] c = 19 -> BackupRecoveryTesting
      [] c = 20 -> MonitoringTesting [] c = 21 -> DeploymentTesting
      [] c = 22 -> DocumentationAudit [] c = 23 -> UxAudit
      [] c = 24 -> LighthouseAudit

Possible(c) == CheckOf(c).blocks \cup CheckOf(c).fails \cup CheckOf(c).misses

VerdictOf(c, seen) ==
    IF seen \cap CheckOf(c).blocks # {} THEN "blocked"
    ELSE IF seen \cap CheckOf(c).fails # {} THEN "fail" ELSE "pass"

\* What the property asks of a passing row's check.
Grave(seen) == seen \cap {"tools", "none", "bad"}

\* The last category: no row of the first severity may be less than passed, and
\* none of the second may have failed.
P0 == {3, 4, 12, 14, 19, 21}
P1 == {1, 2, 5, 6, 7, 9, 15, 16, 20}

\* Mutant of Ready: a row without a verdict will do.
ReadyIfNoFailure(rows) == \A c \in P0 \cup P1 : rows[c] # "fail"
Ready(rows) == /\ \A c \in P0 : rows[c] = "pass"
               /\ \A c \in P1 : rows[c] # "fail"

-----------------------------------------------------------------------------
Unfound == [verdict |-> "none", seen |-> {}]

GtmTypeOK ==
    /\ category \in [1..25 -> Verdicts] /\ fix \subseteq 1..25
    /\ \A c \in DOMAIN pending : /\ pending[c].verdict \in Verdicts \cup {"none"}
                                /\ pending[c].seen \subseteq Mishaps
    /\ stress \in {"no", "due"}
    /\ scenario \in {"none", "flying", "completed", "failed"}
    /\ \A l \in Listers : listing[l] \in {"none", "gaps", "clear"}
    /\ certificate \in BOOLEAN

\* The rows that are not watched have passed.
GtmInit ==
    /\ \E w \in Watchable : \E first \in {"pass", "blocked"} :
        /\ category = [c \in 1..25 |-> IF c \in w THEN first
                                       ELSE IF c = 25 THEN "blocked" ELSE "pass"]
        /\ pending = [c \in w \cup {25} |-> Unfound]
    /\ fix = {} /\ stress = "no" /\ scenario = "none"
    /\ listing = [l \in Listers |-> "none"] /\ certificate = FALSE
    /\ gtmpast = [probes |-> 0, seen |-> [c \in 1..25 |-> {}], allPassed |-> FALSE]

Probing(c) ==
    /\ c \in DOMAIN pending /\ pending[c] = Unfound
    /\ gtmpast.probes < MaxProbes
    /\ gtmpast' = [gtmpast EXCEPT !.probes = @ + 1]

Finds(c, verdict, seen) ==
    pending' = [pending EXCEPT ![c] = [verdict |-> verdict, seen |-> Grave(seen)]]

Probes(c, seen) ==
    /\ Probing(c)
    /\ c = 10 => pending[11] = Unfound /\ stress = "no"
    /\ IF c = 10 /\ VerdictOf(c, seen) = "blocked"
       THEN pending' = [d \in DOMAIN pending |->
                            IF d = 25 THEN pending[d]
                            ELSE [verdict |-> "blocked", seen |-> Grave(seen)]]
       ELSE Finds(c, VerdictOf(c, seen), seen)
    /\ stress' = IF c = 10 /\ VerdictOf(c, seen) # "blocked" THEN "due" ELSE stress
    /\ UNCHANGED <<category, fix, scenario, listing, certificate>>

\* The stress run follows the load run once that is written, when the machine
\* still has room.
ProbesStress(seen) ==
    /\ stress = "due" /\ pending[10] = Unfound /\ pending[11] = Unfound
    /\ stress' = "no"
    /\ Finds(11, VerdictOf(11, seen), seen)
    /\ UNCHANGED <<category, fix, scenario, listing, certificate, gtmpast>>

\* The AI check submits its two tasks once, where there is room, and reports
\* blocked until they have ended; it submits none again.
ProbesAi ==
    /\ Probing(13)
    /\ \/ scenario' = scenario
       \/ scenario = "none" /\ scenario' = "flying"
    /\ Finds(13, CASE scenario = "completed" -> "pass"
                   [] scenario = "failed" -> "fail"
                   [] OTHER -> "blocked", {})
    /\ UNCHANGED <<category, fix, stress, listing, certificate>>

ScenarioEnds ==
    /\ scenario = "flying"
    /\ scenario' \in {"completed", "failed"}
    /\ UNCHANGED <<category, fix, pending, stress, listing, certificate, gtmpast>>

\* The readiness check reads the rows; its verdict is written later.
ProbesReadiness ==
    /\ Probing(25)
    /\ Finds(25, IF Ready(category) THEN "pass" ELSE "fail",
             IF \E c \in P0 : category[c] # "pass" THEN {"bad"} ELSE {})
    /\ UNCHANGED <<category, fix, stress, scenario, listing, certificate>>

\* One writer for all: the row under the lock, its fix overwritten as well.
WritesResult(c) ==
    /\ c \in DOMAIN pending /\ pending[c] # Unfound
    /\ category' = [category EXCEPT ![c] = pending[c].verdict]
    /\ fix' = fix \ {c}
    /\ pending' = [pending EXCEPT ![c] = Unfound]
    /\ gtmpast' = [gtmpast EXCEPT
                    !.seen[c] = pending[c].seen,
                    !.allPassed = @ \/ \A d \in 1..25 : category'[d] = "pass"]
    /\ UNCHANGED <<stress, scenario, listing, certificate>>

\* A check is killed before it writes.
CheckKilled(c) ==
    /\ c \in DOMAIN pending /\ pending[c] # Unfound
    /\ pending' = [pending EXCEPT ![c] = Unfound]
    /\ stress' = "no"
    /\ UNCHANGED <<category, fix, scenario, listing, certificate, gtmpast>>

FixRecorded(c) ==
    /\ c \in DOMAIN pending /\ c # 25 /\ category[c] = "fail" /\ c \notin fix
    /\ fix' = fix \cup {c}
    /\ UNCHANGED <<category, pending, stress, scenario, listing, certificate,
                   gtmpast>>

-----------------------------------------------------------------------------
\* The tick lists the rows once; a row that is failed or blocked is a gap, for
\* which it dispatches work, and only a listing without one is certified.
ListsCategories(l) ==
    /\ listing[l] = "none"
    /\ listing' = [listing EXCEPT ![l] =
                    IF \E c \in 1..25 : category[c] # "pass" THEN "gaps"
                    ELSE "clear"]
    /\ UNCHANGED <<category, fix, pending, stress, scenario, certificate, gtmpast>>

DispatchesGaps(l) ==
    /\ listing[l] = "gaps"
    /\ listing' = [listing EXCEPT ![l] = "none"]
    /\ UNCHANGED <<category, fix, pending, stress, scenario, certificate, gtmpast>>

RecordsCertificate(l) ==
    /\ listing[l] = "clear"
    /\ certificate' = TRUE
    /\ listing' = [listing EXCEPT ![l] = "none"]
    /\ UNCHANGED <<category, fix, pending, stress, scenario, gtmpast>>

GtmNext ==
    \/ \E c \in DOMAIN pending :
        \/ WritesResult(c) \/ CheckKilled(c) \/ FixRecorded(c)
        \/ /\ c \notin {11, 13, 25}
           /\ \E seen \in SUBSET Possible(c) : Probes(c, seen)
    \/ \E seen \in SUBSET (Possible(11) \ {"tools"}) : ProbesStress(seen)
    \/ ProbesAi \/ ScenarioEnds \/ ProbesReadiness
    \/ \E l \in Listers :
        ListsCategories(l) \/ DispatchesGaps(l) \/ RecordsCertificate(l)

GtmSpec == GtmInit /\ [][GtmNext]_gtmvars

-----------------------------------------------------------------------------
\* A row that passes was written by a check that had its tools, tested something
\* and saw nothing bad, whatever else ran and wrote meanwhile; the readiness row
\* by one that saw all rows of the first severity passed.  Two scripts do not
\* keep this: a deployment list with an older ready deployment, and a Lighthouse
\* report without scores.
PassIsEarned ==
    \A c \in DOMAIN pending : category[c] = "pass" =>
        gtmpast.seen[c] \subseteq CASE c = 21 -> {"bad"} [] c = 24 -> {"none"}
                                    [] OTHER -> {}

\* The certificate is only recorded when all 25 rows had passed at one time.
CertifiedTogether == certificate => gtmpast.allPassed

Certification == PassIsEarned /\ CertifiedTogether
=============================================================================
