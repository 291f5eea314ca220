------------------------------ MODULE PmReport ------------------------------
(***************************************************************************)
(* generate_pm_report_v3.py: a report looks at the server, the GTM table,  *)
(* the OCID audit and the open pull requests one after the other, compares *)
(* what it saw with the newest snapshot, writes its text to two files and  *)
(* only then its own snapshot.                                             *)
(*                                                                         *)
(* The timer's run and one started by hand may overlap, a run may be       *)
(* killed anywhere, and what is looked at changes meanwhile.  The          *)
(* readiness and the collisions of a report are functions of what one look *)
(* finds: they are operators on it, and no step.  Sections that only print *)
(* rows (decisions, proposals, dead zone, tracked pull requests, wiring)   *)
(* are left out: they neither keep nor compare anything.                   *)
(***************************************************************************)
EXTENDS Integers, FiniteSets, SequencesExt

CONSTANTS Reporters, Cats, Ocids,
          Severity,    \* category 25's rubric: the severity of each category
          Worlds,      \* what a report may find; see PmReportTypeOK
          Missing,     \* a value that could not be read
          TrendWindow, TolerancePct, CapTrigger, TopK,
          MaxSnaps, MaxNews, MaxReports, MaxReportKills

\* What is shown of many fits among the many; category 25 is the gate over the rest.
ASSUME PmReportAssumption ==
    /\ TrendWindow \in Nat \ {0} /\ {CapTrigger, TopK, TolerancePct} \subseteq Nat
    /\ TopK <= CapTrigger
    /\ {MaxSnaps, MaxNews, MaxReports, MaxReportKills} \subseteq Nat
    /\ Missing \notin Int
    /\ IsFiniteSet(Cats) /\ 25 \in Cats /\ IsFiniteSet(Reporters)

ASSUME WorldAssumption ==
    \A w \in Worlds :
        /\ w.gtm \in [Cats -> {"pass", "fail", "blocked"}]
        /\ {w.swap, w.load} \subseteq Int \cup {Missing} /\ w.fails \subseteq Ocids
        /\ IsFiniteSet(w.pulls)

VARIABLES matter,     \* the GTM table, the server, the audit's verdicts, the pulls
          snaps,      \* pm_report_snapshots, oldest first
          draft,      \* what each reporter has gathered
          latest,     \* pm-report-latest.txt: "cut" while it is rewritten
          announced,  \* the news in pm-report-history.log: <<OCID, since snapshot>>
          reportpast

reportvars == <<matter, snaps, draft, latest, announced, reportpast>>

Metrics == {"swap", "load", "passes"}
Values == Int \cup {Missing}
Off == [at |-> "off", seen |-> <<>>, prior |-> 0, base |-> Missing, fails |-> Missing,
        news |-> {}]

PmReportTypeOK ==
    /\ matter \in Worlds
    /\ matter.gtm \in [Cats -> {"pass", "fail", "blocked"}]
    /\ {matter.swap, matter.load} \subseteq Values /\ matter.fails \subseteq Ocids
    /\ \A i \in DOMAIN snaps : /\ snaps[i].id \in 1..MaxReports
                               /\ \A m \in Metrics : snaps[i][m] \in Values
    /\ \A r \in Reporters : draft[r].at \in {"off", "seen", "prior", "built", "cut",
                                           "latest", "filed"}
    /\ latest \in {"none", "cut", "whole"}
    /\ announced \subseteq Ocids \X (0..MaxReports)

PmReportInit ==
    /\ matter \in Worlds /\ snaps = <<>> /\ latest = "none" /\ announced = {}
    /\ draft = [r \in Reporters |-> Off]
    /\ reportpast = [news |-> 0, begun |-> 0, saved |-> 0, kills |-> 0]

-----------------------------------------------------------------------------
(* What a report computes *)

Passes(gtm) == Cardinality({c \in DOMAIN gtm : gtm[c] = "pass"})
Percent(gtm) == (100 * Passes(gtm)) \div Cardinality(DOMAIN gtm)

\* Open categories of severity P0, blocked ones included, and failed ones of P1.
Critical(gtm) == {c \in DOMAIN gtm : Severity[c] = "P0" /\ gtm[c] # "pass"}
High(gtm) == {c \in DOMAIN gtm : Severity[c] = "P1" /\ gtm[c] = "fail"}

Ranks == <<"NOT_READY", "LIMITED_PILOT", "BETA", "PRODUCTION">>

\* The recommendation; Missing without a rubric.
Bucket(gtm, rubric) ==
    LET pct == Percent(gtm) IN
    CASE ~rubric -> Missing
      [] rubric /\ (Critical(gtm) # {} \/ (\E c \in DOMAIN gtm : gtm[c] = "blocked")
                    \/ pct < 50) -> "NOT_READY"
      [] OTHER -> IF pct < 75 THEN "LIMITED_PILOT"
                  ELSE IF pct < 100 \/ High(gtm) # {} THEN "BETA"
                  ELSE IF gtm[25] = "pass" THEN "PRODUCTION" ELSE "NOT_READY"

\* The sums of the first values, by their number.
Sums(s) ==
    LET sum[n \in 0 .. Len(s)] == IF n = 0 THEN 0 ELSE sum[n - 1] + s[n] IN sum

\* The averages of the first and the second half of the values, in one unit.
Halves(s) ==
    LET h == Len(s) \div 2
    IN  <<Sums(s)[h] * (Len(s) - h), (Sums(s)[Len(s)] - Sums(s)[h]) * h>>

Magnitude(n) == IF n < 0 THEN -n ELSE n
Direction(s) ==
    LET a == Halves(s)[1]  b == Halves(s)[2] IN
    IF a = b \/ (a # 0 /\ Magnitude(b - a) * 100 <= TolerancePct * Magnitude(a))
    THEN "stable" ELSE IF b > a THEN "up" ELSE "down"

\* The trend of a metric over the newest snapshots, the oldest of them first.
Recent(s) == SubSeq(s, IF Len(s) > TrendWindow THEN Len(s) - TrendWindow + 1 ELSE 1, Len(s))

\* The values that could be read, in their order.
Read(s, m) ==
    LET read[n \in 0 .. Len(s)] ==
            IF n = 0 THEN <<>>
            ELSE IF s[n][m] = Missing THEN read[n - 1] ELSE Append(read[n - 1], s[n][m])
    IN  read[Len(s)]

Series(s, m) == Read(Recent(s), m)

Trend(s, m) ==
    LET v == Series(s, m) IN
    IF Len(v) < 2 THEN "insufficient_data"
    ELSE IF Direction(v) = "stable" THEN "stable"
    ELSE IF (Direction(v) = "up") = (m \in {"swap", "passes"}) THEN "improving" ELSE "degrading"

\* Pairs of pull requests that share a citation, and pairs of those opened lately,
\* and whose files could be fetched in time, that share a file that is not a common one.
Pairs(pulls) == {{a, b} : a, b \in pulls} \ {{a} : a \in pulls}
CitedPairs(pulls) == {p \in Pairs(pulls) : \E t \in UNION {a.cites : a \in p} :
                                               \A a \in p : t \in a.cites}
FilePairs(pulls, unread) ==
    {p \in Pairs({a \in pulls : a.fresh} \ unread) :
        \E f \in UNION {a.files : a \in p} : \A a \in p : f \in a.files}

\* What is shown of them: the citations first, and the first few when there are many.
Ranked(cited, overlap) == SetToSeq(cited) \o SetToSeq(overlap)
Capped(s) == IF Len(s) > CapTrigger THEN SubSeq(s, 1, TopK) ELSE s
Shown(pulls, unread) == Capped(Ranked(CitedPairs(pulls), FilePairs(pulls, unread)))

-----------------------------------------------------------------------------
(* The steps of a report *)

Step(r, from, now) == draft[r].at = from /\ draft' = [draft EXCEPT ![r] = now]
Gathers == UNCHANGED <<matter, snaps, latest, announced>>

\* The server and then the GTM table are read; any of the server's values may fail.
ReadsServer(r) ==
    /\ reportpast.begun < MaxReports
    /\ Step(r, "off", [Off EXCEPT !.at = "seen",
                 !.seen = [swap |-> matter.swap, load |-> matter.load,
                           passes |-> Passes(matter.gtm)]])
    /\ reportpast' = [reportpast EXCEPT !.begun = @ + 1] /\ Gathers

ReadsPrior(r) ==
    /\ Step(r, "seen", IF snaps = <<>> THEN [draft[r] EXCEPT !.at = "prior"]
                         ELSE [draft[r] EXCEPT !.at = "prior", !.prior = Last(snaps).id,
                                             !.base = Last(snaps).fails])
    /\ Gathers /\ UNCHANGED reportpast

\* The audit's own process gives its verdicts, or nothing; what fails now and did not
\* in the prior snapshot is news, if that snapshot has an audit to compare with.
NewsSince(base, fails) == IF base = Missing THEN {} ELSE fails \ base

RunsAudit(r) ==
    /\ \/ Step(r, "prior", [draft[r] EXCEPT !.at = "built", !.fails = matter.fails,
                                          !.news = NewsSince(draft[r].base, matter.fails)])
       \/ Step(r, "prior", [draft[r] EXCEPT !.at = "built"])
    /\ Gathers /\ UNCHANGED reportpast

\* Mutant of NextWrite: the snapshot is saved before the history is appended to.
MutNextWrite == [built |-> "cut", cut |-> "filed", filed |-> "latest", latest |-> "off"]

\* The order of main's writes: both files, and the snapshot last.
NextWrite == [built |-> "cut", cut |-> "latest", latest |-> "filed", filed |-> "off"]

Proceeds(r, at) ==
    IF NextWrite[at] = "off" THEN Step(r, at, Off)
    ELSE Step(r, at, [draft[r] EXCEPT !.at = NextWrite[at]])

OpensLatest(r) ==
    /\ Proceeds(r, "built") /\ latest' = "cut"
    /\ UNCHANGED <<matter, snaps, announced, reportpast>>

WritesLatest(r) ==
    /\ Proceeds(r, "cut") /\ latest' = "whole"
    /\ UNCHANGED <<matter, snaps, announced, reportpast>>

AppendsHistory(r) ==
    /\ Proceeds(r, "latest") /\ announced' = announced \cup {<<o, draft[r].prior>> : o \in draft[r].news}
    /\ UNCHANGED <<matter, snaps, latest, reportpast>>

Snapshot(r) == [id |-> reportpast.saved + 1, prior |-> draft[r].prior, fails |-> draft[r].fails,
                swap |-> draft[r].seen.swap, load |-> draft[r].seen.load,
                passes |-> draft[r].seen.passes]

SavesSnapshot(r) ==
    /\ Proceeds(r, "filed") /\ snaps' = Append(snaps, Snapshot(r))
    /\ reportpast' = [reportpast EXCEPT !.saved = @ + 1] /\ UNCHANGED <<matter, latest, announced>>

ReportKilled(r) ==
    /\ draft[r].at # "off" /\ reportpast.kills < MaxReportKills
    /\ draft' = [draft EXCEPT ![r] = Off]
    /\ reportpast' = [reportpast EXCEPT !.kills = @ + 1] /\ Gathers

-----------------------------------------------------------------------------
(* What goes on meanwhile *)

\* Retention deletes the snapshots that are too old.
SnapshotExpires ==
    /\ Len(snaps) > MaxSnaps /\ snaps' = Tail(snaps)
    /\ UNCHANGED <<matter, draft, latest, announced, reportpast>>

WorldChanges ==
    /\ reportpast.news < MaxNews /\ matter' \in Worlds \ {matter}
    /\ reportpast' = [reportpast EXCEPT !.news = @ + 1]
    /\ UNCHANGED <<snaps, draft, latest, announced>>

PmReportNext ==
    \/ WorldChanges \/ SnapshotExpires
    \/ \E r \in Reporters :
          \/ ReadsServer(r) \/ ReadsPrior(r) \/ RunsAudit(r)
          \/ OpensLatest(r) \/ WritesLatest(r) \/ AppendsHistory(r)
          \/ SavesSnapshot(r) \/ ReportKilled(r)

PmReportSpec == PmReportInit /\ [][PmReportNext]_reportvars

-----------------------------------------------------------------------------
(* Properties *)

\* Whatever began to fail between a snapshot and the next one that was compared with
\* it is in the history file as news, however runs were killed or overlapped.
NewsTold ==
    \A i, j \in DOMAIN snaps : snaps[i].id = snaps[j].prior =>
        (Missing \notin {snaps[i].fails, snaps[j].fails} =>
            \A o \in snaps[j].fails \ snaps[i].fails : <<o, snaps[i].id>> \in announced)

\* A series that never falls is not said to degrade where more is better, nor to
\* improve where less is, whatever values are missing and however it is halved.
TrendsHonest ==
    Len(snaps) < 2 \/ \A m \in Metrics :
        LET v == Series(snaps, m) IN
        (\A i, j \in DOMAIN v : i < j => v[i] <= v[j]) =>
            Trend(snaps, m) # (IF m \in {"swap", "passes"} THEN "degrading" ELSE "improving")

\* However many of the recent pull requests could be fetched, no overlap of files
\* takes the place of a shared citation, and a citation is not lost to the fetches.
CitationsFirst ==
    \A unread \in SUBSET matter.pulls :
        LET cited == CitedPairs(matter.pulls)
            shown == ToSet(Shown(matter.pulls, unread))
        IN  shown \subseteq cited \/ cited \subseteq shown

\* A category that comes to pass never makes the recommendation worse, and PRODUCTION
\* is recommended of a table in which everything passes only.
Better(a, b) == \E i, j \in 1..4 : i <= j /\ Ranks[i] = a /\ Ranks[j] = b

ReadinessMonotone ==
    \A gtm \in [Cats -> {"pass", "fail", "blocked"}] :
        LET now == Bucket(gtm, TRUE) IN
        /\ \A c \in Cats : Better(now, Bucket([gtm EXCEPT ![c] = "pass"], TRUE))
        /\ now = "PRODUCTION" => Passes(gtm) = Cardinality(Cats)

\* A report tells what is new since the last, gives no trend the wrong way round,
\* hides no collision that matters behind one that does not, and its recommendation
\* follows the certification: the last two of every report that has looked.
ReportTold ==
    /\ NewsTold /\ TrendsHonest
    /\ (\E r \in Reporters : draft[r].at = "seen") => CitationsFirst /\ ReadinessMonotone
=============================================================================
