---------------------------- MODULE RowBackfills ----------------------------
(***************************************************************************)
(* Two programs that look back over the rows of umr_tasks, started by hand: *)
(* resource_governor.py's backfill ends, or gives a heartbeat to, rows that *)
(* say they run and never had one, and triage_owner_umr_24h.py puts the     *)
(* failed rows of the last day into buckets and asks the owner about some.  *)
(* Both list rows, ask systemd, task.yaml and GitHub row by row, and write  *)
(* without a second look at the row, while workers, reviews and the         *)
(* governor go on.                                                          *)
(*                                                                         *)
(* The rows are of one task identity, in the order in which they were      *)
(* submitted.  Both programs leave words in a row that triage reads again: *)
(* says holds the words of its reason that triage's patterns find, and      *)
(* recorded those of triage's own entry in its metadata.  An unknown        *)
(* repository is like a GitHub that does not answer.                        *)
(***************************************************************************)
EXTENDS Naturals, Sequences

CONSTANTS
    Reasons,     \* words that others may leave in a row they end
    Beginnings,  \* the matters of a row that is looked at
    MaxIssued,   \* bound: rows
    MaxEvents,   \* bound: changes of the rows, the workers, GitHub and the sessions
    MaxTriages   \* bound: runs of the triage

Blockers == {"credit accountant", "reviewer", "owner"}
Mechanical == {"conflict", "gate"}
Words == Blockers \cup Mechanical \cup {"no file", "audit pass", "pull", "commit"}

Requests == {"none", "open", "merged", "closed"}
FilesOf == [status : {"none", "ended", "blocked", "going"}, cites : BOOLEAN]
Matter == [up : BOOLEAN, file : FilesOf, pull : Requests, tip : {"old", "new"},
           session : {"none", "open", "COMPLETE"}]
NoFile == [status |-> "none", cites |-> FALSE]

ASSUME BackfillAssumption ==
    /\ Reasons \subseteq SUBSET Words /\ Beginnings \subseteq Matter
    /\ \A w \in Beginnings : w.file.cites => w.pull # "none" /\ w.file # NoFile
    /\ MaxIssued \in Nat \ {0} /\ {MaxEvents, MaxTriages} \subseteq Nat

VARIABLES
    issued,     \* the rows
    matters,    \* per row: its worker, task.yaml, pull request, branch and session
    filler,     \* the backfill
    triage,     \* the triage
    proposed,   \* per row: the proposals in the table of pm decisions
    sinceList,  \* history: rows idle since the backfill's list, and alone since triage's
    filled,     \* history: rows the backfill wrote, as long as nobody begins them again
    happenings  \* bounds

backvars == <<issued, matters, filler, triage, proposed, sinceList, filled, happenings>>

RowsIssued == DOMAIN issued
Buckets == {"already_done", "superseded", "retryable", "blocked"}
FillerIdle == [at |-> "idle", todo |-> {}, docs |-> <<>>, verdict |-> "none"]
TriageIdle == [at |-> "idle", todo |-> {}, judged |-> <<>>]

BackfillTypeOK ==
    /\ issued \in Seq([label : {"queued", "running", "completed", "failed"}, unit : BOOLEAN,
                       heart : BOOLEAN, says : SUBSET Words,
                       bucket : Buckets \cup {"none"}, recorded : SUBSET Words])
    /\ Len(issued) <= MaxIssued
    /\ matters \in [RowsIssued -> Matter]
    /\ filler.at \in {"idle", "docs", "units", "writing", "sessions", "external"}
    /\ triage.at \in {"idle", "judging", "proposing"}
    /\ filler.todo \cup triage.todo \cup filled \subseteq RowsIssued
    /\ proposed \in [RowsIssued -> 0 .. MaxTriages]

Issue(u) == [label |-> "running", unit |-> u, heart |-> FALSE, says |-> {},
             bucket |-> "none", recorded |-> {}]

BackfillInit ==
    /\ \E w \in Beginnings, words \in Reasons, label \in {"running", "failed"} :
          LET row == Issue(w.session = "none")
          IN /\ matters = <<w>>
             /\ issued = <<[row EXCEPT !.label = label, !.says =
                                 IF label = "failed" THEN words ELSE {}]>>
    /\ filler = FillerIdle /\ triage = TriageIdle
    /\ proposed = <<0>> /\ filled = {}
    /\ sinceList = [idle |-> {}, alone |-> {}]
    /\ happenings = [events |-> 0, triages |-> 0]

-----------------------------------------------------------------------------
(* The backfill *)

Unbeaten(r) == issued[r].label = "running" /\ ~issued[r].heart

FillerLists ==
    /\ filler.at = "idle"
    /\ filler' = [FillerIdle EXCEPT !.at = "docs", !.todo = {r \in RowsIssued : Unbeaten(r)}]
    /\ UNCHANGED <<issued, matters, triage, proposed, filled, happenings>>

\* task_status_sync reads every task.yaml at once, or fails, and then there is none.
ReadsDocs ==
    /\ filler.at = "docs"
    /\ \E docs \in {[r \in RowsIssued |-> matters[r].file], [r \in RowsIssued |-> NoFile]} :
          filler' = [filler EXCEPT !.at = "units", !.docs = docs]
    /\ UNCHANGED <<issued, matters, triage, proposed, filled, happenings>>

\* A pull request as gh tells of it, if it does.
PullTold(r) == {"unknown", matters[r].pull}

\* Where the work of a stopped unit got to, by its pull request or else its branch.
ForwardProgress(r, doc) ==
    IF doc.cites /\ doc.status # "ended"
    THEN {CASE told = "merged" -> "completed" [] told = "open" -> "running"
            [] told \in {"unknown", "none", "closed"} -> "failed" : told \in PullTold(r)}
    ELSE {"failed"} \cup {v \in {"running"} : doc = [status |-> "blocked", cites |-> FALSE]
                                          /\ matters[r].tip = "new"}

UnitsLeft == {r \in filler.todo : issued[r].unit}

ChecksUnit ==
    /\ filler.at = "units"
    /\ \E r \in UnitsLeft :
          IF matters[r].up
          THEN filler' = [filler EXCEPT !.todo = @ \ {r}]
          ELSE \E v \in ForwardProgress(r, filler.docs[r]) :
                  filler' = [filler EXCEPT !.at = "writing", !.verdict = <<r, v>>]
    /\ UNCHANGED <<issued, matters, triage, proposed, filled, happenings>>

\* The status is written over whatever the row says by now, and the reason with it.
Relabels(r, v, words) ==
    issued' = [issued EXCEPT ![r].label = v, ![r].heart = @ \/ v = "running", ![r].says = words]

WritesVerdict ==
    /\ filler.at = "writing"
    /\ LET r == filler.verdict[1]
       IN /\ Relabels(r, filler.verdict[2],
                  IF filler.docs[r] = NoFile THEN {"no file"} ELSE {})
          /\ filled' = filled \cup {r}
          /\ filler' = [filler EXCEPT !.at = "units", !.todo = @ \ {r}, !.verdict = "none"]
    /\ UNCHANGED <<matters, triage, proposed, happenings>>

\* list-sessions: one answer for all rows without a unit, or none.
ListsSessions ==
    /\ filler.at = "units" /\ UnitsLeft = {}
    /\ \E told \in BOOLEAN :
          filler' = [filler EXCEPT !.at = "external",
                         !.todo = {r \in @ : told /\ matters[r].session = "COMPLETE"}]
    /\ UNCHANGED <<issued, matters, triage, proposed, filled, happenings>>

\* mark-complete, whose answer is only noted, and the row.
EndsExternal ==
    /\ filler.at = "external"
    /\ \/ \E r \in filler.todo :
             /\ Relabels(r, "completed", {})
             /\ filled' = filled \cup {r}
             /\ filler' = [filler EXCEPT !.todo = @ \ {r}]
       \/ /\ filler.todo = {} /\ filler' = FillerIdle
          /\ UNCHANGED <<issued, filled>>
    /\ UNCHANGED <<matters, triage, proposed, happenings>>

FillerKilled ==
    /\ filler.at # "idle" /\ filler' = FillerIdle
    /\ UNCHANGED <<issued, matters, triage, proposed, filled, happenings>>

-----------------------------------------------------------------------------
(* The triage *)

\* A later row of the identity that has not failed.
Superseded(r) == \E s \in RowsIssued : s > r /\ issued[s].label # "failed"

TriageLists ==
    /\ triage.at = "idle" /\ happenings.triages < MaxTriages
    /\ triage' = [at |-> "judging", judged |-> <<>>,
                  todo |-> {r \in RowsIssued : issued[r].label = "failed"}]
    /\ happenings' = [happenings EXCEPT !.triages = @ + 1]
    /\ UNCHANGED <<issued, matters, filler, proposed, filled>>

\* The reason and the metadata, triage's own earlier entry included.
EvidenceText(r) == issued[r].says \cup issued[r].recorded

\* The number of a pull request: task.yaml's, else one that the text names, which may
\* be of other work, else the one of the branch.
NamesPull(r) == matters[r].file.cites \/ "pull" \in EvidenceText(r)
OfOthers(r) == ~matters[r].file.cites /\ "pull" \in EvidenceText(r)
PullFound(r) == IF OfOthers(r) THEN Requests \cup {"unknown"} ELSE PullTold(r)
HasNumber(r, told) == NamesPull(r) \/ told \notin {"unknown", "none"}

\* What keeps a row from being tried again, and what stands for trying it.
Blocked(r, told) ==
    \/ EvidenceText(r) \cap Blockers # {}
    \/ "audit pass" \in EvidenceText(r) /\ told = "open"
NeverBegun(r, told) ==
    "no file" \in EvidenceText(r) /\ matters[r].file = NoFile /\ ~HasNumber(r, told)

\* The bucket, and the words of its reason that the patterns find again the next time.
BucketOf(r, told, onMain) ==
    LET text == EvidenceText(r)
        Found(bucket, words) == [bucket |-> bucket, words |-> words]
    IN IF ("commit" \in text \/ told = "merged") /\ onMain THEN Found("already_done", {})
       ELSE IF Superseded(r) THEN Found("superseded", {})
       ELSE IF Blocked(r, told)
            THEN Found("blocked", IF "credit accountant" \in text THEN {}
                                  ELSE IF text \cap Blockers = {"owner"} THEN {"owner"}
                                  ELSE {"reviewer"})
       ELSE IF text \cap Mechanical # {}
            THEN Found("retryable", IF "conflict" \in text THEN {"conflict"} ELSE {"gate"})
       ELSE Found(IF NeverBegun(r, told) THEN "retryable" ELSE "blocked", {})

JudgesRow ==
    /\ triage.at = "judging"
    /\ \E r \in triage.todo, onMain \in BOOLEAN : \E told \in PullFound(r) :
          triage' = [triage EXCEPT !.todo = @ \ {r},
                         !.judged = [s \in DOMAIN @ \cup {r} |->
                                        IF s = r THEN BucketOf(r, told, onMain) ELSE @[s]]]
    /\ UNCHANGED <<issued, matters, filler, proposed, filled, happenings>>

\* --apply: all buckets under one lock; --file-proposals: a call per row after that.
AppliesBuckets ==
    /\ triage.at = "judging" /\ triage.todo = {}
    /\ LET judged == triage.judged
       IN \/ /\ issued' = [r \in RowsIssued |->
                    IF r \notin DOMAIN judged THEN issued[r]
                    ELSE [issued[r] EXCEPT !.bucket = judged[r].bucket,
                                           !.recorded = judged[r].words]]
             /\ \E file \in BOOLEAN :
                   triage' = [triage EXCEPT !.at = "proposing", !.todo =
                       {r \in DOMAIN judged :
                           file /\ judged[r].bucket \in {"retryable", "blocked"}}]
          \/ triage' = TriageIdle /\ UNCHANGED issued
    /\ UNCHANGED <<matters, filler, proposed, filled, happenings>>

FilesProposal ==
    /\ triage.at = "proposing"
    /\ \/ \E r \in triage.todo :
             /\ proposed' \in {proposed, [proposed EXCEPT ![r] = @ + 1]}
             /\ triage' = [triage EXCEPT !.todo = @ \ {r}]
       \/ triage.todo = {} /\ triage' = TriageIdle /\ UNCHANGED proposed
    /\ UNCHANGED <<issued, matters, filler, filled, happenings>>

TriageKilled ==
    /\ triage.at # "idle" /\ triage' = TriageIdle
    /\ UNCHANGED <<issued, matters, filler, proposed, filled, happenings>>

-----------------------------------------------------------------------------
(* Everyone else *)

Happens == happenings.events < MaxEvents
           /\ happenings' = [happenings EXCEPT !.events = @ + 1]

\* The row is ended, queued again, or begun again, with a heartbeat or, as before
\* heartbeats were written at the spawn, without.
RowMoves ==
    /\ Happens
    /\ \E r \in RowsIssued :
          \/ /\ issued[r].label = "running"
             /\ \E words \in Reasons, v \in {"failed", "completed"} :
                   issued' = [issued EXCEPT ![r].label = v, ![r].says = words]
             /\ UNCHANGED filled
          \/ /\ issued[r].label = "failed"
             /\ issued' = [issued EXCEPT ![r].label = "queued"] /\ UNCHANGED filled
          \/ /\ issued[r].label = "queued"
             /\ \E h \in BOOLEAN :
                   issued' = [issued EXCEPT ![r].label = "running", ![r].heart = h]
             /\ filled' = filled \ {r}
    /\ UNCHANGED <<matters, filler, triage, proposed>>

\* The identity is submitted again, and begun.
SubmittedAgain ==
    /\ Happens /\ Len(issued) < MaxIssued
    /\ issued' = Append(issued, Issue(issued[1].unit))
    /\ matters' = Append(matters, [matters[1] EXCEPT !.up = FALSE, !.file = NoFile])
    /\ proposed' = Append(proposed, 0)
    /\ UNCHANGED <<filler, triage, filled>>

\* A worker starts or stops, writes its file, opens a pull request or pushes; GitHub
\* merges or closes; a session of another AI is completed.
WorkMoves ==
    /\ Happens
    /\ \E r \in RowsIssued :
          LET w == matters[r]
              Is(new) == matters' = [matters EXCEPT ![r] = new]
          IN \/ issued[r].unit /\ Is([w EXCEPT !.up = ~@])
             \/ w.up /\ \E f \in FilesOf \ {NoFile} :
                   (f.cites => w.pull # "none" /\ f.status # "none")
                   /\ Is([w EXCEPT !.file = f])
             \/ issued[r].unit /\ w.pull \in {"none", "open"}
                /\ \E p \in IF w.pull = "none" THEN {"open"} ELSE {"merged", "closed"} :
                      Is([w EXCEPT !.pull = p])
             \/ w.up /\ Is([w EXCEPT !.tip = "new"])
             \/ w.session = "open" /\ Is([w EXCEPT !.session = "COMPLETE"])
    /\ UNCHANGED <<issued, filler, triage, proposed, filled>>

-----------------------------------------------------------------------------

\* What is so at a moment, gathered from a list on.
IdleNow == {r \in RowsIssued : ~matters[r].up}
AloneNow == {r \in RowsIssued : ~Superseded(r)}
Moments ==
    sinceList' = [idle |-> IdleNow' \cup IF filler.at = "idle" THEN {} ELSE sinceList.idle,
                  alone |-> AloneNow' \cup IF triage.at = "idle" THEN {} ELSE sinceList.alone]

BackfillNext ==
    /\ \/ FillerLists \/ ReadsDocs \/ ChecksUnit \/ WritesVerdict \/ ListsSessions
       \/ EndsExternal \/ FillerKilled
       \/ TriageLists \/ JudgesRow \/ AppliesBuckets \/ FilesProposal \/ TriageKilled
       \/ RowMoves \/ SubmittedAgain \/ WorkMoves
    /\ Moments

BackfillSpec == BackfillInit /\ [][BackfillNext]_backvars

-----------------------------------------------------------------------------
(* Properties *)

\* The backfill ends a row, or says that it runs, only if its unit was down at some time
\* since the rows were listed, and calls it completed only if its pull request is merged
\* or its session complete; and it takes no row twice that nobody has begun again since
\* (backfill_null_heartbeats and _forward_progress_decision).
FilledOnEvidence ==
    /\ filler.at = "writing" =>
          LET r == filler.verdict[1]
          IN /\ r \in sinceList.idle
             /\ filler.verdict[2] = "completed" => matters[r].pull = "merged"
    /\ filler.at = "external" => \A r \in filler.todo : matters[r].session = "COMPLETE"
    /\ filler.todo \cap filled = {}

\* Triage calls a row done only if its own pull request is merged, or its text names
\* another or a commit; superseded only if a later row of the identity is there; and to be
\* tried again only if no later row of it lived at some time since the rows were listed
\* and its text holds no reason against it.  A run asks the owner once per row
\* (triage_owner_umr_24h.py's classify, apply_classification and file_proposal).
TriagedOnEvidence ==
    /\ \A r \in DOMAIN triage.judged :
          LET bucket == triage.judged[r].bucket
          IN /\ bucket = "superseded" => \E s \in RowsIssued : s > r
             /\ bucket = "retryable" => r \in sinceList.alone
             /\ triage.judged[r].words \cap Blockers # {} => bucket = "blocked"
    /\ \A r \in RowsIssued : proposed[r] <= happenings.triages

RowsJudged == FilledOnEvidence /\ TriagedOnEvidence
=============================================================================
