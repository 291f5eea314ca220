----------------------------- MODULE PmDecisions -----------------------------
(***************************************************************************)
(* pm_decisions_pending of superboss-register.py: the decisions a person   *)
(* is asked for and the proposals put to the owner, and the programs that  *)
(* open, rewrite and close them next to people who answer:                 *)
(* flag_stale_queued_tasks of the governor keeps one row for all tasks     *)
(* that are queued too long, and wiring_health_check.py one open row for   *)
(* each seam it finds broken.                                              *)
(*                                                                         *)
(* Each statement runs under the register's write lock, but what a program *)
(* decides on it has read before it took the lock.                         *)
(***************************************************************************)
EXTENDS Naturals, FiniteSets

CONSTANTS
    MaxAsked,      \* bound: rows of the table
    Waiting,       \* tasks that may be queued for too long
    Flaggers,      \* runs of flag_stale_queued_tasks at once
    Seams,         \* seams that may be broken, of the four that are tested
    MaxTurns       \* bound: changes of what is stale or broken

Rows == 1 .. MaxAsked
AllSeams == {"pickup", "registries", "report", "agents"}

ASSUME DecisionsAssumption ==
    /\ {MaxAsked, MaxTurns} \subseteq Nat \ {0}
    /\ Seams \subseteq AllSeams

Kinds == {"pm_decision", "aggregate", "owner_proposal"} \cup AllSeams
Answers == {"resolved", "superseded", "approved", "held"}
\* A redirected proposal is closed as a held one is.

VARIABLES
    row,       \* the table: what each row asks, its status, the tasks it lists
    overdue,   \* tasks queued for longer than MAX_QUEUED_AGE_SECONDS
    broken,    \* seams that do not work
    turns,     \* bound: how often those two have changed
    flagger,   \* per run: where it is, the tasks and the open aggregates it read
    prober     \* the health check: the next seam to test, those that failed

decvars == <<row, overdue, broken, turns, flagger, prober>>

NoRow == [kind |-> "pm_decision", status |-> "none", lists |-> {}]
NotFlagging == [pc |-> "idle", tasks |-> {}, open |-> {}]
NotProbing == [at |-> "idle", failed |-> {}]

DecisionsTypeOK ==
    /\ row \in [Rows -> [kind : Kinds,
                         status : {"none", "open", "completed"} \cup Answers,
                         lists : SUBSET Waiting]]
    /\ overdue \subseteq Waiting /\ broken \subseteq Seams
    /\ turns \in 0 .. MaxTurns
    /\ flagger \in [Flaggers -> [pc : {"idle", "listed", "read"}, tasks : SUBSET Waiting,
                                 open : SUBSET Rows]]
    /\ prober \in [at : {"idle", "record"} \cup AllSeams, failed : SUBSET AllSeams]

DecisionsInit ==
    /\ row = [d \in Rows |-> NoRow]
    /\ overdue = {} /\ broken = {} /\ turns = 0
    /\ flagger = [f \in Flaggers |-> NotFlagging]
    /\ prober = NotProbing

-----------------------------------------------------------------------------
(* Statements on the table.  Each is of a row, or of the table t. *)

Open(t) == {d \in Rows : t[d].status = "open"}
UsedRows(t) == {d \in Rows : t[d].status # "none"}

\* AUTOINCREMENT: the row after the last.
Inserted(t, kind, lists) ==
    [t EXCEPT ![Cardinality(UsedRows(t)) + 1] =
        [kind |-> kind, status |-> "open", lists |-> lists]]

RoomIn(t, n) == Cardinality(UsedRows(t)) + n <= MaxAsked

\* Mutant of Resolved: whatever the status is.
ResolvedAnyway(r, answer) == [r EXCEPT !.status = answer]

\* resolve_pm_decision_pending: WHERE status='open'
Resolved(r, answer) == IF r.status = "open" THEN [r EXCEPT !.status = answer] ELSE r

\* update_pm_decision_pending: WHERE status='open'
Updated(r, lists) == IF r.status = "open" THEN [r EXCEPT !.lists = lists] ELSE r

-----------------------------------------------------------------------------
(* People, with the commands of superboss-register.py *)

AsksDecision ==
    /\ RoomIn(row, 1)
    /\ row' = Inserted(row, "pm_decision", {})
    /\ UNCHANGED <<overdue, broken, turns, flagger, prober>>

AsksOwner ==
    /\ RoomIn(row, 1)
    /\ row' = Inserted(row, "owner_proposal", {})
    /\ UNCHANGED <<overdue, broken, turns, flagger, prober>>

\* resolve-pm-decision takes any row, and the command may come after another's.
AnswersDecision(d) ==
    /\ row[d].status # "none"
    /\ row' = [row EXCEPT ![d] = Resolved(@, "resolved")]
    /\ UNCHANGED <<overdue, broken, turns, flagger, prober>>

\* decide_owner_proposal, of a proposal only
DecidesProposal(d, answer) ==
    /\ row[d].kind = "owner_proposal"
    /\ answer \in {"approved", "held"}
    /\ row' = [row EXCEPT ![d] = Resolved(@, answer)]
    /\ UNCHANGED <<overdue, broken, turns, flagger, prober>>

\* record_owner_proposal_completion
CompletesProposal(d) ==
    /\ row[d].kind = "owner_proposal" /\ row[d].status = "approved"
    /\ row' = [row EXCEPT ![d].status = "completed"]
    /\ UNCHANGED <<overdue, broken, turns, flagger, prober>>

-----------------------------------------------------------------------------
(* flag_stale_queued_tasks *)

ListsStale(f) ==
    /\ flagger[f].pc = "idle"
    /\ flagger' = [flagger EXCEPT ![f] = [@ EXCEPT !.pc = "listed", !.tasks = overdue]]
    /\ UNCHANGED <<row, overdue, broken, turns, prober>>

ReadsAggregates(f) ==
    /\ flagger[f].pc = "listed"
    /\ flagger' = [flagger EXCEPT ![f].pc = "read",
                       ![f].open = {d \in Open(row) : row[d].kind = "aggregate"}]
    /\ UNCHANGED <<row, overdue, broken, turns, prober>>

\* Under the lock, of the rows read before it: with no stale task all are resolved;
\* otherwise the first is rewritten and the others are superseded, or one is opened.
WritesAggregates(f) ==
    LET me == flagger[f]
        First(d) == d \in me.open /\ \A e \in me.open : d <= e
        Settled(d) == IF d \notin me.open THEN row[d]
                      ELSE IF me.tasks = {} THEN Resolved(row[d], "resolved")
                      ELSE IF First(d) THEN Updated(row[d], me.tasks)
                      ELSE Resolved(row[d], "superseded")
    IN  /\ me.pc = "read"
        /\ flagger' = [flagger EXCEPT ![f] = NotFlagging]
        /\ IF me.open = {} /\ me.tasks # {}
           THEN RoomIn(row, 1) /\ row' = Inserted(row, "aggregate", me.tasks)
           ELSE row' = [d \in Rows |-> Settled(d)]
        /\ UNCHANGED <<overdue, broken, turns, prober>>

FlaggerKilled(f) ==
    /\ flagger[f].pc # "idle"
    /\ flagger' = [flagger EXCEPT ![f] = NotFlagging]
    /\ UNCHANGED <<row, overdue, broken, turns, prober>>

-----------------------------------------------------------------------------
(* wiring_health_check.py, which one report runs at a time *)

\* One test: what fails or raises is a failure.
Probed(seam, next) ==
    /\ prober.at = seam
    /\ prober' = [at |-> next, failed |-> prober.failed \cup ({seam} \cap broken)]
    /\ UNCHANGED <<row, overdue, broken, turns, flagger>>

ProbingBegins ==
    /\ prober.at = "idle"
    /\ prober' = [at |-> "pickup", failed |-> {}]
    /\ UNCHANGED <<row, overdue, broken, turns, flagger>>

ProbesPickup == Probed("pickup", "registries")
ProbesRegistries == Probed("registries", "report")
ProbesReport == Probed("report", "agents")
ProbesAgents == Probed("agents", "record")

\* The order of the tests in run_all_checks.
Rank == [s \in AllSeams |-> CASE s = "pickup" -> 1 [] s = "registries" -> 2
                             [] s = "report" -> 3 [] s = "agents" -> 4]

\* record_failures: the open rows are looked for inside the lock, and the seams without
\* one get a row each, in their order.
RecordsFailures ==
    LET New == {s \in prober.failed : \A d \in Open(row) : row[d].kind # s}
        Place(s) == Cardinality(UsedRows(row)) + Cardinality({n \in New : Rank[n] <= Rank[s]})
        At(d) == {s \in New : Place(s) = d}
    IN  /\ prober.at = "record"
        /\ prober' = NotProbing
        /\ RoomIn(row, Cardinality(New))
        /\ row' = [d \in Rows |-> IF At(d) = {} THEN row[d]
                                 ELSE [kind |-> CHOOSE s \in At(d) : TRUE,
                                       status |-> "open", lists |-> {}]]
        /\ UNCHANGED <<overdue, broken, turns, flagger>>

\* Tasks grow old, are dispatched or end; seams break and are mended.
Turns ==
    /\ turns < MaxTurns
    /\ turns' = turns + 1
    /\ \/ overdue' \in SUBSET Waiting \ {overdue} /\ UNCHANGED broken
       \/ broken' \in SUBSET Seams \ {broken} /\ UNCHANGED overdue
    /\ UNCHANGED <<row, flagger, prober>>

DecisionsNext ==
    \/ AsksDecision \/ AsksOwner \/ Turns
    \/ \E d \in Rows, answer \in Answers : DecidesProposal(d, answer)
    \/ \E d \in Rows : AnswersDecision(d) \/ CompletesProposal(d)
    \/ \E f \in Flaggers :
          ListsStale(f) \/ ReadsAggregates(f) \/ WritesAggregates(f) \/ FlaggerKilled(f)
    \/ ProbingBegins \/ ProbesPickup \/ ProbesRegistries \/ ProbesReport \/ ProbesAgents
    \/ RecordsFailures

DecisionsSpec == DecisionsInit /\ [][DecisionsNext]_decvars

-----------------------------------------------------------------------------
(* Properties *)

\* An answer stands: once a row is closed no program that read it before, and no second
\* answer, changes it; only an approved proposal goes on, to completed.  And a seam has
\* one open row, however often it is found broken.
AnswerStands ==
    /\ \A d \in Rows : row[d].status \notin {"none", "open"} =>
           \/ row'[d] = row[d]
           \/ row[d].status = "approved" /\ row'[d] = [row[d] EXCEPT !.status = "completed"]
    /\ \A d, e \in Open(row') :
           row'[d].kind = row'[e].kind /\ row'[d].kind \in AllSeams => d = e

AnswersStand == [][AnswerStands]_decvars
=============================================================================
