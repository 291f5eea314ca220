----------------------------- MODULE CreditLedger -----------------------------
(***************************************************************************)
(* credit-accountant.py: before each increment of a task a caller proposes *)
(* its plan and is approved or not; afterwards it reports the outcome,     *)
(* which is judged too.  A rejected outcome refuses the next proposal.     *)
(*                                                                         *)
(* Increments are numbered by a count read before the insert, and a daily  *)
(* job deletes the old ones, so numbers repeat.  The judge is a command    *)
(* that takes a minute, between two transactions that name the row by its  *)
(* number.  One task is modelled: its rows are all a call reads.           *)
(***************************************************************************)
EXTENDS Naturals, FiniteSets

CONSTANTS
    Plans,        \* proposals, each a process of its own
    MaxReports,   \* bound: reports
    MaxPrunes     \* bound: runs of the daily job

ASSUME CreditAssumption ==
    /\ IsFiniteSet(Plans)
    /\ {MaxReports, MaxPrunes} \subseteq Nat

VARIABLES
    increments,  \* credit_increments: number -> row, or NoIncrement
    proposal,    \* per plan: its process and what it was told
    report,      \* the report under way
    judged,      \* history: what the judge, or a rule, said of each plan
    creditCalls  \* how many inserts, reports and prunes there were

cvars == <<increments, proposal, report, judged, creditCalls>>

Numbers == 1 .. Cardinality(Plans)
NoIncrement == [plan |-> "none", verdict |-> "none", outcome |-> "none", said |-> "none", at |-> 0]
NoReport == [pc |-> "idle", number |-> 1, refused |-> FALSE]
Outcomes == {"thin", "full"}

CreditTypeOK ==
    /\ increments \in [Numbers -> [plan : Plans \cup {"none"},
                                   verdict : {"none", "approved", "rejected"},
                                   outcome : {"none", "approved", "rejected"},
                                   said : Outcomes \cup {"none"}, at : 0 .. Cardinality(Plans)]]
    /\ proposal \in [Plans -> [pc : {"new", "counted", "checked", "judging", "crashed",
                                     "approved", "rejected"},
                               number : Numbers]]
    /\ report \in [pc : {"idle", "judging"}, number : Numbers \cup {1}, refused : BOOLEAN]
    /\ judged \in [Plans -> {"none", "approved", "rejected"}]
    /\ creditCalls \in [inserts : 0 .. Cardinality(Plans), reports : 0 .. MaxReports,
                       prunes : 0 .. MaxPrunes]

CreditInit ==
    /\ increments = [n \in Numbers |-> NoIncrement]
    /\ proposal = [p \in Plans |-> [pc |-> "new", number |-> 1]]
    /\ report = NoReport
    /\ judged = [p \in Plans |-> "none"]
    /\ creditCalls = [inserts |-> 0, reports |-> 0, prunes |-> 0]

Present == {n \in Numbers : increments[n] # NoIncrement}
ProposalGoes(p, pc) == proposal' = [proposal EXCEPT ![p].pc = pc]

-----------------------------------------------------------------------------
(* propose *)

\* Mutant of Counts: numbers start at zero.
CountsFromZero(p) ==
    /\ proposal[p].pc = "new"
    /\ proposal' = [proposal EXCEPT ![p] = [pc |-> "counted", number |-> Cardinality(Present)]]
    /\ UNCHANGED <<increments, report, judged, creditCalls>>

\* The count of the task's rows, plus one.
Counts(p) ==
    /\ proposal[p].pc = "new"
    /\ proposal' = [proposal EXCEPT ![p] = [pc |-> "counted", number |-> Cardinality(Present) + 1]]
    /\ UNCHANGED <<increments, report, judged, creditCalls>>

\* The row before it, if there is one and its outcome was rejected, is a hard stop.
ChecksPrior(p) ==
    /\ proposal[p].pc = "counted"
    /\ LET n == proposal[p].number
       IN  ProposalGoes(p, IF n > 1 /\ increments[n - 1].outcome = "rejected"
                           THEN "rejected" ELSE "checked")
    /\ UNCHANGED <<increments, report, judged, creditCalls>>

\* Mutant of Collides: no UNIQUE(task_id, increment_number), the later row replaces.
NeverCollides(n) == FALSE

\* The insert fails on a number that is taken, and the call with it.
Collides(n) == n \in Present

Inserts(p) ==
    /\ proposal[p].pc = "checked"
    /\ LET n == proposal[p].number
       IN  IF Collides(n)
           THEN /\ ProposalGoes(p, "crashed")
                /\ UNCHANGED <<increments, creditCalls>>
           ELSE /\ ProposalGoes(p, "judging")
                /\ creditCalls' = [creditCalls EXCEPT !.inserts = @ + 1]
                /\ increments' = [increments EXCEPT ![n] =
                       [NoIncrement EXCEPT !.plan = p, !.at = creditCalls.inserts + 1]]
    /\ UNCHANGED <<report, judged>>

\* The balance, the capability search and claude_judgment_call decide on this plan;
\* anything but PASS, no answer included, rejects.  The verdict goes by the number.
Judges(p) ==
    /\ proposal[p].pc = "judging"
    /\ \E v \in {"approved", "rejected"} :
          /\ judged' = [judged EXCEPT ![p] = v]
          /\ ProposalGoes(p, v)
          /\ increments' = [increments EXCEPT ![proposal[p].number].verdict = v]
    /\ UNCHANGED <<report, creditCalls>>

\* The caller's own time limit kills it: the row keeps no verdict.
ProposalKilled(p) ==
    /\ proposal[p].pc \in {"counted", "checked", "judging"}
    /\ ProposalGoes(p, "crashed")
    /\ UNCHANGED <<increments, report, judged, creditCalls>>

-----------------------------------------------------------------------------
(* report *)

\* Identical to the last two that were reported.
RepeatedOutcome(n, said) ==
    \E a, b \in Present :
        /\ b < a /\ a < n
        /\ \A x \in Present : x < n => x <= b \/ x = a
        /\ increments[a].said = said /\ increments[b].said = said

\* The outcome is written and committed, for an approved row, before it is judged.
Reports(n, said) ==
    /\ report = NoReport /\ creditCalls.reports < MaxReports
    /\ increments[n].verdict = "approved"
    /\ creditCalls' = [creditCalls EXCEPT !.reports = @ + 1]
    /\ increments' = [increments EXCEPT ![n].said = said]
    /\ report' = [pc |-> "judging", number |-> n,
                  refused |-> said = "thin" \/ RepeatedOutcome(n, said)]
    /\ UNCHANGED <<proposal, judged>>

ReportJudged ==
    /\ report.pc = "judging"
    /\ \E v \in {"approved", "rejected"} :
          /\ report.refused => v = "rejected"
          /\ increments' = [increments EXCEPT ![report.number].outcome =
                               IF report.number \in Present THEN v ELSE @]
    /\ report' = NoReport
    /\ UNCHANGED <<proposal, judged, creditCalls>>

ReportKilled ==
    /\ report.pc = "judging"
    /\ report' = NoReport
    /\ UNCHANGED <<increments, proposal, judged, creditCalls>>

-----------------------------------------------------------------------------
\* prune: what is older than a month goes.  A plan is judged within minutes, so the
\* rows up to a moment before the oldest of those.
Prunes(n) ==
    /\ creditCalls.prunes < MaxPrunes
    /\ n \in Present
    /\ LET Old == {m \in Present : increments[m].at <= increments[n].at}
       IN  /\ \A m \in Old : proposal[increments[m].plan].pc # "judging"
           /\ increments' = [m \in Numbers |-> IF m \in Old THEN NoIncrement ELSE increments[m]]
    /\ creditCalls' = [creditCalls EXCEPT !.prunes = @ + 1]
    /\ UNCHANGED <<proposal, report, judged>>

CreditNext ==
    \/ \E p \in Plans :
          Counts(p) \/ ChecksPrior(p) \/ Inserts(p) \/ Judges(p) \/ ProposalKilled(p)
    \/ \E n \in Numbers : Prunes(n) \/ \E said \in Outcomes : Reports(n, said)
    \/ ReportJudged \/ ReportKilled

CreditSpec == CreditInit /\ [][CreditNext]_cvars

-----------------------------------------------------------------------------
(* Properties *)

\* Spend is approved row by row: the verdict an increment's row carries is the one
\* its own plan was given, whichever proposals took the same number from the same
\* count, crashed, or reused it after a prune.
VerdictsAreOwn ==
    \A n \in Present :
        increments[n].verdict # "none" => judged[increments[n].plan] = increments[n].verdict
=============================================================================
