----------------------------- MODULE MCServices -----------------------------
(***************************************************************************)
(* What hands work in, what judges it, and what looks after the server:    *)
(* submissions that name their unit, owner-directed dispatches, pasted     *)
(* chunks, prompts, the phases of a plan and the entries of DIRECTIVE.yaml; *)
(* the gate of completed work, the certification of a product and the      *)
(* compliance of an OCID; the register's schema and backups, the tick that *)
(* remedies failed audits and merges, the watchdog and the health check,   *)
(* the owner's report, the registry of what is wired to what, and two looks *)
(* back over rows that ended badly or never showed a heartbeat.            *)
(* They are models without common state; scene says of which the behaviour *)
(* is, and the others stay where they begin.                               *)
(***************************************************************************)
EXTENDS UmrGovernor, OwnerDispatch, ChunkStore, UmrSchema, PhasePlan,
        DirectiveEngine, Backups, Remediation, PromptGateway, CompletionGate,
        Watchdogs, GtmCertification, ComplianceAudit, PmReport, WiringRegistry,
        RowBackfills, TLC

VARIABLE scene

Scenes == {"governor", "dispatch", "chunks", "schema", "plan", "directive",
           "backups", "remedy", "prompt", "completion", "health", "watchdog",
           "gtm", "compliance", "report", "wiring", "backfill"}

servicevars == <<scene, vars, duvars, chunkvars, schemavars, planvars, dirvars,
                 bakvars, remvars, promptvars, gatekeepvars, healthvars,
                 dogvars, gtmvars, compvars, reportvars, wirevars, backvars>>

ServicesTypeOK ==
    /\ scene \in Scenes
    /\ scene = "governor" => TypeOK
    /\ scene = "dispatch" => DispatchTypeOK
    /\ scene = "chunks" => ChunkTypeOK
    /\ scene = "schema" => SchemaTypeOK
    /\ scene = "plan" => PlanTypeOK
    /\ scene = "directive" => DirectiveTypeOK
    /\ scene = "backups" => BackupsTypeOK
    /\ scene = "remedy" => RemediationTypeOK
    /\ scene = "prompt" => PromptTypeOK
    /\ scene = "completion" => GatekeepTypeOK
    /\ scene = "health" => HealthTypeOK
    /\ scene = "watchdog" => WatchdogTypeOK
    /\ scene = "gtm" => GtmTypeOK
    /\ scene = "compliance" => ComplianceTypeOK
    /\ scene = "report" => PmReportTypeOK
    /\ scene = "wiring" => WiringTypeOK
    /\ scene = "backfill" => BackfillTypeOK

ServicesInit ==
    /\ scene \in Scenes
    /\ Init /\ DispatchInit /\ ChunkInit /\ SchemaInit /\ PlanInit /\ DirectiveInit
    /\ BackupsInit /\ RemediationInit /\ PromptInit /\ GatekeepInit /\ HealthInit
    /\ WatchdogInit /\ GtmInit /\ ComplianceInit /\ PmReportInit /\ WiringInit
    /\ BackfillInit
    /\ scene # "schema" => status = "old"
    /\ scene # "completion" => prompt = CHOOSE p \in Prompts : TRUE
    /\ scene # "gtm" => \A c \in 1..24 : category[c] = "pass" /\ 1 \in DOMAIN pending
    /\ scene # "compliance" => canon.file = CHOOSE f \in Canons : TRUE
    /\ matter.fails = {}
    /\ catalog = CHOOSE c \in Catalogs : TRUE
    /\ scene # "backfill" => issued = <<Issue(TRUE)>> /\ matters[1].up

ServicesNext ==
    \/ /\ scene = "governor" /\ Next
       /\ UNCHANGED <<scene, duvars, chunkvars, schemavars, planvars, dirvars,
                      bakvars, remvars, promptvars, gatekeepvars, healthvars,
                      dogvars, gtmvars, compvars, reportvars, wirevars,
                      backvars>>
    \/ /\ scene = "dispatch" /\ DispatchNext
       /\ UNCHANGED <<scene, vars, chunkvars, schemavars, planvars, dirvars,
                      bakvars, remvars, promptvars, gatekeepvars, healthvars,
                      dogvars, gtmvars, compvars, reportvars, wirevars,
                      backvars>>
    \/ /\ scene = "chunks" /\ ChunkNext
       /\ UNCHANGED <<scene, vars, duvars, schemavars, planvars, dirvars,
                      bakvars, remvars, promptvars, gatekeepvars, healthvars,
                      dogvars, gtmvars, compvars, reportvars, wirevars,
                      backvars>>
    \/ /\ scene = "schema" /\ SchemaNext
       /\ UNCHANGED <<scene, vars, duvars, chunkvars, planvars, dirvars,
                      bakvars, remvars, promptvars, gatekeepvars, healthvars,
                      dogvars, gtmvars, compvars, reportvars, wirevars,
                      backvars>>
    \/ /\ scene = "plan" /\ PlanNext
       /\ UNCHANGED <<scene, vars, duvars, chunkvars, schemavars, dirvars,
                      bakvars, remvars, promptvars, gatekeepvars, healthvars,
                      dogvars, gtmvars, compvars, reportvars, wirevars,
                      backvars>>
    \/ /\ scene = "directive" /\ DirectiveNext
       /\ UNCHANGED <<scene, vars, duvars, chunkvars, schemavars, planvars,
                      bakvars, remvars, promptvars, gatekeepvars, healthvars,
                      dogvars, gtmvars, compvars, reportvars, wirevars,
                      backvars>>
    \/ /\ scene = "backups" /\ BackupsNext
       /\ UNCHANGED <<scene, vars, duvars, chunkvars, schemavars, planvars,
                      dirvars, remvars, promptvars, gatekeepvars, healthvars,
                      dogvars, gtmvars, compvars, reportvars, wirevars,
                      backvars>>
    \/ /\ scene = "remedy" /\ RemediationNext
       /\ UNCHANGED <<scene, vars, duvars, chunkvars, schemavars, planvars,
                      dirvars, bakvars, promptvars, gatekeepvars, healthvars,
                      dogvars, gtmvars, compvars, reportvars, wirevars,
                      backvars>>
    \/ /\ scene = "prompt" /\ PromptNext
       /\ UNCHANGED <<scene, vars, duvars, chunkvars, schemavars, planvars,
                      dirvars, bakvars, remvars, gatekeepvars, healthvars,
                      dogvars, gtmvars, compvars, reportvars, wirevars,
                      backvars>>
    \/ /\ scene = "completion" /\ GatekeepNext
       /\ UNCHANGED <<scene, vars, duvars, chunkvars, schemavars, planvars,
                      dirvars, bakvars, remvars, promptvars, healthvars,
                      dogvars, gtmvars, compvars, reportvars, wirevars,
                      backvars>>
    \/ /\ scene = "health" /\ HealthNext
       /\ UNCHANGED <<scene, vars, duvars, chunkvars, schemavars, planvars,
                      dirvars, bakvars, remvars, promptvars, gatekeepvars,
                      dogvars, gtmvars, compvars, reportvars, wirevars,
                      backvars>>
    \/ /\ scene = "watchdog" /\ WatchdogNext
       /\ UNCHANGED <<scene, vars, duvars, chunkvars, schemavars, planvars,
                      dirvars, bakvars, remvars, promptvars, gatekeepvars,
                      healthvars, gtmvars, compvars, reportvars, wirevars,
                      backvars>>
    \/ /\ scene = "gtm" /\ GtmNext
       /\ UNCHANGED <<scene, vars, duvars, chunkvars, schemavars, planvars,
                      dirvars, bakvars, remvars, promptvars, gatekeepvars,
                      healthvars, dogvars, compvars, reportvars, wirevars,
                      backvars>>
    \/ /\ scene = "compliance" /\ ComplianceNext
       /\ UNCHANGED <<scene, vars, duvars, chunkvars, schemavars, planvars,
                      dirvars, bakvars, remvars, promptvars, gatekeepvars,
                      healthvars, dogvars, gtmvars, reportvars, wirevars,
                      backvars>>
    \/ /\ scene = "report" /\ PmReportNext
       /\ UNCHANGED <<scene, vars, duvars, chunkvars, schemavars, planvars,
                      dirvars, bakvars, remvars, promptvars, gatekeepvars,
                      healthvars, dogvars, gtmvars, compvars, wirevars,
                      backvars>>
    \/ /\ scene = "wiring" /\ WiringNext
       /\ UNCHANGED <<scene, vars, duvars, chunkvars, schemavars, planvars,
                      dirvars, bakvars, remvars, promptvars, gatekeepvars,
                      healthvars, dogvars, gtmvars, compvars, reportvars,
                      backvars>>
    \/ /\ scene = "backfill" /\ BackfillNext
       /\ UNCHANGED <<scene, vars, duvars, chunkvars, schemavars, planvars,
                      dirvars, bakvars, remvars, promptvars, gatekeepvars,
                      healthvars, dogvars, gtmvars, compvars, reportvars,
                      wirevars>>

ServicesSpec == ServicesInit /\ [][ServicesNext]_servicevars

-----------------------------------------------------------------------------
(* Properties that join those of several components *)

\* What was said to be kept is kept: a chunk that a call called saved (ChunkStore),
\* the register's rows through upgrades of its schema (UmrSchema), and the copies
\* that a prune may not delete (Backups).
StoresKept == SavedIsOnDisk /\ RowsKeptAndFound /\ PruneSpares

\* Work that waits for other work, or for a second try, is begun when it may be and
\* once: phases (PhasePlan), entries of the directive (DirectiveEngine) and the
\* retries of failed audits and merges (Remediation).
BegunInTurn == PhasesInOrder /\ RetriedOnce /\ RerunOncePerVerdict

\* What is listed and reported is what is there: the owner's report (PmReport) and the
\* registry of what is wired to what (WiringRegistry), and what two looks back over the
\* rows wrote into them (RowBackfills).
ListingsTold == ReportTold /\ WiringSound /\ RowsJudged

-----------------------------------------------------------------------------
\* Two of the five groups of columns, the one of the index first.
ServiceCols == <<"utm", "agent">>

\* The second phase of the plan depends on the first, and so do the entries.
ServiceRequires == <<{}, {1}>>

\* A document in doubt, and words of low confidence.
ServiceTexts ==
    {[seen |-> "document", doubt |-> "intent", route |-> "start"],
     [seen |-> "words", doubt |-> "low", route |-> "none"]}

\* Two files of one base name, and no override; the prompt names a file plainly,
\* or in quotes next to a new one.
ServiceBase == [f \in Files |-> IF f = "old/a.py" THEN "a.py" ELSE f]
ServiceOverride == [f \in Files |-> f]
ServicePrompts == {{<<"a.py", "plain">>},
                   {<<"a.py", "quoted">>, <<"new.py", "plain">>}}
ServicePulls ==
    {[own |-> TRUE, known |-> TRUE, named |-> TRUE, late |-> TRUE,
      files |-> {"a.py"}],
     [own |-> FALSE, known |-> TRUE, named |-> TRUE, late |-> FALSE,
      files |-> {"a.py"}]}

\* One rule's mechanism is younger than the rest; the file is on record in full and
\* git shows it at its commit.
ServiceMechanism == [r \in Rules |-> IF r = "duplication" THEN 1 ELSE 0]
ServiceCanons == {{"repo", "path", "commit", "merged"}}
ServiceShows == {{"commit"}}

\* Everything passes and nothing is amiss; a failed category of P1, a load that cannot
\* be read and pulls that collide; and a P0 that is blocked on a loaded server.
ServiceSeverity == [c \in Cats |-> IF c = 1 THEN "P0" ELSE "P1"]
Passing == [c \in Cats |-> "pass"]
ServiceWorlds ==
    {[gtm |-> Passing, swap |-> 50, load |-> 20, fails |-> {}, pulls |-> {}],
     [gtm |-> [Passing EXCEPT ![2] = "fail"], swap |-> 51, load |-> Missing,
      fails |-> {"o"},
      pulls |-> {[n |-> 1, cites |-> {"u"}, files |-> {"f"}, fresh |-> TRUE],
                 [n |-> 2, cites |-> {"u"}, files |-> {"g"}, fresh |-> TRUE],
                 [n |-> 3, cites |-> {}, files |-> {"f"}, fresh |-> TRUE]}],
     [gtm |-> [Passing EXCEPT ![1] = "blocked", ![2] = "fail"], swap |-> 40,
      load |-> 30, fails |-> {"o"}, pulls |-> {}]}

\* A directory with a file in it, and the index; an engine and a gateway that share it,
\* on a route that names an engine the inventory lacks; then that engine in their place,
\* the index as a source, and a census.
ServiceInside == [p \in Paths |-> IF p = "dir/file" THEN {p, "dir"} ELSE {p}]
NoList == [file |-> {}, names |-> {}]
ServiceCatalogs ==
    {[units |-> (<<"engine", 1>> :> {"dir"}) @@ (<<"gateway", 1>> :> {"dir", "dir/file"}),
      tables |-> [file |-> {"dir/file"}, names |-> {1}], roles |-> NoList,
      functions |-> {[name |-> 1, file |-> "dir/file"]},
      routes |-> {[id |-> 1, from |-> "dir", to |-> "index",
                   hops |-> {<<"engine", 1>>, <<"engine", 2>>}]},
      scripts |-> {"dir/file"}, crons |-> (1 :> {"dir/file"}),
      repos |-> <<>>, projects |-> <<>>],
     [units |-> (<<"engine", 2>> :> {"dir"}),
      tables |-> NoList, roles |-> [file |-> {"index"}, names |-> {1}],
      functions |-> {}, routes |-> {}, scripts |-> {}, crons |-> <<>>,
      repos |-> (1 :> {"dir/file"}), projects |-> (1 :> {1}) @@ (2 :> {})]}

\* A live worker without a file; one that stopped short with a pushed branch, or with
\* an open pull request; and an AI that answers from outside.
Bare == [up |-> FALSE, file |-> NoFile, pull |-> "none", tip |-> "old",
         session |-> "none"]
ServiceBeginnings ==
    {[Bare EXCEPT !.up = TRUE],
     [Bare EXCEPT !.file = [status |-> "blocked", cites |-> FALSE], !.tip = "new"],
     [Bare EXCEPT !.file = [status |-> "going", cites |-> TRUE], !.pull = "open"],
     [Bare EXCEPT !.session = "open"]}
ServiceReasons == {{"audit pass", "gate"}, {"owner"}}
=============================================================================
