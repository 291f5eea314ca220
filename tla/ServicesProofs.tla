--------------------------- MODULE ServicesProofs ---------------------------
(***************************************************************************)
(* What each component of MCServices keeps (ComponentProofs, AuditProofs), *)
(* taken to their composition, for every value of the constants.           *)
(***************************************************************************)
EXTENDS MCServices, ComponentProofs, AuditProofs, TLAPS

-----------------------------------------------------------------------------
(* The scenes of MCServices: in each of them one component moves and the   *)
(* others stay, so what a component keeps holds of the whole.              *)

\* A behaviour of the services is one of each of its components: of the governor,
LEMMA ServicesIsGovernor == ServicesSpec => Spec
<1>1. ServicesInit => Init
  BY DEF ServicesInit
<1>2. [ServicesNext]_servicevars => [Next]_vars
  BY DEF ServicesNext, servicevars
<1> QED
  BY <1>1, <1>2, PTL DEF ServicesSpec, Spec

\* of owner-directed dispatch,
LEMMA ServicesIsDispatch == ServicesSpec => DispatchSpec
<1>1. ServicesInit => DispatchInit
  BY DEF ServicesInit
<1>2. [ServicesNext]_servicevars => [DispatchNext]_duvars
  BY DEF ServicesNext, servicevars
<1> QED
  BY <1>1, <1>2, PTL DEF ServicesSpec, DispatchSpec

\* of the saving of chunks,
LEMMA ServicesIsChunks == ServicesSpec => ChunkSpec
<1>1. ServicesInit => ChunkInit
  BY DEF ServicesInit
<1>2. [ServicesNext]_servicevars => [ChunkNext]_chunkvars
  BY DEF ServicesNext, servicevars
<1> QED
  BY <1>1, <1>2, PTL DEF ServicesSpec, ChunkSpec

\* of the register's schema,
LEMMA ServicesIsSchema == ServicesSpec => SchemaSpec
<1>1. ServicesInit => SchemaInit
  BY DEF ServicesInit
<1>2. [ServicesNext]_servicevars => [SchemaNext]_schemavars
  BY DEF ServicesNext, servicevars
<1> QED
  BY <1>1, <1>2, PTL DEF ServicesSpec, SchemaSpec

\* of the plan's phases,
LEMMA ServicesIsPlan == ServicesSpec => PlanSpec
<1>1. ServicesInit => PlanInit
  BY DEF ServicesInit
<1>2. [ServicesNext]_servicevars => [PlanNext]_planvars
  BY DEF ServicesNext, servicevars
<1> QED
  BY <1>1, <1>2, PTL DEF ServicesSpec, PlanSpec

\* of the directive engine,
LEMMA ServicesIsDirective == ServicesSpec => DirectiveSpec
<1>1. ServicesInit => DirectiveInit
  BY DEF ServicesInit
<1>2. [ServicesNext]_servicevars => [DirectiveNext]_dirvars
  BY DEF ServicesNext, servicevars
<1> QED
  BY <1>1, <1>2, PTL DEF ServicesSpec, DirectiveSpec

\* of the backups,
LEMMA ServicesIsBackups == ServicesSpec => BackupsSpec
<1>1. ServicesInit => BackupsInit
  BY DEF ServicesInit
<1>2. [ServicesNext]_servicevars => [BackupsNext]_bakvars
  BY DEF ServicesNext, servicevars
<1> QED
  BY <1>1, <1>2, PTL DEF ServicesSpec, BackupsSpec

\* of the remediation tick,
LEMMA ServicesIsRemedy == ServicesSpec => RemediationSpec
<1>1. ServicesInit => RemediationInit
  BY DEF ServicesInit
<1>2. [ServicesNext]_servicevars => [RemediationNext]_remvars
  BY DEF ServicesNext, servicevars
<1> QED
  BY <1>1, <1>2, PTL DEF ServicesSpec, RemediationSpec

\* of the prompt gateway,
LEMMA ServicesIsPrompt == ServicesSpec => PromptSpec
<1>1. ServicesInit => PromptInit
  BY DEF ServicesInit
<1>2. [ServicesNext]_servicevars => [PromptNext]_promptvars
  BY DEF ServicesNext, servicevars
<1> QED
  BY <1>1, <1>2, PTL DEF ServicesSpec, PromptSpec

\* of the completion gate,
LEMMA ServicesIsCompletion == ServicesSpec => GatekeepSpec
<1>1. ServicesInit => GatekeepInit
  BY DEF ServicesInit
<1>2. [ServicesNext]_servicevars => [GatekeepNext]_gatekeepvars
  BY DEF ServicesNext, servicevars
<1> QED
  BY <1>1, <1>2, PTL DEF ServicesSpec, GatekeepSpec

\* of the watchdog,
LEMMA ServicesIsWatchdog == ServicesSpec => WatchdogSpec
<1>1. ServicesInit => WatchdogInit
  BY DEF ServicesInit
<1>2. [ServicesNext]_servicevars => [WatchdogNext]_dogvars
  BY DEF ServicesNext, servicevars
<1> QED
  BY <1>1, <1>2, PTL DEF ServicesSpec, WatchdogSpec

\* of the health check,
LEMMA ServicesIsHealth == ServicesSpec => HealthSpec
<1>1. ServicesInit => HealthInit
  BY DEF ServicesInit
<1>2. [ServicesNext]_servicevars => [HealthNext]_healthvars
  BY DEF ServicesNext, servicevars
<1> QED
  BY <1>1, <1>2, PTL DEF ServicesSpec, HealthSpec

\* of the certification of a product,
LEMMA ServicesIsGtm == ServicesSpec => GtmSpec
<1>1. ServicesInit => GtmInit
  BY DEF ServicesInit
<1>2. [ServicesNext]_servicevars => [GtmNext]_gtmvars
  BY DEF ServicesNext, servicevars
<1> QED
  BY <1>1, <1>2, PTL DEF ServicesSpec, GtmSpec

\* of the compliance of an OCID,
LEMMA ServicesIsCompliance == ServicesSpec => ComplianceSpec
<1>1. ServicesInit => ComplianceInit
  BY DEF ServicesInit
<1>2. [ServicesNext]_servicevars => [ComplianceNext]_compvars
  BY DEF ServicesNext, servicevars
<1> QED
  BY <1>1, <1>2, PTL DEF ServicesSpec, ComplianceSpec

\* of the owner's report,
LEMMA ServicesIsReport == ServicesSpec => PmReportSpec
<1>1. ServicesInit => PmReportInit
  BY DEF ServicesInit
<1>2. [ServicesNext]_servicevars => [PmReportNext]_reportvars
  BY DEF ServicesNext, servicevars
<1> QED
  BY <1>1, <1>2, PTL DEF ServicesSpec, PmReportSpec

\* of the registry of what is wired to what,
LEMMA ServicesIsWiring == ServicesSpec => WiringSpec
<1>1. ServicesInit => WiringInit
  BY DEF ServicesInit
<1>2. [ServicesNext]_servicevars => [WiringNext]_wirevars
  BY DEF ServicesNext, servicevars
<1> QED
  BY <1>1, <1>2, PTL DEF ServicesSpec, WiringSpec

\* and of the looks back over the rows.
LEMMA ServicesIsBackfill == ServicesSpec => BackfillSpec
<1>1. ServicesInit => BackfillInit
  BY DEF ServicesInit
<1>2. [ServicesNext]_servicevars => [BackfillNext]_backvars
  BY DEF ServicesNext, servicevars
<1> QED
  BY <1>1, <1>2, PTL DEF ServicesSpec, BackfillSpec

\* The governor spawns once per queuing, as a part of the services as well.
THEOREM ServicesSpawnOnce == ServicesSpec => SpawnOncePerQueuing
BY OneSpawnPerQueuing, ServicesIsGovernor, PTL

\* Of one gap there is one live row of the sentinel's, but for those it was cut short on,
\* whatever calls by hand and kills come between.
THEOREM ServicesKeepGaps == ServicesSpec => []OneLivePerGap
BY OneRowPerGap, ServicesIsDispatch, PTL

\* What was said to be kept is kept: chunks that a call called saved, the register's rows
\* through upgrades of its schema, and the copies that verify, of which one prune at a
\* time leaves Keep or all.
THEOREM StoresAreKept ==
    ASSUME NEW P, Pruners = {P}
    PROVE  ServicesSpec => []StoresKept
<1>1. BackupsSpec => []PruneSpares
  BY PruneKeepsEnough
<1> QED
  BY <1>1, SavesKept, UpgradeKeepsRows, ServicesIsChunks, ServicesIsSchema, ServicesIsBackups,
     PTL DEF StoresKept

\* Phases are begun in order, entries are retried once, and a check is run again once for
\* each verdict.
THEOREM WorkBegunInTurn == ServicesSpec => []BegunInTurn
BY PhasesKeepOrder, RetriesOnce, RerunOnce, ServicesIsPlan, ServicesIsDirective,
   ServicesIsRemedy, PTL DEF BegunInTurn

\* Of a message the owner is asked when it is not clear, sees what must be seen, and the
\* window keeps the last message, whatever other calls write meanwhile.
THEOREM ServicesKeepPrompts == ServicesSpec => []PromptKept
BY PromptIsKept, ServicesIsPrompt, PTL

\* A run passes on work of its own, is rejected only when bare, and completes in order.
THEOREM ServicesJudgeRuns == ServicesSpec => []GateJudges
BY GateJudgesRight, ServicesIsCompletion, PTL

\* The watchdog asks only for tasks that ailed, and for a cause after the known fix.
THEOREM ServicesEscalateLast == ServicesSpec => EscalatedLast
BY WatchdogAsksWell, ServicesIsWatchdog, PTL

\* What is listed and reported is what is there, whatever changes between the readings: a
\* report tells the news since the last and no trend the wrong way round, every target of an
\* entity of the registry is in it and all its last run had read is covered, and a row is
\* filled or triaged on evidence.
THEOREM ListingsAreTold == ServicesSpec => []ListingsTold
BY ReportsTell, RegistrySound, RowsAreJudged, ServicesIsReport, ServicesIsWiring,
   ServicesIsBackfill, PTL DEF ListingsTold
\* The record that each service keeps has its type throughout: counters end at their limits,
\* and places, numbers and identities are those that there are.
THEOREM ServicesWellTyped == ServicesSpec => []ServicesTypeOK
<1>1. ServicesSpec => [](scene \in Scenes)
  <2>1. ServicesInit => scene \in Scenes
    BY DEF ServicesInit
  <2>2. scene \in Scenes /\ [ServicesNext]_servicevars => (scene \in Scenes)'
    BY DEF ServicesNext, servicevars
  <2> QED  BY <2>1, <2>2, PTL DEF ServicesSpec
<1>2. ServicesSpec => [](TypeOK /\ DispatchTypeOK /\ ChunkTypeOK /\ SchemaTypeOK /\ PlanTypeOK)
  <2>1. /\ (SentinelInv => DispatchTypeOK) /\ (ChunkInv => ChunkTypeOK)
        /\ (SchemaInv => SchemaTypeOK) /\ (PlanInv => PlanTypeOK)
    BY DEF SentinelInv, ChunkInv, SchemaInv, PlanInv
  <2>2. DispatchSpec => []SentinelInv
    BY SentinelInitially, SentinelStep, PTL DEF DispatchSpec
  <2>3. ChunkSpec => []ChunkInv
    BY ChunkInitially, ChunkStep, PTL DEF ChunkSpec
  <2>4. SchemaSpec => []SchemaInv
    BY SchemaInitially, SchemaStep, PTL DEF SchemaSpec
  <2>5. PlanSpec => []PlanInv
    BY PlanInitially, PlanStep, PTL DEF PlanSpec
  <2> QED
    BY <2>1, <2>2, <2>3, <2>4, <2>5, TypeCorrect, ServicesIsGovernor, ServicesIsDispatch,
       ServicesIsChunks, ServicesIsSchema, ServicesIsPlan, PTL
<1>3. ServicesSpec => [](DirectiveTypeOK /\ BackupsTypeOK /\ RemediationTypeOK /\ PromptTypeOK)
  BY DirectiveTyped, BackupsTyped, RemediationTyped, PromptTyped, ServicesIsDirective,
     ServicesIsBackups, ServicesIsRemedy, ServicesIsPrompt, PTL
<1>4. ServicesSpec => [](GatekeepTypeOK /\ HealthTypeOK /\ WatchdogTypeOK /\ GtmTypeOK)
  BY GatekeepTyped, HealthWellTyped, WatchdogTyped, GtmWellTyped, ServicesIsCompletion,
     ServicesIsHealth, ServicesIsWatchdog, ServicesIsGtm, PTL
<1>5. ServicesSpec => [](ComplianceTypeOK /\ PmReportTypeOK /\ WiringTypeOK /\ BackfillTypeOK)
  BY ComplianceTyped, ReportTyped, WiringTyped, BackfillTyped, ServicesIsCompliance,
     ServicesIsReport, ServicesIsWiring, ServicesIsBackfill, PTL
<1>6. /\ scene \in Scenes
      /\ TypeOK /\ DispatchTypeOK /\ ChunkTypeOK /\ SchemaTypeOK /\ PlanTypeOK
      /\ DirectiveTypeOK /\ BackupsTypeOK /\ RemediationTypeOK /\ PromptTypeOK
      /\ GatekeepTypeOK /\ HealthTypeOK /\ WatchdogTypeOK /\ GtmTypeOK
      /\ ComplianceTypeOK /\ PmReportTypeOK /\ WiringTypeOK /\ BackfillTypeOK
      => ServicesTypeOK
  BY DEF ServicesTypeOK
<1> QED
  BY <1>1, <1>2, <1>3, <1>4, <1>5, <1>6, PTL
=============================================================================
