--------------------------- MODULE WiringRegistry ---------------------------
(***************************************************************************)
(* generate_wiring_registry.py reads what other programs list - engines    *)
(* and gateways, tables, functions, roles, routes, scripts, repositories - *)
(* and the rows of knowledge_engine in superboss-register.sqlite, makes    *)
(* one entity of each thing, and writes them over the live table           *)
(* wiring_registry, which superboss-register.py also fills by single rows. *)
(*                                                                         *)
(* A run reads its sources one after the other and writes at the end,      *)
(* while the lists are made anew, knowledge rows are registered and tagged *)
(* and other runs go on; only the write takes the register's lock.  The    *)
(* JSON file a run also writes is left out: nothing reads it back.         *)
(*                                                                         *)
(* Targets that resolve to nothing are left out, which are all those taken *)
(* from knowledge rows, whose key the generator does not read; so are the  *)
(* verification statuses and the text of an entity.                        *)
(***************************************************************************)
EXTENDS Naturals, Sequences, FiniteSets

CONSTANTS
    Paths,       \* files, and directories, that the lists name
    Inside,      \* per path: the paths it lies in, and itself
    IndexFile,   \* MASTER_INDEX.yaml
    Browser,     \* paths whose base name is one of the browser's components
    Catalogs,    \* what the lists may say
    Hashes,      \* contents of a knowledge row
    Generators,  \* runs of the generator at once
    MaxKnown,    \* bound: knowledge rows
    MaxWirings   \* bound: changes of the lists and the rows, rows registered singly

ASSUME WiringAssumption ==
    /\ IndexFile \in Paths /\ Browser \subseteq Paths
    /\ Inside \in [Paths -> SUBSET Paths] /\ \A p \in Paths : p \in Inside[p]
    /\ {MaxKnown, MaxWirings} \subseteq Nat
    /\ \A c \in Catalogs :
          /\ c.units \in [DOMAIN c.units -> SUBSET Paths]
          /\ \A u \in DOMAIN c.units : u[1] \in {"engine", "gateway"}
          /\ {c.tables.file, c.roles.file} \subseteq SUBSET Paths
          /\ \A f, h \in c.functions : f.file \in Paths /\ (f.name = h.name => f = h)
          /\ \A r, s \in c.routes : {r.from, r.to} \subseteq Paths /\ (r.id = s.id => r = s)
          /\ c.scripts \subseteq Paths
          /\ c.crons \in [DOMAIN c.crons -> SUBSET Paths]
          /\ c.repos \in [DOMAIN c.repos -> SUBSET Paths]
          /\ c.projects \in [DOMAIN c.projects -> SUBSET DOMAIN c.repos]

VARIABLES
    catalog,    \* what the lists say
    known,      \* knowledge_engine's rows, in their order
    wired,      \* wiring_registry: its entities
    generator,  \* per run: where it is, what it has read, its entities so far
    lastRun,    \* history: what the run that wrote last had read; none at first
    wirings     \* bound

wirevars == <<catalog, known, wired, generator, lastRun, wirings>>

Unread == [at |-> "idle", units |-> <<>>, rows |-> <<>>, ents |-> {}]

WiringTypeOK ==
    /\ catalog \in Catalogs
    /\ Len(known) <= MaxKnown
    /\ \A n \in DOMAIN known : known[n] \in [path : Paths, hash : Hashes, tagged : BOOLEAN]
    /\ \A g \in Generators :
          generator[g].at \in {"idle", "governance", "knowledge", "census", "write"}
    /\ \A e, f \in wired : e.id = f.id => e = f
    /\ wirings \in 0 .. MaxWirings

WiringInit ==
    /\ catalog \in Catalogs
    /\ known = <<>> /\ wired = {}
    /\ generator = [g \in Generators |-> Unread]
    /\ lastRun = {} /\ wirings = 0

-----------------------------------------------------------------------------
(* A run's entities *)

Entity(id, path, to, ref) == [id |-> id, path |-> path, to |-> to, refs |-> {ref}]

\* path_to_id: which entity stands for a file
Claims(e, p) == e.id[1] \in {"file", "known", "doc"} /\ p \in e.path
IdOf(ents, p) == (CHOOSE e \in ents : Claims(e, p)).id

\* get_or_create_file, for several paths
Filed(ents, paths, ref) ==
    {IF \E p \in paths : Claims(e, p) THEN [e EXCEPT !.refs = @ \cup {ref}] ELSE e : e \in ents}
    \cup {Entity(<<"file", p>>, {p}, {}, ref) :
             p \in {q \in paths : \A e \in ents : ~Claims(e, q)}}

\* build_engines_and_gateways: each is implemented by its files, and goes with those it
\* shares one with.
EnginesAndGateways(c) ==
    LET ents == Filed({}, UNION {c.units[u] : u \in DOMAIN c.units}, "inventory")
        Sharing(u) == {v \in DOMAIN c.units \ {u} : c.units[u] \cap c.units[v] # {}}
    IN  ents \cup {Entity(u, c.units[u], {IdOf(ents, p) : p \in c.units[u]} \cup Sharing(u),
                          "inventory") : u \in DOMAIN c.units}

\* What one source file defines, if the list says which.
DefinedIn(ents, kind, list, ref) ==
    LET filed == Filed(ents, list.file, ref)
    IN  filed \cup {Entity(<<kind, n>>, {}, {IdOf(filed, p) : p \in list.file}, ref) :
                        n \in list.names}

Tables(c, ents) == DefinedIn(ents, "table", c.tables, "database_catalog")

\* A function implements the engines that its file, or a directory above it, belongs to.
FunctionsOf(c, ents) ==
    LET filed == Filed(ents, {f.file : f \in c.functions}, "function_catalog")
        Engines(f) == {u \in DOMAIN c.units :
                          u[1] = "engine" /\ c.units[u] \cap Inside[f.file] # {}}
    IN  filed \cup {Entity(<<"function", f.name>>, {f.file},
                           {IdOf(filed, f.file)} \cup Engines(f), "function_catalog") :
                        f \in c.functions}

Roles(c, ents) == DefinedIn(ents, "role", c.roles, "ai_roster_catalog")

\* A route goes from file to file through engines and gateways, of which one that is not
\* in the inventory is left out.
Routes(c, ents) ==
    LET filed == Filed(ents, UNION {{r.from, r.to} : r \in c.routes}, "route_registry_schema")
    IN  filed \cup {Entity(<<"route", r.id>>, {r.from, r.to},
                           {IdOf(filed, r.from), IdOf(filed, r.to)} \cup (r.hops \cap DOMAIN c.units),
                           "route_registry_schema") : r \in c.routes}

\* Scripts and the cron jobs whose command names them; neither claims its path.
ScriptsAndCron(c, ents) ==
    ents
    \cup {Entity(<<"script", p>>, {p}, {<<"cron", k>> : k \in {j \in DOMAIN c.crons : p \in c.crons[j]}},
                 "software_catalog") : p \in c.scripts}
    \cup {Entity(<<"cron", k>>, {}, {<<"script", p>> : p \in c.crons[k] \cap c.scripts},
                 "software_catalog") : k \in DOMAIN c.crons}

TaggedPaths(rows) == {rows[n].path : n \in {m \in DOMAIN rows : rows[m].tagged}}

\* build_governance_docs: of the tagged rows of a path that nothing claims, the first.
GovernanceDocs(rows, ents) ==
    ents \cup {Entity(<<"doc", n>>, {rows[n].path}, {}, "governance_tag") :
                   n \in {m \in DOMAIN rows :
                             /\ rows[m].tagged
                             /\ \A e \in ents : ~Claims(e, rows[m].path)
                             /\ \A k \in 1 .. m - 1 : ~(rows[k].tagged /\ rows[k].path = rows[m].path)}}

\* build_from_knowledge_engine: the entity that claims a row's path is told of it, and a
\* path that none claims gets one of its first row.
FromKnowledge(rows, ents) ==
    LET paths == {rows[n].path : n \in DOMAIN rows}
    IN  {IF \E p \in paths : Claims(e, p) THEN [e EXCEPT !.refs = @ \cup {"knowledge_engine"}]
         ELSE e : e \in ents}
        \cup {Entity(<<"known", n>>, {rows[n].path}, {}, "knowledge_engine") :
                  n \in {m \in DOMAIN rows :
                            /\ \A e \in ents : ~Claims(e, rows[m].path)
                            /\ \A k \in 1 .. m - 1 : rows[k].path # rows[m].path}}

\* build_browser_components: the browser's files among those of the engines
BrowserComponents(units, ents) ==
    LET Engines(p) == {u \in DOMAIN units : u[1] = "engine" /\ p \in units[u]}
    IN  ents \cup {Entity(<<"component", p>>, {p}, {IdOf(ents, p)} \cup Engines(p), "inventory") :
                       p \in {q \in Browser : Engines(q) # {}}}

\* build_vercel_and_github: repositories, what they contain and what is deployed from them,
\* if there is a census.
VercelAndGithub(c, ents) ==
    LET filed == Filed(ents, {IndexFile}, "census")
        index == IdOf(filed, IndexFile)
        Contains(r) == {e.id : e \in {f \in filed : /\ f.id[1] \in {"file", "known", "engine", "gateway"}
                                                   /\ f.path \cap c.repos[r] # {}}}
    IN  IF DOMAIN c.repos \cup DOMAIN c.projects = {} THEN ents
        ELSE filed
             \cup {Entity(<<"repo", r>>, {}, {index} \cup Contains(r)
                             \cup {<<"project", p>> : p \in {q \in DOMAIN c.projects : r \in c.projects[q]}},
                          "census") : r \in DOMAIN c.repos}
             \cup {Entity(<<"project", p>>, {}, {index} \cup {<<"repo", r>> : r \in c.projects[p]},
                          "census") : p \in DOMAIN c.projects}

-----------------------------------------------------------------------------
(* A run *)

\* generate, up to the scripts: the lists, read together here; the inventory is kept.
ReadsLists(g) ==
    /\ generator[g].at = "idle"
    /\ generator' = [generator EXCEPT ![g] =
           [at |-> "governance", units |-> catalog.units, rows |-> <<>>,
            ents |-> ScriptsAndCron(catalog, Routes(catalog, Roles(catalog,
                        FunctionsOf(catalog, Tables(catalog, EnginesAndGateways(catalog))))))]]
    /\ UNCHANGED <<catalog, known, wired, lastRun, wirings>>

ReadsGovernance(g) ==
    /\ generator[g].at = "governance"
    /\ generator' = [generator EXCEPT ![g].at = "knowledge",
                                      ![g].ents = GovernanceDocs(known, generator[g].ents)]
    /\ UNCHANGED <<catalog, known, wired, lastRun, wirings>>

\* The rows are read again.
ReadsKnowledge(g) ==
    /\ generator[g].at = "knowledge"
    /\ generator' = [generator EXCEPT ![g].at = "census", ![g].rows = known,
                                      ![g].ents = FromKnowledge(known, generator[g].ents)]
    /\ UNCHANGED <<catalog, known, wired, lastRun, wirings>>

ReadsCensus(g) ==
    /\ generator[g].at = "census"
    /\ generator' = [generator EXCEPT ![g].at = "write",
           ![g].ents = VercelAndGithub(catalog, BrowserComponents(generator[g].units, generator[g].ents))]
    /\ UNCHANGED <<catalog, known, wired, lastRun, wirings>>

\* register_entity_row replaces the row of the same entity_id.
Upserted(ents) == {e \in wired : \A f \in ents : f.id # e.id} \cup ents

\* upsert_live_wiring_registry, one transaction; what the run has no entity of stays.
WritesEntities(g) ==
    /\ generator[g].at = "write"
    /\ wired' = Upserted(generator[g].ents)
    /\ lastRun' = {[units |-> generator[g].units, rows |-> generator[g].rows]}
    /\ generator' = [generator EXCEPT ![g] = Unread]
    /\ UNCHANGED <<catalog, known, wirings>>

GeneratorKilled(g) ==
    /\ generator[g].at # "idle"
    /\ generator' = [generator EXCEPT ![g] = Unread]
    /\ UNCHANGED <<catalog, known, wired, lastRun, wirings>>

-----------------------------------------------------------------------------
(* The others *)

Has(rows, p, h) == \E n \in DOMAIN rows : rows[n].path = p /\ rows[n].hash = h
RowsAt(p) == {n \in DOMAIN known : known[n].path = p}
IsLatest(n, p) == n \in RowsAt(p) /\ \A m \in RowsAt(p) : m <= n

Others == wirings < MaxWirings /\ wirings' = wirings + 1 /\ UNCHANGED generator

\* register_knowledge: a path may have rows of several contents, one of each.
RegisterKnowledge(p, h, tagged) ==
    /\ Others /\ Len(known) < MaxKnown /\ ~Has(known, p, h)
    /\ known' = Append(known, [path |-> p, hash |-> h, tagged |-> tagged])
    /\ UNCHANGED <<catalog, wired, lastRun>>

\* add_tag, on the path's latest row
AddTag(p) ==
    /\ Others
    /\ \E n \in DOMAIN known : IsLatest(n, p) /\ known' = [known EXCEPT ![n].tagged = TRUE]
    /\ UNCHANGED <<catalog, wired, lastRun>>

\* verify_knowledge takes over the file's content, unless an older row has it.
VerifyKnowledge(p, h) ==
    /\ Others /\ ~Has(known, p, h)
    /\ \E n \in DOMAIN known : IsLatest(n, p) /\ known' = [known EXCEPT ![n].hash = h]
    /\ UNCHANGED <<catalog, wired, lastRun>>

\* upsert_knowledge_fragment replaces the content and the tags of the latest row, unless
\* an older one has the content; for a path with no row it does what RegisterKnowledge does.
UpsertFragment(p, h, tagged) ==
    /\ Others
    /\ \E n \in DOMAIN known :
          /\ IsLatest(n, p) /\ \A m \in RowsAt(p) \ {n} : known[m].hash # h
          /\ known' = [known EXCEPT ![n].hash = h, ![n].tagged = tagged]
    /\ UNCHANGED <<catalog, wired, lastRun>>

\* register_entity: any single row, of an entity that is there or not.
RegisterEntity(id) ==
    /\ Others /\ id \in {<<"other", 0>>} \cup {e.id : e \in wired}
    /\ wired' = Upserted({Entity(id, {}, {}, "record_file")})
    /\ lastRun' = {}
    /\ UNCHANGED <<catalog, known>>

\* The lists are made anew by the programs that make them, or edited.
ListsChange ==
    /\ Others /\ catalog' \in Catalogs \ {catalog}
    /\ UNCHANGED <<known, wired, lastRun>>

WiringNext ==
    \/ \E g \in Generators :
          \/ ReadsLists(g) \/ ReadsGovernance(g) \/ ReadsKnowledge(g) \/ ReadsCensus(g)
          \/ WritesEntities(g) \/ GeneratorKilled(g)
    \/ \E p \in Paths :
          \/ AddTag(p)
          \/ \E h \in Hashes :
                \/ VerifyKnowledge(p, h)
                \/ \E tagged \in BOOLEAN : RegisterKnowledge(p, h, tagged) \/ UpsertFragment(p, h, tagged)
    \/ \E id \in {<<"other", 0>>} \cup {e.id : e \in wired} : RegisterEntity(id)
    \/ ListsChange

WiringSpec == WiringInit /\ [][WiringNext]_wirevars

-----------------------------------------------------------------------------
(* Properties *)

\* coverage_delta: every engine has its entity, and every tagged path one that is of the
\* tag or of the knowledge row.
Covered(units, rows) ==
    /\ \A u \in DOMAIN units : u[1] = "engine" => \E e \in wired : e.id = u
    /\ \A p \in TaggedPaths(rows) :
          \E e \in wired : p \in e.path /\ (e.id[1] = "doc" \/ "knowledge_engine" \in e.refs)

\* What the live table says hangs together, however runs overlap each other, the changes
\* of the lists, and rows written singly: every target of an entity is in it; no run makes
\* two entities of one file; and all that the last run to write had read is covered, so
\* that nothing is missing if it has not changed since.
WiringSound ==
    /\ \A e \in wired : e.to \subseteq {f.id : f \in wired}
    /\ \A g \in Generators : \A e, f \in generator[g].ents :
          (\E p \in Paths : Claims(e, p) /\ Claims(f, p)) => e = f
    /\ \A run \in lastRun : Covered(run.units, run.rows)
=============================================================================
