------------------------------ MODULE UmrSchema ------------------------------
(***************************************************************************)
(* superboss-register.py, _ensure_umr_table: the table umr_tasks and its   *)
(* full-text index are brought to the current schema by whichever process  *)
(* reads or writes a row first, while programs started before the upgrade  *)
(* go on inserting.                                                        *)
(*                                                                         *)
(* Python's sqlite3 begins a transaction at an INSERT only, so each CREATE,*)
(* DROP and ALTER before one is committed by itself.  From the copy of the *)
(* rows on, the rebuild of the table is one transaction.  The write lock   *)
(* is held by the rebuild alone.                                           *)
(***************************************************************************)
EXTENDS FiniteSets, Naturals, Sequences

CONSTANTS
    Ensurers,     \* processes that call _ensure_umr_table
    UmrIds,
    AddedCols,    \* the groups of columns added since, in the order of their functions
    MaxKilled     \* bound: calls killed

ASSUME UmrSchemaAssumption ==
    /\ "none" \notin Ensurers
    /\ MaxKilled \in Nat
    /\ AddedCols \in Seq(STRING)
    /\ \A j, k \in DOMAIN AddedCols : AddedCols[j] = AddedCols[k] => j = k
    /\ "utm" \in {AddedCols[k] : k \in DOMAIN AddedCols}

VARIABLES
    status,       \* CHECK clause of umr_tasks: "absent" without the table, "old", "new"
    columns,      \* columns added to umr_tasks
    rebuilt,      \* umr_tasks__migrate: is it there, and with which columns?
    umrRows,      \* umr_tasks: the rows
    search,       \* umr_tasks_fts: its columns ("none" without it), and the rows in it
    triggers,     \* are the triggers there that keep the index up to date?
    txn,          \* who has SQLite's write transaction, and the rows copied in it
    wlock,        \* holder of the write lock, or "none"
    ensure,       \* per process: where its call is, the column it is at, the columns it read
    inserted,     \* history: rows inserted
    killed

umrTable == <<status, columns, umrRows, inserted>>
searchIndex == <<search, triggers>>
schemavars == <<status, columns, rebuilt, umrRows, search, triggers, txn, wlock, ensure,
                inserted, killed>>

Cols == {AddedCols[k] : k \in DOMAIN AddedCols}
NotRebuilt == [there |-> FALSE, columns |-> {}]
NoTxn == [by |-> "none", rows |-> {}]
Outside == [at |-> "outside", col |-> 1, saw |-> {}]

SchemaTypeOK ==
    /\ status \in {"absent", "old", "new"}
    /\ columns \subseteq Cols
    /\ rebuilt \in [there : BOOLEAN, columns : SUBSET Cols]
    /\ search \in [columns : {"none", "narrow", "wide"}, rows : SUBSET UmrIds]
    /\ triggers \in BOOLEAN
    /\ txn \in [by : Ensurers \cup {"none"}, rows : SUBSET UmrIds]
    /\ wlock \in Ensurers \cup {"none"}
    /\ ensure \in [Ensurers -> [at : {"outside", "table", "index", "triggers", "columns", "adding",
                                      "searched", "utm triggers", "utm index", "utm create",
                                      "utm keep", "utm rebuild", "widen", "lock", "rebuild",
                                      "copy", "swap"},
                                col : 1 .. Len(AddedCols), saw : SUBSET Cols]]
    /\ umrRows \subseteq inserted /\ inserted \subseteq UmrIds
    /\ killed \in 0 .. MaxKilled

\* A fresh database, or one of before the upgrade.
SchemaInit ==
    /\ \/ status = "absent" /\ search = [columns |-> "none", rows |-> {}] /\ triggers = FALSE
       \/ status = "old" /\ search = [columns |-> "narrow", rows |-> {}] /\ triggers = TRUE
    /\ columns = {}
    /\ rebuilt = NotRebuilt
    /\ umrRows = {} /\ inserted = {}
    /\ txn = NoTxn
    /\ wlock = "none"
    /\ ensure = [p \in Ensurers |-> Outside]
    /\ killed = 0

At(p, place) == ensure[p].at = place
Steps(p, place) == ensure' = [ensure EXCEPT ![p].at = place]

\* A process that writes waits for whoever has the transaction (busy_timeout, retries).
MayWrite(p) == txn.by \in {"none", p}

\* A statement fails: the call raises, its transaction is rolled back and its lock released.
Leaves(p) ==
    /\ ensure' = [ensure EXCEPT ![p] = Outside]
    /\ txn' = IF txn.by = p THEN NoTxn ELSE txn
    /\ wlock' = IF wlock = p THEN "none" ELSE wlock

-----------------------------------------------------------------------------
(* The base objects *)

UpToDate == status = "new" /\ columns = Cols

\* Without the fast path, every object is created that is not there.
CallsEnsure(p) ==
    /\ At(p, "outside")
    /\ ~UpToDate
    /\ Steps(p, "table")
    /\ UNCHANGED <<umrTable, rebuilt, searchIndex, txn, wlock, killed>>

CreatesTable(p) ==
    /\ At(p, "table") /\ MayWrite(p)
    /\ status' = IF status = "absent" THEN "new" ELSE status
    /\ Steps(p, "index")
    /\ UNCHANGED <<columns, rebuilt, umrRows, searchIndex, txn, wlock, inserted, killed>>

NewIndex(kind) ==
    search' = IF search.columns = "none" THEN [columns |-> kind, rows |-> {}] ELSE search

CreatesIndex(p) ==
    /\ At(p, "index") /\ MayWrite(p)
    /\ NewIndex("narrow")
    /\ Steps(p, "triggers")
    /\ UNCHANGED <<umrTable, rebuilt, triggers, txn, wlock, killed>>

CreatesTriggers(p) ==
    /\ At(p, "triggers") /\ MayWrite(p)
    /\ triggers' = TRUE
    /\ Steps(p, "columns")
    /\ UNCHANGED <<umrTable, rebuilt, search, txn, wlock, killed>>

-----------------------------------------------------------------------------
(* The added columns *)

NextColumn(p) ==
    \/ /\ ensure[p].col < Len(AddedCols)
       /\ ensure' = [ensure EXCEPT ![p].at = "columns", ![p].col = @ + 1]
    \/ ensure[p].col = Len(AddedCols) /\ Steps(p, "widen")

\* Once the utm columns are there, their function looks at the index too.
AfterColumn(p) ==
    IF AddedCols[ensure[p].col] = "utm" THEN Steps(p, "searched") ELSE NextColumn(p)

LooksForColumn(p) ==
    /\ At(p, "columns")
    /\ IF AddedCols[ensure[p].col] \in columns THEN AfterColumn(p) ELSE Steps(p, "adding")
    /\ UNCHANGED <<umrTable, rebuilt, searchIndex, txn, wlock, killed>>

\* ALTER TABLE fails on a column another process has added since.
AddsColumn(p) ==
    /\ At(p, "adding") /\ MayWrite(p)
    /\ LET column == AddedCols[ensure[p].col] IN
         \/ column \in columns /\ Leaves(p) /\ UNCHANGED columns
         \/ column \notin columns /\ columns' = columns \cup {column} /\ AfterColumn(p)
            /\ UNCHANGED <<txn, wlock>>
    /\ UNCHANGED <<status, rebuilt, umrRows, searchIndex, inserted, killed>>

\* An index without the utm columns is dropped, created anew and filled.
LooksAtIndex(p) ==
    /\ At(p, "searched")
    /\ IF search.columns = "narrow" THEN Steps(p, "utm triggers") ELSE NextColumn(p)
    /\ UNCHANGED <<umrTable, rebuilt, searchIndex, txn, wlock, killed>>

DropsTriggers(p) ==
    /\ At(p, "utm triggers") /\ MayWrite(p)
    /\ triggers' = FALSE
    /\ Steps(p, "utm index")
    /\ UNCHANGED <<umrTable, rebuilt, search, txn, wlock, killed>>

DropsIndex(p) ==
    /\ At(p, "utm index") /\ MayWrite(p)
    /\ search' = [columns |-> "none", rows |-> {}]
    /\ Steps(p, "utm create")
    /\ UNCHANGED <<umrTable, rebuilt, triggers, txn, wlock, killed>>

CreatesUtmIndex(p) ==
    /\ At(p, "utm create") /\ MayWrite(p)
    /\ NewIndex("wide")
    /\ Steps(p, "utm keep")
    /\ UNCHANGED <<umrTable, rebuilt, triggers, txn, wlock, killed>>

KeepsUtmIndex(p) ==
    /\ At(p, "utm keep") /\ MayWrite(p)
    /\ triggers' = TRUE
    /\ Steps(p, "utm rebuild")
    /\ UNCHANGED <<umrTable, rebuilt, search, txn, wlock, killed>>

\* The index is filled from the table, unless somebody dropped it meanwhile.
FillsUtmIndex(p) ==
    /\ At(p, "utm rebuild") /\ MayWrite(p)
    /\ \/ search.columns = "none" /\ Leaves(p) /\ UNCHANGED search
       \/ search.columns # "none" /\ search' = [search EXCEPT !.rows = umrRows] /\ NextColumn(p)
          /\ UNCHANGED <<txn, wlock>>
    /\ UNCHANGED <<umrTable, rebuilt, triggers, killed>>

-----------------------------------------------------------------------------
(* _migrate_umr_tasks_status_widen *)

\* The stored CREATE TABLE is read before the lock is asked for.
ReadsStatus(p) ==
    /\ At(p, "widen")
    /\ IF status = "new" THEN ensure' = [ensure EXCEPT ![p] = Outside]
       ELSE ensure' = [ensure EXCEPT ![p].at = "lock", ![p].saw = columns]
    /\ UNCHANGED <<umrTable, rebuilt, searchIndex, txn, wlock, killed>>

TakesLock(p) ==
    /\ At(p, "lock") /\ wlock = "none"
    /\ \/ status = "new" /\ ensure' = [ensure EXCEPT ![p] = Outside] /\ UNCHANGED wlock
       \/ status = "old" /\ wlock' = p /\ Steps(p, "rebuild")
    /\ UNCHANGED <<umrTable, rebuilt, searchIndex, txn, killed>>

\* The triggers and the index are dropped, and the new table is created with the columns
\* read before; a table left by a killed call is in the way.
CreatesRebuilt(p) ==
    /\ At(p, "rebuild") /\ MayWrite(p)
    /\ triggers' = FALSE
    /\ search' = [columns |-> "none", rows |-> {}]
    /\ \/ rebuilt.there /\ Leaves(p) /\ UNCHANGED rebuilt
       \/ ~rebuilt.there /\ rebuilt' = [there |-> TRUE, columns |-> ensure[p].saw]
          /\ Steps(p, "copy") /\ UNCHANGED <<txn, wlock>>
    /\ UNCHANGED <<umrTable, killed>>

\* Mutant of Copies: the copy is committed by itself.
CopiesAndCommits(p) ==
    /\ At(p, "copy") /\ txn.by = "none"
    /\ txn' = [by |-> "none", rows |-> umrRows]
    /\ Steps(p, "swap")
    /\ UNCHANGED <<umrTable, rebuilt, searchIndex, wlock, killed>>

\* The rows are copied column by column: one the new table does not have fails it.
Copies(p) ==
    /\ At(p, "copy") /\ txn.by = "none"
    /\ \/ ~(columns \subseteq rebuilt.columns) /\ Leaves(p)
       \/ columns \subseteq rebuilt.columns /\ txn' = [by |-> p, rows |-> umrRows] /\ Steps(p, "swap")
          /\ UNCHANGED wlock
    /\ UNCHANGED <<umrTable, rebuilt, searchIndex, killed>>

\* The old table is dropped, the new one renamed, the index created and filled: committed.
Swaps(p) ==
    /\ At(p, "swap") /\ MayWrite(p)
    /\ status' = "new"
    /\ umrRows' = txn.rows
    /\ columns' = rebuilt.columns
    /\ rebuilt' = NotRebuilt
    /\ search' = [columns |-> IF search.columns = "none" THEN "narrow" ELSE search.columns,
                  rows |-> txn.rows]
    /\ triggers' = TRUE
    /\ Leaves(p)
    /\ UNCHANGED <<inserted, killed>>

-----------------------------------------------------------------------------
(* Kills, and the programs of before *)

EnsureKilled(p) ==
    /\ killed < MaxKilled
    /\ ~At(p, "outside")
    /\ Leaves(p)
    /\ killed' = killed + 1
    /\ UNCHANGED <<umrTable, rebuilt, searchIndex>>

\* A row is inserted, and by the triggers into the index, without which they fail.
Inserts(r) ==
    /\ r \notin inserted
    /\ txn.by = "none"
    /\ status # "absent"
    /\ triggers => search.columns # "none"
    /\ umrRows' = umrRows \cup {r}
    /\ inserted' = inserted \cup {r}
    /\ search' = IF triggers THEN [search EXCEPT !.rows = @ \cup {r}] ELSE search
    /\ UNCHANGED <<status, columns, rebuilt, triggers, txn, wlock, ensure, killed>>

SchemaNext ==
    \/ \E p \in Ensurers :
          \/ CallsEnsure(p) \/ CreatesTable(p) \/ CreatesIndex(p) \/ CreatesTriggers(p)
          \/ LooksForColumn(p) \/ AddsColumn(p) \/ LooksAtIndex(p)
          \/ DropsTriggers(p) \/ DropsIndex(p) \/ CreatesUtmIndex(p) \/ KeepsUtmIndex(p)
          \/ FillsUtmIndex(p)
          \/ ReadsStatus(p) \/ TakesLock(p) \/ CreatesRebuilt(p) \/ Copies(p) \/ Swaps(p)
          \/ EnsureKilled(p)
    \/ \E r \in UmrIds : Inserts(r)

SchemaSpec == SchemaInit /\ [][SchemaNext]_schemavars

-----------------------------------------------------------------------------
(* Properties *)

\* Whoever upgrades and whoever inserts meanwhile, no row and no column that was added is
\* lost by the rebuild, not by a killed one either; and once no call is at work, none of
\* them having been killed, the index holds every row.
RowsKeptAndFound ==
    /\ umrRows = inserted
    /\ status = "new" /\ (\A p \in Ensurers : At(p, "outside")) /\ killed = 0 =>
          search.rows = umrRows /\ columns = Cols
=============================================================================
