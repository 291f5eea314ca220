---------------------------- MODULE OfficeProofs ----------------------------
(***************************************************************************)
(* What the components of MCOffice keep, for every value of their          *)
(* constants: how much work the queues and the channels let through, for   *)
(* every number of items, tasks, reports, agents and slots; and what the   *)
(* records of tasks, OCIDs, plans and reviews keep.                        *)
(***************************************************************************)
EXTENDS MCOffice, FiniteSetTheorems, TLAPS

-----------------------------------------------------------------------------
(* QueueTick *)

\* What the queue files and the tasks may hold.
ItemState == [status : ItemStatuses, id : Nat, retries : Nat]
ATask == [of : Items \cup {"nothing"}, status : TaskStatuses]

QueuesTyped ==
    /\ queue \in [Items -> ItemState]
    /\ copy \in [Items -> ItemState]
    /\ tick \in [pc : {"idle", "gap", "gap items", "module", "module items"}, left : SUBSET Items]
    /\ seen \in [Created -> TaskStatuses]
    /\ task \in [Created -> ATask]
    /\ tickKills \in Nat

\* The tick has the file of i in memory.
Busy(i) == tick.pc = (IF i \in GapItems THEN "gap items" ELSE "module items")

\* The tasks created for i.
CreatedFor(i) == {n \in Created : task[n].of = i}

\* What an item's record allows: an attempt for each retry, and the one it is in.
Allows(it) == it.retries + (IF it.status \in {"queued", "needs_retry", "NEW"} THEN 0 ELSE 1)

\* Retries end at the limit, and the item with them.
RetriesTyped(it) ==
    /\ it.retries <= MaxRetries
    /\ it.status = "stuck_needs_human" <=> it.retries = MaxRetries

\* The tasks of an item are those its record allows, and one more for a tick that was killed or
\* that has not yet saved.
AttemptsAllowed ==
    \A i \in Items :
        /\ RetriesTyped(queue[i])
        /\ Cardinality(CreatedFor(i)) <= Allows(queue[i]) + tickKills + 1
        /\ ~Busy(i) \/ i \in tick.left => Cardinality(CreatedFor(i)) <= Allows(queue[i]) + tickKills
        /\ Busy(i) => /\ RetriesTyped(copy[i])
                      /\ Cardinality(CreatedFor(i)) <= Allows(copy[i]) + tickKills

\* What a loop has left to dispatch is in its file, and still to be begun.
Candidates ==
    /\ tick.left # {} => tick.pc \in {"gap items", "module items"}
    /\ \A i \in tick.left : /\ Busy(i)
                            /\ copy[i].status \in {"queued", "needs_retry", "NEW"}

\* A task of i is completed.
Done(i) == \E k \in Created : task[k].of = i /\ task[k].status = "completed"

\* An item's record is about a task of its own, and what is merged was completed.
RecordTrue(i, it) ==
    /\ it.id # 0 => it.id \in Created /\ task[it.id].of = i
    /\ i \in ModuleItems /\ it.status = "MERGED" => Done(i)

\* What the record says is done is done, and was when the tick read it.
DepsDone ==
    /\ \A i \in Items : RecordTrue(i, queue[i]) /\ (Busy(i) => RecordTrue(i, copy[i]))
    /\ \A n \in Created : /\ seen[n] = "completed" => task[n].status = "completed"
                          /\ task[n].of = "nothing" => task[n].status = "none"
    /\ \A i \in tick.left \cap ModuleItems : \A d \in Deps[i] : Done(d)
    /\ DependenciesFirst

\* A task is created from the record in memory and that is saved later: so the tasks there are
\* must be tied to both, and candidates to what they were chosen on.
QueueInv == QueuesTyped /\ AttemptsAllowed /\ Candidates /\ DepsDone

\* The two queues have no item in common, and modules depend on modules.
LEMMA QueueConstants ==
    /\ MaxRetries \in Nat /\ MaxRetries >= 1 /\ MaxCreated \in Nat
    /\ GapItems \cap ModuleItems = {} /\ "nothing" \notin Items
    /\ Deps \in [ModuleItems -> SUBSET ModuleItems]
BY QueueAssumption DEF Items

\* The tasks of an item can be counted.
LEMMA CreatedCount == \A i : IsFiniteSet(CreatedFor(i)) /\ Cardinality(CreatedFor(i)) \in Nat
<1>1. IsFiniteSet(Created)
  BY QueueConstants, FS_Interval DEF Created
<1>2. \A i : CreatedFor(i) \subseteq Created
  BY DEF CreatedFor
<1> QED
  BY <1>1, <1>2, FS_Subset, FS_CardinalityType

\* A new item had no attempt.
LEMMA NewItems ==
    /\ NewQueue \in [Items -> ItemState]
    /\ \A i \in Items : /\ NewQueue[i].id = 0 /\ NewQueue[i].retries = 0
                        /\ NewQueue[i].status \in {"queued", "NEW"}
    /\ NothingSeen \in [Created -> TaskStatuses]
    /\ \A n \in Created : NothingSeen[n] = "none"
BY DEF NewQueue, ItemState, ItemStatuses, NothingSeen, TaskStatuses

\* What a synced record is: the attempt that ended blocked is a retry more.
LEMMA GapSync ==
  ASSUME NEW it \in ItemState, RetriesTyped(it)
  PROVE  /\ GapSynced(it) \in ItemState /\ RetriesTyped(GapSynced(it))
         /\ GapSynced(it).id = it.id
         /\ Allows(it) <= Allows(GapSynced(it))
         /\ GapSynced(it).status = it.status \/ GapSynced(it).status # "MERGED"
<1> DEFINE r == it.retries + 1
           s == IF r >= MaxRetries THEN "stuck_needs_human" ELSE "needs_retry"
<1>1. it.retries \in Nat /\ r \in Nat /\ s \in ItemStatuses /\ it.status \in ItemStatuses
  BY DEF ItemState, ItemStatuses
<1>2. CASE it.status = "dispatched" /\ StatusOf(it) = "blocked"
  <2>1. GapSynced(it) = [it EXCEPT !.retries = r, !.status = s]
    BY <1>2 DEF GapSynced
  <2> HIDE DEF s
  <2>2. /\ GapSynced(it) \in ItemState /\ GapSynced(it).id = it.id
        /\ GapSynced(it).retries = r /\ GapSynced(it).status = s
    BY <1>1, <2>1 DEF ItemState
  <2>3. r <= MaxRetries
    BY <1>1, <1>2, QueueConstants DEF RetriesTyped
  <2>4. s = (IF r = MaxRetries THEN "stuck_needs_human" ELSE "needs_retry")
    BY <1>1, <2>3, QueueConstants DEF s
  <2> QED
    BY <1>1, <1>2, <2>2, <2>3, <2>4 DEF RetriesTyped, Allows
<1>3. CASE ~(it.status = "dispatched" /\ StatusOf(it) = "blocked")
  <2>1. CASE GapSynced(it) = it
    BY <1>1, <2>1 DEF Allows
  <2>2. CASE GapSynced(it) # it
    <3>1. PICK x \in {"completed", "awaiting_human_approval"} :
                it.status = "dispatched" /\ GapSynced(it) = [it EXCEPT !.status = x]
      <4>1. it.status = "dispatched"
        BY <2>2 DEF GapSynced
      <4>2. CASE StatusOf(it) = "completed"
        <5>1. GapSynced(it) = [it EXCEPT !.status = "completed"]
          BY <4>1, <4>2 DEF GapSynced
        <5> QED
          BY <4>1, <5>1
      <4>3. CASE StatusOf(it) = "awaiting_human_approval"
        <5>1. GapSynced(it) = [it EXCEPT !.status = "awaiting_human_approval"]
          BY <4>1, <4>3 DEF GapSynced
        <5> QED
          BY <4>1, <5>1
      <4>4. CASE StatusOf(it) \notin {"completed", "awaiting_human_approval"}
        BY <1>3, <2>2, <4>1, <4>4 DEF GapSynced
      <4> QED
        BY <4>2, <4>3, <4>4
    <3>2. /\ GapSynced(it) \in ItemState /\ GapSynced(it).id = it.id
          /\ GapSynced(it).retries = it.retries /\ GapSynced(it).status = x
      BY <3>1 DEF ItemState, ItemStatuses
    <3>3. it.retries # MaxRetries /\ RetriesTyped(GapSynced(it))
      BY <3>1, <3>2 DEF RetriesTyped
    <3>4. Allows(it) = it.retries + 1 /\ Allows(GapSynced(it)) = it.retries + 1
      BY <3>1, <3>2 DEF Allows
    <3> QED
      BY <1>1, <3>1, <3>2, <3>3, <3>4
  <2> QED
    BY <2>1, <2>2
<1> QED
  BY <1>2, <1>3

\* sync_module_statuses counts no retry, and calls merged what it saw completed.
LEMMA ModuleSync ==
  ASSUME NEW it \in ItemState, RetriesTyped(it)
  PROVE  /\ ModuleSynced(it) \in ItemState /\ RetriesTyped(ModuleSynced(it))
         /\ ModuleSynced(it).id = it.id
         /\ Allows(it) <= Allows(ModuleSynced(it))
         /\ \/ ModuleSynced(it).status = it.status
            \/ ModuleSynced(it).status # "MERGED"
            \/ StatusOf(it) = "completed"
<1>1. it.retries \in Nat /\ it.status \in ItemStatuses
  BY DEF ItemState
<1>2. CASE ModuleSynced(it) = it
  BY <1>1, <1>2 DEF Allows
<1>3. CASE ModuleSynced(it) # it
  <2>1. PICK x \in {"MERGED", "REWORK", "REVIEW"} :
              /\ it.status = "RUNNING" /\ ModuleSynced(it) = [it EXCEPT !.status = x]
              /\ x = "MERGED" => StatusOf(it) = "completed"
    <3>1. it.status = "RUNNING"
      BY <1>3 DEF ModuleSynced
    <3>2. CASE StatusOf(it) = "completed"
      <4>1. ModuleSynced(it) = [it EXCEPT !.status = "MERGED"]
        BY <3>1, <3>2 DEF ModuleSynced
      <4> QED
        BY <3>1, <3>2, <4>1
    <3>3. CASE StatusOf(it) = "blocked"
      <4>1. ModuleSynced(it) = [it EXCEPT !.status = "REWORK"]
        BY <3>1, <3>3 DEF ModuleSynced
      <4> QED
        BY <3>1, <4>1
    <3>4. CASE StatusOf(it) = "awaiting_human_approval"
      <4>1. ModuleSynced(it) = [it EXCEPT !.status = "REVIEW"]
        BY <3>1, <3>4 DEF ModuleSynced
      <4> QED
        BY <3>1, <4>1
    <3>5. CASE StatusOf(it) \notin {"completed", "blocked", "awaiting_human_approval"}
      BY <1>3, <3>1, <3>5 DEF ModuleSynced
    <3> QED
      BY <3>2, <3>3, <3>4, <3>5
  <2>2. /\ ModuleSynced(it) \in ItemState /\ ModuleSynced(it).id = it.id
        /\ ModuleSynced(it).retries = it.retries /\ ModuleSynced(it).status = x
    BY <2>1 DEF ItemState, ItemStatuses
  <2>3. it.retries # MaxRetries /\ RetriesTyped(ModuleSynced(it))
    BY <2>1, <2>2 DEF RetriesTyped
  <2>4. Allows(it) = it.retries + 1 /\ Allows(ModuleSynced(it)) = it.retries + 1
    BY <2>1, <2>2 DEF Allows
  <2> QED
    BY <1>1, <2>1, <2>2, <2>3, <2>4
<1> QED
  BY <1>2, <1>3

\* The initial states satisfy the invariant.
LEMMA QueueInitially == QueueInit => QueueInv
<1> SUFFICES ASSUME QueueInit PROVE QueueInv
  OBVIOUS
<1> USE QueueConstants, NewItems
<1>1. /\ queue = NewQueue /\ copy = NewQueue /\ seen = NothingSeen /\ tickKills = 0
      /\ tick = [pc |-> "idle", left |-> {}]
      /\ task = [n \in Created |-> [of |-> "nothing", status |-> "none"]]
  BY DEF QueueInit
<1>2. QueuesTyped
  BY <1>1 DEF QueuesTyped, ATask, TaskStatuses
<1>3. \A i \in Items : CreatedFor(i) = {}
  BY <1>1 DEF CreatedFor
<1>4. \A i \in Items : Cardinality(CreatedFor(i)) = 0
  BY <1>3, FS_EmptySet
<1>5. \A i \in Items : ~Busy(i)
  BY <1>1 DEF Busy
<1>6. AttemptsAllowed
  <2> SUFFICES ASSUME NEW i \in Items
               PROVE  /\ RetriesTyped(queue[i])
                      /\ Cardinality(CreatedFor(i)) <= Allows(queue[i]) + tickKills
                      /\ Cardinality(CreatedFor(i)) <= Allows(queue[i]) + tickKills + 1
    BY <1>5 DEF AttemptsAllowed
  <2>1. Allows(queue[i]) = 0 /\ RetriesTyped(queue[i])
    BY <1>1 DEF Allows, RetriesTyped
  <2> QED
    BY <1>1, <1>4, <2>1
<1>7. Candidates
  BY <1>1 DEF Candidates
<1>8. DepsDone
  <2>1. DependenciesFirst
    BY <1>1 DEF DependenciesFirst, Items
  <2>2. \A i \in Items : RecordTrue(i, queue[i])
    BY <1>1 DEF RecordTrue
  <2> QED
    BY <1>1, <1>5, <2>1, <2>2 DEF DepsDone
<1> QED
  BY <1>2, <1>6, <1>7, <1>8 DEF QueueInv

\* While no task is created or moved.
LEMMA TasksStill ==
  ASSUME UNCHANGED task
  PROVE  /\ \A i : CreatedFor(i)' = CreatedFor(i)
         /\ \A i : Done(i)' = Done(i)
         /\ DependenciesFirst' = DependenciesFirst
<1> QED
  BY DEF CreatedFor, Done, DependenciesFirst

\* What a record allows is a number.
LEMMA AllowsNat == \A it \in ItemState : Allows(it) \in Nat
<1> SUFFICES ASSUME NEW it \in ItemState PROVE Allows(it) \in Nat
  OBVIOUS
<1>1. it.retries \in Nat
  BY DEF ItemState
<1> QED
  BY <1>1 DEF Allows

LEMMA AllowancesAreNumbers ==
  ASSUME QueuesTyped, NEW i \in Items
  PROVE  /\ Allows(queue[i]) \in Nat /\ Allows(copy[i]) \in Nat
         /\ tickKills \in Nat /\ Cardinality(CreatedFor(i)) \in Nat
BY AllowsNat, CreatedCount DEF QueuesTyped

\* A killed tick allows one task more.
LEMMA AnotherKill ==
  ASSUME NEW a \in Nat, NEW b \in Nat, NEW k \in Nat, a <= b + k + 1
  PROVE  a <= b + (k + 1) /\ a <= b + (k + 1) + 1
OBVIOUS

\* Outside of the two loops over candidates an item is bound by its record in the file.
LEMMA NotInALoop ==
  ASSUME QueueInv, tick.pc \notin {"gap items", "module items"}
  PROVE  \A i \in Items : ~Busy(i) /\ Cardinality(CreatedFor(i)) <= Allows(queue[i]) + tickKills
<1>1. \A i \in Items : ~Busy(i)
  BY DEF Busy
<1> QED
  BY <1>1 DEF QueueInv, AttemptsAllowed

\* The steps that end with the tick in no loop and the files as they were.
LEMMA OutOfLoops ==
  ASSUME QueueInv, QueuesTyped', tick'.pc \notin {"gap items", "module items"}, tick'.left = {},
         UNCHANGED <<queue, task>>, tickKills' \in {tickKills, tickKills + 1},
         tickKills' = tickKills => tick.pc \notin {"gap items", "module items"},
         \A n \in Created : seen'[n] = "completed" => task[n].status = "completed"
  PROVE  QueueInv'
<1>1. \A i \in Items : ~Busy(i)'
  BY DEF Busy
<1>2. AttemptsAllowed'
  <2> SUFFICES ASSUME NEW i \in Items
               PROVE  /\ RetriesTyped(queue[i])
                      /\ Cardinality(CreatedFor(i)) <= Allows(queue[i]) + tickKills'
                      /\ Cardinality(CreatedFor(i)) <= Allows(queue[i]) + tickKills' + 1
    BY <1>1, TasksStill DEF AttemptsAllowed, RetriesTyped, Allows
  <2>1. RetriesTyped(queue[i]) /\ Cardinality(CreatedFor(i)) <= Allows(queue[i]) + tickKills + 1
    BY DEF QueueInv, AttemptsAllowed
  <2>2. Allows(queue[i]) \in Nat /\ tickKills \in Nat /\ Cardinality(CreatedFor(i)) \in Nat
    BY AllowancesAreNumbers DEF QueueInv
  <2>3. tickKills' = tickKills => Cardinality(CreatedFor(i)) <= Allows(queue[i]) + tickKills
    BY NotInALoop
  <2>4. CASE tickKills' = tickKills
    BY <2>1, <2>3, <2>4
  <2>5. CASE tickKills' = tickKills + 1
    BY <2>1, <2>2, <2>5, AnotherKill
  <2> QED
    BY <2>4, <2>5
<1>3. Candidates'
  BY DEF Candidates
<1>4. DepsDone'
  BY <1>1, TasksStill DEF QueueInv, DepsDone, RecordTrue
<1> QED
  BY <1>2, <1>3, <1>4 DEF QueueInv

\* The read of the task files at the start of a tick keeps the invariant.
LEMMA TickBeginsKeeps == QueueInv /\ TickBegins => QueueInv'
<1> SUFFICES ASSUME QueueInv, TickBegins PROVE QueueInv'
  OBVIOUS
<1>1. /\ tick' = [pc |-> "gap", left |-> {}] /\ UNCHANGED <<queue, copy, task, tickKills>>
      /\ tick.pc = "idle"
  BY DEF TickBegins, Goto
<1>2. \A n \in Created : task[n].status \in TaskStatuses
  BY DEF QueueInv, QueuesTyped, ATask
<1>3. /\ seen' \in [Created -> TaskStatuses]
      /\ \A n \in Created : seen'[n] = "completed" => task[n].status = "completed"
  BY <1>2 DEF TickBegins, TaskStatuses
<1>4. QueuesTyped'
  BY <1>1, <1>3 DEF QueueInv, QueuesTyped
<1> QED
  BY <1>1, <1>3, <1>4, OutOfLoops

\* A tick that finds the gap queue paused keeps it.
LEMMA GapPausedKeeps == QueueInv /\ GapPaused => QueueInv'
<1> SUFFICES ASSUME QueueInv, GapPaused PROVE QueueInv'
  OBVIOUS
<1>1. /\ tick' = [pc |-> "module", left |-> {}] /\ UNCHANGED <<queue, copy, seen, task, tickKills>>
      /\ tick.pc = "gap"
  BY DEF GapPaused, Goto
<1>2. QueuesTyped'
  BY <1>1 DEF QueueInv, QueuesTyped
<1>3. \A n \in Created : seen'[n] = "completed" => task[n].status = "completed"
  BY <1>1 DEF QueueInv, DepsDone
<1> QED
  BY <1>1, <1>2, <1>3, OutOfLoops

\* A tick that is killed, with what it had in memory, keeps it.
LEMMA TickKilledKeeps == QueueInv /\ TickKilled => QueueInv'
<1> SUFFICES ASSUME QueueInv, TickKilled PROVE QueueInv'
  OBVIOUS
<1>1. /\ tick' = [pc |-> "idle", left |-> {}] /\ UNCHANGED <<queue, task>>
      /\ tickKills' = tickKills + 1 /\ copy' = NewQueue /\ seen' = NothingSeen
  BY DEF TickKilled, TickGone, Goto
<1>2. tickKills' \in Nat /\ tickKills' # tickKills
  <2>1. tickKills \in Nat
    BY DEF QueueInv, QueuesTyped
  <2> QED
    BY <1>1, <2>1
<1>3. QueuesTyped'
  BY <1>1, <1>2, NewItems DEF QueueInv, QueuesTyped
<1>4. \A n \in Created : seen'[n] = "completed" => task[n].status = "completed"
  BY <1>1, NewItems
<1> QED
  BY <1>1, <1>2, <1>3, <1>4, OutOfLoops

\* The read and the sync of gap_queue.yaml keep it.
LEMMA GapLoadsKeeps == QueueInv /\ GapLoads => QueueInv'
<1> SUFFICES ASSUME QueueInv, GapLoads PROVE QueueInv'
  OBVIOUS
<1> DEFINE items == [i \in Items |-> IF i \in GapItems THEN GapSynced(queue[i]) ELSE queue[i]]
           new == {i \in GapItems : items[i].status \in {"queued", "needs_retry"}}
<1>1. /\ copy' = items /\ tick' = [pc |-> "gap items", left |-> new] /\ tick.pc = "gap"
      /\ UNCHANGED <<queue, seen, task, tickKills>>
  BY DEF GapLoads, Goto
<1>2. \A i \in Items : queue[i] \in ItemState /\ RetriesTyped(queue[i])
  BY DEF QueueInv, QueuesTyped, AttemptsAllowed
<1>3. \A i \in Items : Busy(i)' <=> i \in GapItems
  BY <1>1 DEF Busy
<1>4. \A i \in GapItems : i \in Items /\ copy'[i] = GapSynced(queue[i])
  BY <1>1 DEF Items
<1>5. items \in [Items -> ItemState] /\ new \subseteq GapItems /\ new \subseteq Items
  BY <1>2, GapSync DEF Items
<1>6. \A i \in new : copy'[i].status \in {"queued", "needs_retry"}
  BY <1>1
<1> HIDE DEF items, new
<1>7. QueuesTyped'
  BY <1>1, <1>5 DEF QueueInv, QueuesTyped
<1>8. AttemptsAllowed'
  <2> SUFFICES ASSUME NEW i \in Items
               PROVE  /\ RetriesTyped(queue[i])
                      /\ Cardinality(CreatedFor(i)) <= Allows(queue[i]) + tickKills
                      /\ Cardinality(CreatedFor(i)) <= Allows(queue[i]) + tickKills + 1
                      /\ i \in GapItems => /\ RetriesTyped(copy'[i])
                                           /\ Cardinality(CreatedFor(i)) <= Allows(copy'[i]) + tickKills
    BY <1>1, <1>3, TasksStill DEF AttemptsAllowed, RetriesTyped, Allows
  <2>1. Cardinality(CreatedFor(i)) <= Allows(queue[i]) + tickKills /\ RetriesTyped(queue[i])
    BY <1>1, NotInALoop, <1>2
  <2>2. Allows(queue[i]) \in Nat /\ tickKills \in Nat /\ Cardinality(CreatedFor(i)) \in Nat
    BY AllowancesAreNumbers DEF QueueInv
  <2>3. CASE i \in GapItems
    <3>1. copy'[i] \in ItemState /\ RetriesTyped(copy'[i]) /\ Allows(queue[i]) <= Allows(copy'[i])
      BY <1>2, <1>4, <2>3, GapSync
    <3>2. Allows(copy'[i]) \in Nat
      BY <3>1 DEF ItemState, Allows
    <3> QED
      BY <2>1, <2>2, <3>1, <3>2
  <2> QED
    BY <2>1, <2>2, <2>3
<1>9. Candidates'
  BY <1>1, <1>3, <1>5, <1>6 DEF Candidates
<1>10. DepsDone'
  <2>1. \A i \in GapItems : i \notin ModuleItems
    BY QueueConstants
  <2>2. \A i \in GapItems : RecordTrue(i, queue[i]) => RecordTrue(i, copy'[i])
    BY <1>2, <1>4, <2>1, GapSync DEF RecordTrue
  <2> QED
    BY <1>1, <1>3, <1>4, <1>5, <2>1, <2>2, TasksStill DEF QueueInv, DepsDone, RecordTrue
<1> QED
  BY <1>7, <1>8, <1>9, <1>10 DEF QueueInv

\* The read and the sync of the module queues keep it.
LEMMA ModuleLoadsKeeps == QueueInv /\ ModuleLoads => QueueInv'
<1> SUFFICES ASSUME QueueInv, ModuleLoads PROVE QueueInv'
  OBVIOUS
<1> DEFINE items == [i \in Items |-> IF i \in ModuleItems THEN ModuleSynced(queue[i]) ELSE queue[i]]
           new == {i \in ModuleItems : items[i].status = "NEW" /\ DependencyMet(i, items)}
<1>1. /\ copy' = items /\ tick' = [pc |-> "module items", left |-> new] /\ tick.pc = "module"
      /\ seen' = NothingSeen /\ UNCHANGED <<queue, task, tickKills>>
  BY DEF ModuleLoads, Goto
<1>2. \A i \in Items : queue[i] \in ItemState /\ RetriesTyped(queue[i])
  BY DEF QueueInv, QueuesTyped, AttemptsAllowed
<1>3. \A i \in Items : Busy(i)' <=> i \in ModuleItems
  BY <1>1, QueueConstants DEF Busy, Items
<1>4. \A i \in ModuleItems : i \in Items /\ copy'[i] = ModuleSynced(queue[i])
  BY <1>1 DEF Items
<1>5. items \in [Items -> ItemState] /\ new \subseteq ModuleItems /\ new \subseteq Items
  BY <1>2, ModuleSync DEF Items
<1>6. \A i \in new : copy'[i].status = "NEW" /\ \A d \in Deps[i] : copy'[d].status = "MERGED"
  BY <1>1 DEF DependencyMet
<1> HIDE DEF items, new
<1>7. QueuesTyped'
  BY <1>1, <1>5, NewItems DEF QueueInv, QueuesTyped
<1>8. AttemptsAllowed'
  <2> SUFFICES ASSUME NEW i \in Items
               PROVE  /\ RetriesTyped(queue[i])
                      /\ Cardinality(CreatedFor(i)) <= Allows(queue[i]) + tickKills
                      /\ Cardinality(CreatedFor(i)) <= Allows(queue[i]) + tickKills + 1
                      /\ i \in ModuleItems => /\ RetriesTyped(copy'[i])
                                              /\ Cardinality(CreatedFor(i)) <= Allows(copy'[i]) + tickKills
    BY <1>1, <1>3, TasksStill DEF AttemptsAllowed, RetriesTyped, Allows
  <2>1. Cardinality(CreatedFor(i)) <= Allows(queue[i]) + tickKills /\ RetriesTyped(queue[i])
    BY <1>1, NotInALoop, <1>2
  <2>2. Allows(queue[i]) \in Nat /\ tickKills \in Nat /\ Cardinality(CreatedFor(i)) \in Nat
    BY AllowancesAreNumbers DEF QueueInv
  <2>3. CASE i \in ModuleItems
    <3>1. copy'[i] \in ItemState /\ RetriesTyped(copy'[i]) /\ Allows(queue[i]) <= Allows(copy'[i])
      BY <1>2, <1>4, <2>3, ModuleSync
    <3>2. Allows(copy'[i]) \in Nat
      BY <3>1, AllowsNat
    <3> QED
      BY <2>1, <2>2, <3>1, <3>2
  <2> QED
    BY <2>1, <2>2, <2>3
<1>9. Candidates'
  BY <1>1, <1>3, <1>5, <1>6 DEF Candidates
<1>10. DepsDone'
  <2>1. \A i \in ModuleItems : RecordTrue(i, copy'[i])
    <3> SUFFICES ASSUME NEW i \in ModuleItems PROVE RecordTrue(i, copy'[i])
      OBVIOUS
    <3>1. RecordTrue(i, queue[i]) /\ i \in Items
      BY <1>4 DEF QueueInv, DepsDone
    <3>2. /\ copy'[i].id = queue[i].id
          /\ copy'[i].status = "MERGED" => queue[i].status = "MERGED" \/ StatusOf(queue[i]) = "completed"
      BY <1>2, <1>4, <3>1, ModuleSync
    <3>3. CASE StatusOf(queue[i]) = "completed"
      <4>1. queue[i].id # 0 /\ seen[queue[i].id] = "completed"
        BY <3>3 DEF StatusOf
      <4>2. queue[i].id \in Created /\ task[queue[i].id].of = i
        BY <3>1, <4>1 DEF RecordTrue
      <4>3. task[queue[i].id].status = "completed"
        BY <4>1, <4>2 DEF QueueInv, DepsDone
      <4> QED
        BY <3>1, <3>2, <4>2, <4>3 DEF RecordTrue, Done
    <3> QED
      BY <3>1, <3>2, <3>3 DEF RecordTrue
  <2>2. \A i \in new : \A d \in Deps[i] : Done(d)
    <3> SUFFICES ASSUME NEW i \in new, NEW d \in Deps[i] PROVE Done(d)
      OBVIOUS
    <3>1. d \in ModuleItems
      BY <1>5, QueueConstants
    <3> QED
      BY <1>6, <2>1, <3>1 DEF RecordTrue
  <2>3. \A i \in Items : RecordTrue(i, queue[i]) /\ RecordTrue(i, queue[i])'
    BY <1>1, TasksStill DEF QueueInv, DepsDone, RecordTrue
  <2>4. \A i \in ModuleItems : RecordTrue(i, copy[i])'
    BY <1>1, <2>1, TasksStill DEF RecordTrue
  <2>5. \A n \in Created : seen'[n] = "none"
    BY <1>1, NewItems
  <2>6. DependenciesFirst' /\ \A d : Done(d) => Done(d)'
    BY <1>1, TasksStill DEF QueueInv, DepsDone
  <2>7. tick'.left = new
    BY <1>1
  <2> QED
    BY <1>1, <1>3, <2>2, <2>3, <2>4, <2>5, <2>6, <2>7 DEF QueueInv, DepsDone
<1> QED
  BY <1>7, <1>8, <1>9, <1>10 DEF QueueInv

\* A tick that finds no slot leaves its loop and keeps it.
LEMMA NoSlotKeeps == QueueInv /\ NoSlot => QueueInv'
<1> SUFFICES ASSUME QueueInv, NoSlot PROVE QueueInv'
  OBVIOUS
<1>1. /\ tick' = [pc |-> tick.pc, left |-> {}] /\ UNCHANGED <<queue, copy, seen, task, tickKills>>
  BY DEF NoSlot, Goto
<1>2. QueuesTyped' /\ \A i \in Items : Busy(i)' = Busy(i)
  BY <1>1 DEF QueueInv, QueuesTyped, Busy
<1>3. AttemptsAllowed'
  BY <1>1, <1>2, TasksStill DEF QueueInv, AttemptsAllowed, RetriesTyped, Allows
<1>4. Candidates'
  BY <1>1 DEF Candidates
<1>5. DepsDone'
  BY <1>1, <1>2, TasksStill DEF QueueInv, DepsDone, RecordTrue
<1> QED
  BY <1>2, <1>3, <1>4, <1>5 DEF QueueInv

\* A loop's file is written: its items are as the tick had them in memory.
LEMMA SavesKeep ==
  ASSUME QueueInv, NEW mine \in {GapItems, ModuleItems}, NEW pc \in {"module", "idle"},
         \A i \in mine : Busy(i), \A i \in Items \ mine : ~Busy(i),
         queue' = [i \in Items |-> IF i \in mine THEN copy[i] ELSE queue[i]],
         copy' = NewQueue, tick' = [pc |-> pc, left |-> {}], seen' \in {seen, NothingSeen},
         UNCHANGED <<task, tickKills>>
  PROVE  QueueInv'
<1>1. \A i \in Items : ~Busy(i)'
  BY DEF Busy
<1>2. QueuesTyped'
  <2>1. queue' \in [Items -> ItemState]
    BY DEF QueueInv, QueuesTyped
  <2> QED
    BY <2>1, NewItems DEF QueueInv, QueuesTyped
<1>3. AttemptsAllowed'
  <2> SUFFICES ASSUME NEW i \in Items
               PROVE  /\ RetriesTyped(queue'[i])
                      /\ Cardinality(CreatedFor(i)) <= Allows(queue'[i]) + tickKills
                      /\ Cardinality(CreatedFor(i)) <= Allows(queue'[i]) + tickKills + 1
    BY <1>1, TasksStill DEF AttemptsAllowed, RetriesTyped, Allows
  <2>1. /\ RetriesTyped(queue'[i])
        /\ Cardinality(CreatedFor(i)) <= Allows(queue'[i]) + tickKills
    BY DEF QueueInv, AttemptsAllowed
  <2>2. Allows(queue'[i]) \in Nat
    BY <1>2, AllowsNat DEF QueuesTyped
  <2>3. tickKills \in Nat /\ Cardinality(CreatedFor(i)) \in Nat
    BY AllowancesAreNumbers DEF QueueInv
  <2> QED
    BY <2>1, <2>2, <2>3
<1>4. Candidates'
  BY DEF Candidates
<1>5. DepsDone'
  <2>1. \A i \in Items : RecordTrue(i, queue'[i])
    BY DEF QueueInv, DepsDone
  <2>2. \A i \in Items : RecordTrue(i, queue[i])'
    BY <2>1, TasksStill DEF RecordTrue
  <2>3. \A n \in Created : seen'[n] = "completed" => task[n].status = "completed"
    BY NewItems DEF QueueInv, DepsDone
  <2> QED
    BY <1>1, <2>2, <2>3, TasksStill DEF QueueInv, DepsDone
<1> QED
  BY <1>2, <1>3, <1>4, <1>5 DEF QueueInv

\* The write of gap_queue.yaml keeps it.
LEMMA GapSavesKeeps == QueueInv /\ GapSaves => QueueInv'
<1> SUFFICES ASSUME QueueInv, GapSaves PROVE QueueInv'
  OBVIOUS
<1>1. /\ \A i \in GapItems : Busy(i)
      /\ \A i \in Items \ GapItems : ~Busy(i)
  BY DEF GapSaves, Busy
<1>2. /\ queue' = [i \in Items |-> IF i \in GapItems THEN copy[i] ELSE queue[i]]
      /\ copy' = NewQueue /\ tick' = [pc |-> "module", left |-> {}]
      /\ UNCHANGED <<seen, task, tickKills>>
  BY DEF GapSaves, Goto
<1> QED
  BY <1>1, <1>2, SavesKeep

\* The write of the module queues keeps it.
LEMMA ModuleSavesKeeps == QueueInv /\ ModuleSaves => QueueInv'
<1> SUFFICES ASSUME QueueInv, ModuleSaves PROVE QueueInv'
  OBVIOUS
<1>1. /\ \A i \in ModuleItems : Busy(i)
      /\ \A i \in Items \ ModuleItems : ~Busy(i)
  BY QueueConstants DEF ModuleSaves, Busy, Items
<1>2. /\ queue' = [i \in Items |-> IF i \in ModuleItems THEN copy[i] ELSE queue[i]]
      /\ copy' = NewQueue /\ tick' = [pc |-> "idle", left |-> {}]
      /\ seen' = NothingSeen /\ UNCHANGED <<task, tickKills>>
  BY DEF ModuleSaves, TickGone, Goto
<1> QED
  BY <1>1, <1>2, SavesKeep

\* A candidate is passed over, and no task is created for it.
LEMMA MarkedKeeps ==
  ASSUME QueueInv, NEW i \in Items, i \in tick.left,
         NEW x \in {"skipped_possible_duplicate", "dispatch_failed", "REWORK"},
         Marked(i, x), tick' = [pc |-> tick.pc, left |-> tick.left \ {i}],
         UNCHANGED <<queue, seen, task, tickKills>>
  PROVE  QueueInv'
<1> DEFINE new == [copy[i] EXCEPT !.status = x]
<1>1. copy[i] \in ItemState /\ copy \in [Items -> ItemState]
  BY DEF QueueInv, QueuesTyped
<1>2. /\ new \in ItemState /\ new.status = x /\ new.retries = copy[i].retries /\ new.id = copy[i].id
  BY <1>1 DEF ItemState, ItemStatuses
<1>3. copy' = [copy EXCEPT ![i] = new]
  BY DEF Marked
<1> HIDE DEF new
<1>4. copy' \in [Items -> ItemState] /\ \A j \in Items : copy'[j] = IF j = i THEN new ELSE copy[j]
  BY <1>1, <1>2, <1>3
<1>5. Busy(i) /\ copy[i].status \in {"queued", "needs_retry", "NEW"}
  BY DEF QueueInv, Candidates
<1>6. QueuesTyped' /\ \A j \in Items : Busy(j)' = Busy(j)
  BY <1>4 DEF QueueInv, QueuesTyped, Busy
<1>7. RetriesTyped(copy[i]) /\ Cardinality(CreatedFor(i)) <= Allows(copy[i]) + tickKills
  BY <1>5 DEF QueueInv, AttemptsAllowed
<1>8. RetriesTyped(new) /\ Cardinality(CreatedFor(i)) <= Allows(new) + tickKills
  <2>1. copy[i].retries \in Nat /\ tickKills \in Nat /\ Cardinality(CreatedFor(i)) \in Nat
    BY <1>1, AllowancesAreNumbers DEF ItemState, QueueInv
  <2>2. Allows(copy[i]) = copy[i].retries /\ Allows(new) = copy[i].retries + 1
    BY <1>2, <1>5, <2>1 DEF Allows
  <2>3. RetriesTyped(new)
    BY <1>2, <1>5, <1>7 DEF RetriesTyped
  <2> QED
    BY <1>7, <2>1, <2>2, <2>3
<1>9. AttemptsAllowed'
  <2>1. \A j \in Items : CreatedFor(j)' = CreatedFor(j) /\ (j \in tick'.left => j \in tick.left)
    BY TasksStill
  <2>2. \A j \in Items : (RetriesTyped(queue[j]))' = RetriesTyped(queue[j])
                         /\ (Allows(queue[j]))' = Allows(queue[j])
    BY DEF RetriesTyped, Allows
  <2>3. \A j \in Items : /\ (RetriesTyped(copy[j]))' = RetriesTyped(copy'[j])
                         /\ (Allows(copy[j]))' = Allows(copy'[j])
    BY DEF RetriesTyped, Allows
  <2>4. \A j \in Items : Busy(j) => /\ RetriesTyped(copy'[j])
                                    /\ Cardinality(CreatedFor(j)) <= Allows(copy'[j]) + tickKills
    BY <1>4, <1>8 DEF QueueInv, AttemptsAllowed
  <2> QED
    BY <1>6, <2>1, <2>2, <2>3, <2>4 DEF QueueInv, AttemptsAllowed
<1>10. Candidates'
  BY <1>4, <1>6 DEF QueueInv, QueuesTyped, Candidates
<1>11. DepsDone'
  <2>1. RecordTrue(i, copy[i]) => RecordTrue(i, new)
    BY <1>2 DEF RecordTrue
  <2>2. \A j \in Items : Busy(j) => RecordTrue(j, copy'[j])
    BY <1>4, <1>5, <2>1 DEF QueueInv, DepsDone
  <2>3. \A j \in Items : (Busy(j) => RecordTrue(j, copy[j])') /\ RecordTrue(j, queue[j])'
    BY <2>2, TasksStill DEF QueueInv, DepsDone, RecordTrue
  <2>4. \A j : j \in tick'.left => j \in tick.left
    OBVIOUS
  <2> QED
    BY <1>6, <2>3, <2>4, TasksStill DEF QueueInv, DepsDone
<1> QED
  BY <1>6, <1>9, <1>10, <1>11 DEF QueueInv

\* A candidate's task is created: one more for it, which its record in memory counts.
LEMMA CreateKeeps ==
  ASSUME QueueInv, NEW i \in Items, i \in tick.left, NEW x \in {"dispatched", "RUNNING"},
         Create(i, x), tick' = [pc |-> tick.pc, left |-> tick.left \ {i}],
         UNCHANGED <<queue, seen, tickKills>>
  PROVE  QueueInv'
<1>1. PICK n \in Created :
          /\ task[n].of = "nothing"
          /\ task' = [task EXCEPT ![n] = [of |-> i, status |-> "in_progress"]]
          /\ copy' = [copy EXCEPT ![i].status = x, ![i].id = n]
  BY DEF Create
<1> DEFINE new == [copy[i] EXCEPT !.status = x, !.id = n]
<1>2. copy[i] \in ItemState /\ copy \in [Items -> ItemState] /\ n \in Nat
  <2>1. copy \in [Items -> ItemState]
    BY DEF QueueInv, QueuesTyped
  <2>2. n \in Nat
    BY QueueConstants DEF Created
  <2> QED
    BY <2>1, <2>2
<1>3. new \in ItemState /\ new.status = x /\ new.retries = copy[i].retries /\ new.id = n
  BY <1>2 DEF ItemState, ItemStatuses
<1>4. copy' = [copy EXCEPT ![i] = new]
  BY <1>1, Zenon
<1> HIDE DEF new
<1>5. copy' \in [Items -> ItemState] /\ \A j \in Items : copy'[j] = IF j = i THEN new ELSE copy[j]
  BY <1>2, <1>3, <1>4
<1>6. /\ task' \in [Created -> ATask]
      /\ \A k \in Created : task'[k] = IF k = n THEN [of |-> i, status |-> "in_progress"] ELSE task[k]
  BY <1>1 DEF QueueInv, QueuesTyped, ATask, TaskStatuses
<1>7. Busy(i) /\ copy[i].status \in {"queued", "needs_retry", "NEW"}
  BY DEF QueueInv, Candidates
<1>8. QueuesTyped' /\ \A j \in Items : Busy(j)' = Busy(j)
  BY <1>5, <1>6 DEF QueueInv, QueuesTyped, Busy
<1>9. CreatedFor(i)' = CreatedFor(i) \cup {n} /\ n \notin CreatedFor(i)
  BY <1>1, <1>6, QueueConstants DEF CreatedFor
<1>10. \A j \in Items \ {i} : CreatedFor(j)' = CreatedFor(j)
  BY <1>1, <1>6, QueueConstants DEF CreatedFor
<1>11. \A j \in Items : Done(j) => Done(j)'
  BY <1>1, <1>6, QueueConstants DEF Done
<1>12. /\ Cardinality(CreatedFor(i)') = Cardinality(CreatedFor(i)) + 1
       /\ Cardinality(CreatedFor(i)) \in Nat /\ tickKills \in Nat
  BY <1>9, CreatedCount, FS_AddElement, AllowancesAreNumbers DEF QueueInv
<1>13. AttemptsAllowed'
  <2>1. \A j \in Items : /\ RetriesTyped(queue[j])
                         /\ (RetriesTyped(queue[j]))' = RetriesTyped(queue[j])
                         /\ (Allows(queue[j]))' = Allows(queue[j])
    BY DEF RetriesTyped, Allows, QueueInv, AttemptsAllowed
  <2>2. \A j \in Items : /\ (RetriesTyped(copy[j]))' = RetriesTyped(copy'[j])
                         /\ (Allows(copy[j]))' = Allows(copy'[j])
    BY DEF RetriesTyped, Allows
  <2>3. /\ RetriesTyped(copy[i])
        /\ Cardinality(CreatedFor(i)) <= Allows(copy[i]) + tickKills
        /\ Cardinality(CreatedFor(i)) <= Allows(queue[i]) + tickKills
    BY <1>7 DEF QueueInv, AttemptsAllowed
  <2>4. Allows(queue[i]) \in Nat /\ copy[i].retries \in Nat
    BY <1>2, AllowancesAreNumbers DEF QueueInv, ItemState
  <2>5. Allows(copy[i]) = copy[i].retries /\ Allows(new) = copy[i].retries + 1
    BY <1>3, <1>7, <2>4 DEF Allows
  <2>6. /\ Cardinality(CreatedFor(i)') <= Allows(new) + tickKills
        /\ Cardinality(CreatedFor(i)') <= Allows(queue[i]) + tickKills + 1
    BY <1>12, <2>3, <2>4, <2>5
  <2>7. RetriesTyped(new)
    BY <1>3, <1>7, <2>3 DEF RetriesTyped
  <2>8. i \notin tick'.left /\ \A j : j \in tick'.left => j \in tick.left
    OBVIOUS
  <2>9. \A j \in Items \ {i} : copy'[j] = copy[j]
    BY <1>5
  <2>10. copy'[i] = new
    BY <1>5
  <2> SUFFICES ASSUME NEW j \in Items
               PROVE  /\ RetriesTyped(queue[j])'
                      /\ Cardinality(CreatedFor(j)') <= Allows(queue[j]) + tickKills + 1
                      /\ ~Busy(j)' \/ j \in tick'.left
                         => Cardinality(CreatedFor(j)') <= Allows(queue[j]) + tickKills
                      /\ Busy(j)' => /\ RetriesTyped(copy'[j])
                                     /\ Cardinality(CreatedFor(j)') <= Allows(copy'[j]) + tickKills
    BY <2>1, <2>2 DEF AttemptsAllowed
  <2>11. CASE j = i
    BY <1>7, <1>8, <2>1, <2>6, <2>7, <2>8, <2>10, <2>11
  <2>12. CASE j # i
    BY <1>8, <1>10, <2>1, <2>8, <2>9, <2>12 DEF QueueInv, AttemptsAllowed
  <2> QED
    BY <2>11, <2>12
<1>14. Candidates'
  BY <1>5, <1>8 DEF QueueInv, QueuesTyped, Candidates
<1>15. DepsDone'
  <2>1. \A j \in Items : RecordTrue(j, queue[j])'
    <3> SUFFICES ASSUME NEW j \in Items PROVE RecordTrue(j, queue[j])'
      OBVIOUS
    <3>1. RecordTrue(j, queue[j])
      BY DEF QueueInv, DepsDone
    <3> QED
      BY <1>1, <1>6, <1>11, <3>1, QueueConstants DEF RecordTrue
  <2>2. \A j \in Items : Busy(j) => RecordTrue(j, copy[j])'
    <3> SUFFICES ASSUME NEW j \in Items, Busy(j) PROVE RecordTrue(j, copy[j])'
      OBVIOUS
    <3>1. CASE j = i
      <4>1. copy'[i] = new
        BY <1>5
      <4> QED
        BY <1>3, <1>6, <3>1, <4>1 DEF RecordTrue
    <3>2. CASE j # i
      <4>1. RecordTrue(j, copy[j]) /\ copy'[j] = copy[j]
        BY <1>5, <3>2 DEF QueueInv, DepsDone
      <4> QED
        BY <1>1, <1>6, <1>11, <4>1, QueueConstants DEF RecordTrue
    <3> QED
      BY <3>1, <3>2
  <2>3. \A k \in Created : /\ seen'[k] = "completed" => task'[k].status = "completed"
                           /\ task'[k].of = "nothing" => task'[k].status = "none"
    BY <1>1, <1>6, QueueConstants DEF QueueInv, DepsDone
  <2>4. \A j \in tick.left \cap ModuleItems : \A d \in Deps[j] : Done(d)'
    <3> SUFFICES ASSUME NEW j \in tick.left \cap ModuleItems, NEW d \in Deps[j] PROVE Done(d)'
      OBVIOUS
    <3>1. d \in Items /\ Done(d)
      BY QueueConstants DEF Items, QueueInv, DepsDone
    <3> QED
      BY <1>11, <3>1
  <2>5. \A j : j \in tick'.left => j \in tick.left
    OBVIOUS
  <2>6. DependenciesFirst'
    <3> SUFFICES ASSUME NEW k \in Created, task'[k].of \in ModuleItems, NEW d \in Deps[task'[k].of]
                 PROVE  Done(d)'
      BY DEF DependenciesFirst, Done
    <3>1. CASE k = n
      BY <1>6, <2>4, <3>1
    <3>2. CASE k # n
      <4>1. task'[k] = task[k]
        BY <1>6, <3>2
      <4>2. Done(d) /\ d \in Items
        BY <4>1, QueueConstants DEF QueueInv, DepsDone, DependenciesFirst, Done, Items
      <4> QED
        BY <1>11, <4>2
    <3> QED
      BY <3>1, <3>2
  <2> QED
    BY <1>8, <2>1, <2>2, <2>3, <2>4, <2>5, <2>6 DEF DepsDone
<1> QED
  BY <1>8, <1>13, <1>14, <1>15 DEF QueueInv

\* The end or the restart of a task keeps it.
LEMMA TaskMovesKeeps == ASSUME QueueInv, NEW n \in Created, TaskMoves(n) PROVE QueueInv'
<1>1. PICK s \in TaskStatuses :
          /\ <<task[n].status, s>> \in
                {"in_progress"} \X {"completed", "blocked", "awaiting_human_approval"}
                \cup {<<"blocked", "in_progress">>, <<"awaiting_human_approval", "completed">>}
          /\ task' = [task EXCEPT ![n].status = s]
  BY DEF TaskMoves
<1>2. UNCHANGED <<queue, copy, tick, seen, tickKills>>
  BY DEF TaskMoves
<1>3. task[n].status \notin {"none", "completed"}
  BY <1>1
<1>4. task \in [Created -> ATask] /\ task[n] \in ATask
  BY DEF QueueInv, QueuesTyped
<1>5. /\ task' \in [Created -> ATask]
      /\ \A k \in Created : task'[k].of = task[k].of
      /\ \A k \in Created : task'[k].status = IF k = n THEN s ELSE task[k].status
  BY <1>1, <1>4 DEF ATask
<1>6. \A k \in Created : task[k].status = "completed" => task'[k].status = "completed"
  BY <1>3, <1>5
<1>7. QueuesTyped' /\ \A j \in Items : Busy(j)' = Busy(j)
  BY <1>2, <1>5 DEF QueueInv, QueuesTyped, Busy
<1>8. \A j \in Items : CreatedFor(j)' = CreatedFor(j)
  BY <1>5 DEF CreatedFor
<1>9. \A j : Done(j) => Done(j)'
  BY <1>5, <1>6 DEF Done
<1>10. AttemptsAllowed' /\ Candidates'
  BY <1>2, <1>7, <1>8 DEF QueueInv, QueuesTyped, AttemptsAllowed, Candidates, RetriesTyped, Allows
<1>11. DepsDone'
  <2>1. \A j \in Items : (RecordTrue(j, queue[j]) => RecordTrue(j, queue[j])')
                         /\ (RecordTrue(j, copy[j]) => RecordTrue(j, copy[j])')
    BY <1>2, <1>5, <1>9 DEF RecordTrue
  <2>2. \A k \in Created : /\ seen'[k] = "completed" => task'[k].status = "completed"
                           /\ task'[k].of = "nothing" => task'[k].status = "none"
    BY <1>2, <1>3, <1>5, <1>6 DEF QueueInv, DepsDone
  <2>3. DependenciesFirst'
    BY <1>5, <1>6 DEF QueueInv, DepsDone, DependenciesFirst
  <2> QED
    BY <1>2, <1>7, <1>9, <2>1, <2>2, <2>3 DEF QueueInv, DepsDone
<1> QED
  BY <1>7, <1>10, <1>11 DEF QueueInv

\* The steps of the two loops keep it.
LEMMA DispatchesKeep ==
  ASSUME QueueInv, NEW i \in Items, GapConflict(i) \/ GapDispatches(i) \/ ModuleDispatches(i)
  PROVE  QueueInv'
<1>1. CASE GapConflict(i)
  BY <1>1, MarkedKeeps DEF GapConflict, Goto
<1>2. CASE GapDispatches(i)
  <2>1. i \in tick.left /\ tick' = [pc |-> tick.pc, left |-> tick.left \ {i}]
        /\ UNCHANGED <<queue, seen, tickKills>>
    BY <1>2 DEF GapDispatches, Goto
  <2>2. CASE Create(i, "dispatched")
    BY <2>1, <2>2, CreateKeeps
  <2>3. CASE Marked(i, "dispatch_failed") /\ UNCHANGED task
    BY <2>1, <2>3, MarkedKeeps
  <2> QED
    BY <1>2, <2>2, <2>3 DEF GapDispatches
<1>3. CASE ModuleDispatches(i)
  <2>1. i \in tick.left /\ tick' = [pc |-> tick.pc, left |-> tick.left \ {i}]
        /\ UNCHANGED <<queue, seen, tickKills>>
    BY <1>3 DEF ModuleDispatches, Goto
  <2>2. CASE Create(i, "RUNNING")
    BY <2>1, <2>2, CreateKeeps
  <2>3. CASE Marked(i, "REWORK") /\ UNCHANGED task
    BY <2>1, <2>3, MarkedKeeps
  <2> QED
    BY <1>3, <2>2, <2>3 DEF ModuleDispatches
<1> QED
  BY <1>1, <1>2, <1>3

\* The invariant is what the property asks.
LEMMA QueueInvAccounts == QueueInv => ItemsAccounted
<1> SUFFICES ASSUME QueueInv PROVE ItemsAccounted
  OBVIOUS
<1>1. \A i \in Items : Known(i) = IF Busy(i) THEN copy[i] ELSE queue[i]
  BY DEF Known, Busy
<1>2. \A it \in ItemState : Allows(it) <= it.retries + 1
  BY DEF Allows, ItemState
<1>3. CreationsCounted
  <2> SUFFICES ASSUME NEW i \in Items
               PROVE  /\ Cardinality(CreatedFor(i)) <= Known(i).retries + 1 + tickKills
                      /\ Known(i).status = "stuck_needs_human" <=> Known(i).retries = MaxRetries
    BY DEF CreationsCounted, CreatedFor
  <2>1. /\ RetriesTyped(Known(i)) /\ Known(i) \in ItemState
        /\ Cardinality(CreatedFor(i)) <= Allows(Known(i)) + tickKills
    BY <1>1 DEF QueueInv, QueuesTyped, AttemptsAllowed
  <2>2. /\ Allows(Known(i)) <= Known(i).retries + 1 /\ Allows(Known(i)) \in Nat
        /\ Known(i).retries \in Nat /\ tickKills \in Nat /\ Cardinality(CreatedFor(i)) \in Nat
    BY <1>2, <2>1, AllowsNat, AllowancesAreNumbers DEF QueueInv, ItemState
  <2>3. Cardinality(CreatedFor(i)) <= Known(i).retries + 1 + tickKills
    BY <2>1, <2>2
  <2> QED
    BY <2>1, <2>3 DEF RetriesTyped
<1> QED
  BY <1>3 DEF ItemsAccounted, QueueInv, DepsDone

\* The invariant of the component is kept.
LEMMA QueueKeeps == QueueSpec => []QueueInv
<1>1. QueueInv /\ [QueueNext]_qvars => QueueInv'
  <2> SUFFICES ASSUME QueueInv, [QueueNext]_qvars PROVE QueueInv'
    OBVIOUS
  <2>1. CASE UNCHANGED qvars
    <3>1. UNCHANGED <<queue, copy, tick, seen, task, tickKills>>
      BY <2>1 DEF qvars
    <3>2. QueuesTyped'
      BY <3>1 DEF QueueInv, QueuesTyped
    <3>3. AttemptsAllowed'
      BY <3>1, TasksStill DEF QueueInv, AttemptsAllowed, Busy, RetriesTyped, Allows
    <3>4. Candidates'
      BY <3>1 DEF QueueInv, Candidates, Busy
    <3>5. DepsDone'
      BY <3>1, TasksStill DEF QueueInv, DepsDone, Busy, RecordTrue
    <3> QED  BY <3>2, <3>3, <3>4, <3>5 DEF QueueInv
  <2>2. ASSUME NEW i \in GapItems, GapConflict(i) \/ GapDispatches(i) PROVE QueueInv'
    BY <2>2, DispatchesKeep DEF Items
  <2>3. ASSUME NEW i \in ModuleItems, ModuleDispatches(i) PROVE QueueInv'
    BY <2>3, DispatchesKeep DEF Items
  <2> QED
    BY <2>1, <2>2, <2>3, TickBeginsKeeps, GapPausedKeeps, GapLoadsKeeps, GapSavesKeeps, NoSlotKeeps,
       ModuleLoadsKeeps, ModuleSavesKeeps, TickKilledKeeps, TaskMovesKeeps DEF QueueNext
<1> QED  BY <1>1, QueueInitially, PTL DEF QueueSpec

\* Each queue item has at most one task per counted attempt and per killed tick, and a module
\* is begun only when the modules it depends on are completed, whatever the tick has read and
\* wherever it was killed (gap_queue_tick, module_queue_tick).
THEOREM ItemsWellAccounted == QueueSpec => []ItemsAccounted
BY QueueKeeps, QueueInvAccounts, PTL

\* What the tick holds in memory of the items it is not at stays within its bounds too.
CopyBounded ==
    /\ \A i \in Items : copy[i].id <= MaxCreated /\ copy[i].retries <= MaxRetries
    /\ tickKills <= MaxTickKills

\* The records of the queues keep their types: numbers are of tasks that were created, and
\* retries end at the limit.
LEMMA QueueTyped == QueueSpec => []QueueTypeOK
<1> USE QueueConstants
<1>0. MaxCreated \in Nat /\ MaxTickKills \in Nat /\ MaxRetries \in Nat
  BY QueueAssumption
<1>1. QueueInit => CopyBounded
  BY QueueAssumption DEF QueueInit, CopyBounded, NewQueue
<1>2. QueueInv => \A i \in Items : /\ queue[i].id <= MaxCreated /\ queue[i].retries <= MaxRetries
                                   /\ queue[i].id \in Nat /\ queue[i].retries \in Nat
                                   /\ copy[i].id \in Nat /\ copy[i].retries \in Nat
                                   /\ Busy(i) => copy[i].id <= MaxCreated /\ copy[i].retries <= MaxRetries
  <2> SUFFICES ASSUME QueueInv, NEW i \in Items
               PROVE  /\ queue[i].id <= MaxCreated /\ queue[i].retries <= MaxRetries
                      /\ queue[i].id \in Nat /\ queue[i].retries \in Nat
                      /\ copy[i].id \in Nat /\ copy[i].retries \in Nat
                      /\ Busy(i) => copy[i].id <= MaxCreated /\ copy[i].retries <= MaxRetries
    OBVIOUS
  <2>1. queue[i] \in ItemState /\ copy[i] \in ItemState
    BY DEF QueueInv, QueuesTyped
  <2>2. RetriesTyped(queue[i]) /\ RecordTrue(i, queue[i])
        /\ (Busy(i) => RetriesTyped(copy[i]) /\ RecordTrue(i, copy[i]))
    BY DEF QueueInv, AttemptsAllowed, DepsDone
  <2> QED  BY <2>1, <2>2, QueueAssumption DEF RetriesTyped, RecordTrue, Created, ItemState
<1>3. QueueInv /\ CopyBounded => QueueTypeOK
  <2> SUFFICES ASSUME QueueInv, CopyBounded PROVE QueueTypeOK
    OBVIOUS
  <2>1. queue \in ItemStates
    <3>1. \A i \in Items : queue[i] \in ItemState
      BY DEF QueueInv, QueuesTyped
    <3>2. \A i \in Items : queue[i] \in [status : ItemStatuses, id : 0 .. MaxCreated, retries : 0 .. MaxRetries]
      BY <1>0, <1>2, <3>1 DEF ItemState
    <3> QED  BY <3>2 DEF QueueInv, QueuesTyped, ItemStates
  <2>2. copy \in ItemStates
    <3>1. \A i \in Items : copy[i] \in ItemState
      BY DEF QueueInv, QueuesTyped
    <3>2. \A i \in Items : copy[i] \in [status : ItemStatuses, id : 0 .. MaxCreated, retries : 0 .. MaxRetries]
      BY <1>0, <1>2, <3>1 DEF ItemState, CopyBounded
    <3> QED  BY <3>2 DEF QueueInv, QueuesTyped, ItemStates
  <2>3. tickKills \in 0 .. MaxTickKills
    <3>1. tickKills \in Nat /\ tickKills <= MaxTickKills
      BY Zenon DEF QueueInv, QueuesTyped, CopyBounded
    <3> QED  BY <1>0, <3>1
  <2> QED  BY <2>1, <2>2, <2>3, Zenon DEF QueueInv, QueuesTyped, QueueTypeOK, ATask
<1>4. QueueInv /\ QueueInv' /\ CopyBounded /\ [QueueNext]_qvars => CopyBounded'
  <2> SUFFICES ASSUME QueueInv, QueueInv', CopyBounded, [QueueNext]_qvars PROVE CopyBounded'
    OBVIOUS
  <2>1. tickKills' <= MaxTickKills
    <3>1. TickKilled \/ UNCHANGED tickKills
      BY Zenon DEF QueueNext, qvars, TickBegins, GapPaused, GapLoads, GapSaves, NoSlot, GapConflict,
         GapDispatches, ModuleLoads, ModuleSaves, ModuleDispatches, TaskMoves
    <3>2. tickKills \in Nat /\ tickKills <= MaxTickKills
      BY Zenon DEF QueueInv, QueuesTyped, CopyBounded
    <3> QED  BY <1>0, <3>1, <3>2 DEF TickKilled
  <2>2. ASSUME NEW i \in Items, ~Busy(i)'
        PROVE  copy'[i] \in {copy[i], queue[i], NewQueue[i]}
    <3>1. ASSUME NEW j, NEW status, \/ copy' = [copy EXCEPT ![j].status = status]
                                    \/ \E n \in Created : copy' = [copy EXCEPT ![j].status = status, ![j].id = n],
                 j # i
          PROVE  copy'[i] = copy[i]
      BY <3>1 DEF QueueInv, QueuesTyped
    <3>2. CASE GapLoads
      BY <2>2, <3>2 DEF GapLoads, Goto, Busy
    <3>3. CASE ModuleLoads
      BY <2>2, <3>3 DEF ModuleLoads, Goto, Busy, Items
    <3>4. ASSUME NEW j \in GapItems, GapConflict(j) \/ GapDispatches(j)
          PROVE  copy'[i] = copy[i]
      <4>1. j # i
        <5>1. tick' = [pc |-> "gap items", left |-> tick.left \ {j}]
          BY <3>4, Zenon DEF GapConflict, GapDispatches, Goto
        <5> QED  BY <2>2, <5>1 DEF Busy
      <4> QED  BY <3>1, <3>4, <4>1 DEF GapConflict, GapDispatches, Marked, Create
    <3>5. ASSUME NEW j \in ModuleItems, ModuleDispatches(j)
          PROVE  copy'[i] = copy[i]
      <4>1. j # i
        <5>1. tick' = [pc |-> "module items", left |-> tick.left \ {j}]
          BY <3>5, Zenon DEF ModuleDispatches, Goto
        <5> QED  BY <2>2, <5>1, QueueAssumption DEF Busy
      <4> QED  BY <3>1, <3>5, <4>1, ZenonT(30) DEF ModuleDispatches, Marked, Create
    <3>6. CASE GapSaves \/ ModuleSaves \/ TickKilled
      BY <3>6 DEF GapSaves, ModuleSaves, TickKilled, TickGone
    <3>7. CASE TickBegins \/ GapPaused \/ NoSlot \/ (\E n \in Created : TaskMoves(n)) \/ UNCHANGED qvars
      BY <3>7 DEF TickBegins, GapPaused, NoSlot, TaskMoves, qvars
    <3> QED  BY <3>2, <3>3, <3>4, <3>5, <3>6, <3>7 DEF QueueNext
  <2>3. \A i \in Items : NewQueue[i].id = 0 /\ NewQueue[i].retries = 0
    BY DEF NewQueue
  <2>4. ASSUME NEW i \in Items PROVE copy'[i].id <= MaxCreated /\ copy'[i].retries <= MaxRetries
    <3>1. CASE Busy(i)'
      <4>1. RetriesTyped(copy'[i]) /\ RecordTrue(i, copy[i])' /\ copy'[i] \in ItemState
        BY <3>1 DEF QueueInv, QueuesTyped, AttemptsAllowed, DepsDone
      <4> QED  BY <4>1, QueueAssumption DEF RetriesTyped, RecordTrue, Created, ItemState
    <3>2. CASE ~Busy(i)'
      BY <2>2, <2>3, <3>2, <1>2, QueueAssumption DEF CopyBounded
    <3> QED  BY <3>1, <3>2
  <2> QED  BY <2>1, <2>4 DEF CopyBounded
<1> QED
  BY <1>1, <1>3, <1>4, QueueKeeps, PTL DEF QueueSpec

-----------------------------------------------------------------------------

-----------------------------------------------------------------------------
(* ResumeTick *)

\* The tick's place, the task it is at and what it has counted.
ResumeRec == [pc : {"idle", "look", "submit", "record"}, next : Nat, count : Nat, accepted : BOOLEAN]

TickTyped ==
    /\ entry \in [Resumables -> [status : {"closed", "queued", "running"}, own : BOOLEAN]]
    /\ letter \in [Resumables -> [count : Nat, dead : BOOLEAN]]
    /\ resume \in ResumeRec
    /\ resume.next >= 1 /\ resume.next <= NumResumable + 1
    /\ resume.pc \in {"submit", "record"} => resume.next \in Resumables
    /\ refusals \in [Resumables -> Nat]
    /\ upsets \in Nat

\* The tick has a submission accepted, or refused, that it has not recorded.
Taken == resume.pc = "record" /\ resume.accepted
JustRefused(t) == resume.pc = "record" /\ ~resume.accepted /\ resume.next = t

\* A task that is at its limit is in the dead letter file, but for the one being recorded.
DeadWhenFull == \A t \in Resumables :
    /\ letter[t].count <= MaxRejections
    /\ letter[t].dead <=> letter[t].count = MaxRejections

\* The tick's count covers the rows that it or another tick has taken.
CountCovers ==
    upsets = 0 =>
        /\ resume.count <= NumResumable + resume.next - 1
        /\ resume.count <= ReservedMax
        /\ Cardinality(OwnActive) <= ReservedMax
        /\ resume.pc \in {"look", "submit"} => Cardinality(OwnActive) <= resume.count
        /\ resume.pc = "record" /\ ~resume.accepted => Cardinality(OwnActive) <= resume.count
        /\ Taken => Cardinality(OwnActive) <= resume.count + 1
        /\ resume.pc = "submit" \/ Taken => resume.count < ReservedMax

\* What a task was refused is what its file says, but for the refusal being recorded.
RefusalsCovered ==
    /\ \A t \in Resumables :
          /\ ~letter[t].dead /\ JustRefused(t) => refusals[t] <= letter[t].count + upsets + 1
          /\ letter[t].dead \/ ~JustRefused(t) => refusals[t] <= letter[t].count + upsets
    /\ resume.pc = "submit" /\ letter[resume.next].dead
       => refusals[resume.next] + 1 <= letter[resume.next].count + upsets
    /\ Taken => refusals[resume.next] = 0

\* A task in the dead letter file was refused to its limit.
DeadIsRefused ==
    upsets = 0 =>
        /\ resume.pc \in {"submit", "record"} => ~letter[resume.next].dead
        /\ \A t \in Resumables :
              /\ ~(Taken /\ resume.next = t) => letter[t].count <= refusals[t]
              /\ JustRefused(t) => letter[t].count + 1 <= refusals[t]

\* The limit is on the tick's own count, so that must be tied to the rows there are.
TickInv == TickTyped /\ DeadWhenFull /\ CountCovers /\ RefusalsCovered /\ DeadIsRefused

\* The reserve is a number.
LEMMA ReservedTyped == NumResumable \in Nat /\ MaxRejections \in Nat /\ ReservedMax \in Nat
                       /\ NumResumable >= 1 /\ MaxRejections >= 1 /\ ReservedMax >= 1
                       /\ Unknown \in Nat /\ Unknown > 2 * NumResumable
BY ResumeAssumption DEF ReservedMax, Unknown

\* An idle tick is one that has counted nothing.
LEMMA NoTickTyped == /\ NoTick \in ResumeRec
                     /\ NoTick.pc = "idle" /\ NoTick.next = 1 /\ NoTick.count = 0
                     /\ ~NoTick.accepted
BY DEF NoTick, ResumeRec

\* The rows of resumed tasks are finitely many.
LEMMA OwnFinite ==
    /\ IsFiniteSet(OwnActive) /\ Cardinality(OwnActive) \in Nat
    /\ Cardinality(OwnActive) <= NumResumable
<1>1. IsFiniteSet(Resumables) /\ Cardinality(Resumables) = NumResumable
  BY ReservedTyped, FS_Interval DEF Resumables
<1>2. OwnActive \subseteq Resumables
  BY DEF OwnActive
<1> QED
  BY <1>1, <1>2, FS_Subset, FS_CardinalityType

\* No row becomes the tick's own and active: the count does not grow.
LEMMA OwnShrinks ==
  ASSUME \A t \in Resumables : entry'[t].status # "closed" /\ entry'[t].own => ActiveRow(t) /\ entry[t].own
  PROVE  Cardinality(OwnActive') <= Cardinality(OwnActive) /\ Cardinality(OwnActive') \in Nat
<1>1. OwnActive' \subseteq OwnActive
  BY DEF OwnActive, ActiveRow
<1> QED
  BY <1>1, OwnFinite, FS_Subset, FS_CardinalityType

\* An accepted submission adds one row of a resumed task.
LEMMA OwnGrowsByOne ==
  ASSUME NEW t \in Resumables,
         \A x \in Resumables \ {t} : entry'[x] = entry[x]
  PROVE  Cardinality(OwnActive') <= Cardinality(OwnActive) + 1 /\ Cardinality(OwnActive') \in Nat
<1>1. OwnActive' \subseteq OwnActive \cup {t}
  BY DEF OwnActive, ActiveRow
<1>2. /\ IsFiniteSet(OwnActive \cup {t})
      /\ Cardinality(OwnActive \cup {t}) <= Cardinality(OwnActive) + 1
  <2>1. /\ IsFiniteSet(OwnActive \cup {t})
        /\ Cardinality(OwnActive \cup {t}) =
              IF t \in OwnActive THEN Cardinality(OwnActive) ELSE Cardinality(OwnActive) + 1
    BY OwnFinite, FS_AddElement
  <2> QED
    BY <2>1, OwnFinite
<1>3. /\ IsFiniteSet(OwnActive')
      /\ Cardinality(OwnActive') <= Cardinality(OwnActive \cup {t})
  BY <1>1, <1>2, FS_Subset
<1>4. Cardinality(OwnActive') \in Nat /\ Cardinality(OwnActive \cup {t}) \in Nat
  BY <1>2, <1>3, FS_CardinalityType
<1> QED
  BY <1>2, <1>3, <1>4, OwnFinite

\* The initial states satisfy the invariant.
LEMMA TickInitially == ResumeInit => TickInv
<1> SUFFICES ASSUME ResumeInit PROVE TickInv
  OBVIOUS
<1> USE ReservedTyped, NoTickTyped
<1>1. OwnActive = {}
  BY DEF ResumeInit, OwnActive, ActiveRow
<1>2. Cardinality(OwnActive) = 0
  BY <1>1, FS_EmptySet
<1>3. TickTyped
  <2>1. [status |-> "closed", own |-> FALSE] \in [status : {"closed", "queued", "running"}, own : BOOLEAN]
    OBVIOUS
  <2>2. [count |-> 0, dead |-> FALSE] \in [count : Nat, dead : BOOLEAN]
    OBVIOUS
  <2> QED  BY <2>1, <2>2 DEF ResumeInit, TickTyped
<1>4. DeadWhenFull
  BY DEF ResumeInit, DeadWhenFull
<1>5. CountCovers
  BY <1>2 DEF ResumeInit, CountCovers, Taken
<1>6. RefusalsCovered
  BY DEF ResumeInit, RefusalsCovered, Taken, JustRefused
<1>7. DeadIsRefused
  BY DEF ResumeInit, DeadIsRefused, Taken, JustRefused
<1> QED
  BY <1>3, <1>4, <1>5, <1>6, <1>7 DEF TickInv

\* A step that leaves the letters, the refusals and the tick alone.
LEMMA AroundTheTick ==
  ASSUME TickInv, UNCHANGED <<letter, resume, refusals>>,
         entry' \in [Resumables -> [status : {"closed", "queued", "running"}, own : BOOLEAN]],
         upsets' \in Nat, upsets' >= upsets,
         upsets' = 0 => Cardinality(OwnActive') <= Cardinality(OwnActive)
                        /\ Cardinality(OwnActive') \in Nat
  PROVE  TickInv'
<1> USE ReservedTyped, OwnFinite
<1>1. TickTyped' /\ DeadWhenFull'
  BY DEF TickInv, TickTyped, DeadWhenFull
<1>2. CountCovers'
  <2> SUFFICES ASSUME upsets' = 0 PROVE CountCovers'
    BY DEF CountCovers
  <2>1. upsets = 0 /\ resume.count \in Nat
    BY DEF TickInv, TickTyped, ResumeRec
  <2> QED
    BY <2>1 DEF TickInv, CountCovers, Taken
<1>3. RefusalsCovered'
  <2>1. \A t \in Resumables : refusals[t] \in Nat /\ letter[t].count \in Nat
    BY DEF TickInv, TickTyped
  <2>2. resume.pc = "submit" => resume.next \in Resumables
    BY DEF TickInv, TickTyped
  <2>3. upsets \in Nat
    BY DEF TickInv, TickTyped
  <2> QED
    BY <2>1, <2>2, <2>3 DEF TickInv, RefusalsCovered, Taken, JustRefused
<1>4. DeadIsRefused'
  BY DEF TickInv, TickTyped, DeadIsRefused, Taken, JustRefused
<1> QED
  BY <1>1, <1>2, <1>3, <1>4 DEF TickInv

\* A step of the tick that leaves the rows, the letters and the refusals alone, and
\* is neither before nor after a record.
LEMMA TickMoves ==
  ASSUME TickInv, UNCHANGED <<entry, letter, refusals>>,
         NEW r \in ResumeRec, resume' = r,
         r.pc # "record", r.next >= 1, r.next <= NumResumable + 1,
         r.pc = "submit" => r.next \in Resumables,
         upsets' \in Nat, upsets' >= upsets,
         resume.pc = "record" => upsets' >= upsets + 1,
         r.pc = "submit" => /\ upsets' = 0 => ~letter[r.next].dead
                            /\ letter[r.next].dead => upsets' >= upsets + 1,
         upsets' = 0 => /\ r.count <= NumResumable + r.next - 1
                        /\ r.count <= ReservedMax
                        /\ r.pc # "idle" => Cardinality(OwnActive) <= r.count
                        /\ r.pc = "submit" => r.count < ReservedMax
  PROVE  TickInv'
<1> USE ReservedTyped, OwnFinite
<1>0. /\ upsets \in Nat /\ r.pc \in {"idle", "look", "submit", "record"}
      /\ \A t \in Resumables : refusals[t] \in Nat /\ letter[t].count \in Nat
  BY DEF TickInv, TickTyped, ResumeRec
<1>1. TickTyped' /\ DeadWhenFull'
  BY DEF TickInv, TickTyped, DeadWhenFull
<1>2. OwnActive' = OwnActive
  BY DEF OwnActive, ActiveRow
<1>3. CountCovers'
  <2> SUFFICES ASSUME upsets' = 0 PROVE CountCovers'
    BY DEF CountCovers
  <2>1. upsets = 0
    BY <1>0
  <2>2. Cardinality(OwnActive) <= ReservedMax
    BY <2>1 DEF TickInv, CountCovers
  <2> QED
    BY <2>2, <1>0, <1>2 DEF CountCovers, Taken
<1>4. RefusalsCovered'
  <2>1. \A t \in Resumables : refusals[t] <= letter[t].count + upsets'
    <3> SUFFICES ASSUME NEW t \in Resumables
                 PROVE  refusals[t] <= letter[t].count + upsets'
      OBVIOUS
    <3>1. CASE JustRefused(t)
      <4>1. refusals[t] <= letter[t].count + upsets + 1
        BY <1>0, <3>1 DEF TickInv, RefusalsCovered
      <4>2. upsets' >= upsets + 1
        BY <3>1 DEF JustRefused
      <4> QED
        BY <1>0, <4>1, <4>2
    <3>2. CASE ~JustRefused(t)
      <4>1. refusals[t] <= letter[t].count + upsets
        BY <3>2 DEF TickInv, RefusalsCovered
      <4> QED
        BY <1>0, <4>1
    <3> QED
      BY <3>1, <3>2
  <2>2. ASSUME r.pc = "submit", letter[r.next].dead
        PROVE  refusals[r.next] + 1 <= letter[r.next].count + upsets'
    <3>1. r.next \in Resumables /\ upsets' >= upsets + 1
      BY <2>2
    <3>2. refusals[r.next] <= letter[r.next].count + upsets
      BY <2>2, <3>1 DEF TickInv, RefusalsCovered
    <3> QED
      BY <1>0, <3>1, <3>2
  <2> QED
    BY <2>1, <2>2 DEF RefusalsCovered, Taken, JustRefused
<1>5. DeadIsRefused'
  <2> SUFFICES ASSUME upsets' = 0 PROVE DeadIsRefused'
    BY DEF DeadIsRefused
  <2>1. upsets = 0 /\ resume.pc # "record"
    BY <1>0
  <2>2. \A t \in Resumables : letter[t].count <= refusals[t]
    BY <2>1 DEF TickInv, DeadIsRefused, Taken
  <2> QED
    BY <2>2 DEF DeadIsRefused, Taken, JustRefused
<1> QED
  BY <1>1, <1>3, <1>4, <1>5 DEF TickInv

\* The submission of a task to the governor, accepted or refused, keeps it.
LEMMA SubmitKeeps ==
  ASSUME TickInv, SubmitAccepted \/ SubmitTurnedDown
  PROVE  TickInv'
<1> USE ReservedTyped, OwnFinite
<1> DEFINE t == resume.next
           row == [status |-> "queued", own |-> TRUE]
<1>0. /\ resume.pc = "submit" /\ t \in Resumables
      /\ upsets \in Nat /\ UNCHANGED <<letter, upsets>>
      /\ \A x \in Resumables : refusals[x] \in Nat /\ letter[x].count \in Nat
  BY DEF TickInv, TickTyped, SubmitAccepted, SubmitTurnedDown
<1>1. PICK a \in BOOLEAN : /\ resume' = [resume EXCEPT !.pc = "record", !.accepted = a]
                           /\ a => SubmitAccepted
                           /\ ~a => SubmitTurnedDown
  BY DEF SubmitAccepted, SubmitTurnedDown
<1>2. /\ resume' \in ResumeRec /\ resume'.pc = "record" /\ resume'.accepted = a
      /\ resume'.next = t /\ resume'.count = resume.count
  BY <1>1 DEF TickInv, TickTyped, ResumeRec
<1>3. row \in [status : {"closed", "queued", "running"}, own : BOOLEAN]
  OBVIOUS
<1> HIDE DEF row
<1>4. /\ a => entry' = [entry EXCEPT ![t] = row] /\ ~ActiveRow(t)
      /\ ~a => entry' = entry
      /\ refusals' = [refusals EXCEPT ![t] = IF a THEN 0 ELSE @ + 1]
  <2>1. CASE a
    BY <1>1, <2>1 DEF SubmitAccepted, row
  <2>2. CASE ~a
    BY <1>1, <2>2 DEF SubmitTurnedDown
  <2> QED
    BY <2>1, <2>2
<1>5. \A x \in Resumables : refusals'[x] = IF x # t THEN refusals[x]
                                           ELSE IF a THEN 0 ELSE refusals[x] + 1
  BY <1>4 DEF TickInv, TickTyped
<1>6. TickTyped'
  <2>1. entry' \in [Resumables -> [status : {"closed", "queued", "running"}, own : BOOLEAN]]
    BY <1>3, <1>4 DEF TickInv, TickTyped
  <2>2. refusals' \in [Resumables -> Nat]
    BY <1>0, <1>4 DEF TickInv, TickTyped
  <2> QED
    BY <1>0, <1>2, <2>1, <2>2 DEF TickInv, TickTyped
<1>7. DeadWhenFull'
  BY <1>0 DEF TickInv, DeadWhenFull
<1>8. CountCovers'
  <2> SUFFICES ASSUME upsets = 0 PROVE CountCovers'
    BY <1>0 DEF CountCovers
  <2>1. /\ Cardinality(OwnActive) <= resume.count /\ resume.count < ReservedMax
        /\ resume.count \in Nat /\ resume.count <= NumResumable + resume.next - 1
    BY <1>0 DEF TickInv, CountCovers, TickTyped, ResumeRec
  <2>2. CASE a
    <3>1. Cardinality(OwnActive') <= Cardinality(OwnActive) + 1 /\ Cardinality(OwnActive') \in Nat
      <4>1. \A x \in Resumables \ {t} : entry'[x] = entry[x]
        BY <1>4, <2>2 DEF TickInv, TickTyped
      <4> QED
        BY <1>0, <4>1, OwnGrowsByOne
    <3> QED
      BY <1>0, <1>2, <2>1, <2>2, <3>1 DEF CountCovers, Taken
  <2>3. CASE ~a
    <3>1. OwnActive' = OwnActive
      BY <1>4, <2>3 DEF OwnActive, ActiveRow
    <3> QED
      BY <1>0, <1>2, <2>1, <2>3, <3>1 DEF CountCovers, Taken
  <2> QED
    BY <2>2, <2>3
<1>9. RefusalsCovered'
  <2>1. \A x \in Resumables : refusals[x] <= letter[x].count + upsets
    BY <1>0 DEF TickInv, RefusalsCovered, JustRefused
  <2>2. letter[t].dead => refusals[t] + 1 <= letter[t].count + upsets
    BY <1>0 DEF TickInv, RefusalsCovered
  <2> QED
    BY <1>0, <1>2, <1>5, <2>1, <2>2 DEF RefusalsCovered, Taken, JustRefused
<1>10. DeadIsRefused'
  <2> SUFFICES ASSUME upsets = 0 PROVE DeadIsRefused'
    BY <1>0 DEF DeadIsRefused
  <2>1. ~letter[t].dead /\ \A x \in Resumables : letter[x].count <= refusals[x]
    BY <1>0 DEF TickInv, DeadIsRefused, Taken
  <2> QED
    BY <1>0, <1>2, <1>5, <2>1 DEF DeadIsRefused, Taken, JustRefused
<1> QED
  BY <1>6, <1>7, <1>8, <1>9, <1>10 DEF TickInv

\* The writing of the counter file and, at the limit, of the dead letter keeps it.
LEMMA RecordKeeps ==
  ASSUME TickInv, ResumeRecords
  PROVE  TickInv'
<1> USE ReservedTyped, OwnFinite
<1> DEFINE t == resume.next
           c == IF resume.accepted /\ resume.count # Unknown THEN resume.count + 1 ELSE resume.count
           l == Recorded(letter[t], resume.accepted)
<1>0. /\ resume.pc = "record" /\ t \in Resumables
      /\ upsets \in Nat /\ UNCHANGED <<entry, refusals>>
      /\ resume.count \in Nat
      /\ \A x \in Resumables : refusals[x] \in Nat /\ letter[x].count \in Nat
  BY DEF TickInv, TickTyped, ResumeRecords, ResumeRec
<1>1. /\ resume' = [resume EXCEPT !.pc = "look", !.next = @ + 1, !.accepted = FALSE, !.count = c]
      /\ \/ upsets' = upsets /\ letter' = [letter EXCEPT ![t] = l]
         \/ upsets' = upsets + 1 /\ UNCHANGED letter
  BY DEF ResumeRecords, Smooth, Upset
<1>2. c \in Nat
  BY <1>0
<1> HIDE DEF c
<1>3. /\ resume' \in ResumeRec /\ resume'.pc = "look" /\ ~resume'.accepted
      /\ resume'.next = t + 1 /\ resume'.count = c
  <2>1. t + 1 \in Nat /\ resume \in ResumeRec
    BY <1>0 DEF Resumables, TickInv, TickTyped
  <2>2. PICK no \in BOOLEAN : ~no /\ resume' =
           [resume EXCEPT !.pc = "look", !.next = t + 1, !.accepted = no, !.count = c]
    BY <1>1
  <2> QED
    BY <1>2, <2>1, <2>2 DEF ResumeRec
<1>4. /\ l.count \in Nat /\ l.count <= MaxRejections /\ l \in [count : Nat, dead : BOOLEAN]
      /\ l.dead <=> l.count = MaxRejections
      /\ resume.accepted => l.count = 0
      /\ ~resume.accepted /\ letter[t].dead => l.count = letter[t].count
      /\ ~resume.accepted /\ ~letter[t].dead => l.count = letter[t].count + 1
  <2>1. /\ letter[t] \in [count : Nat, dead : BOOLEAN] /\ letter[t].count <= MaxRejections
        /\ letter[t].dead <=> letter[t].count = MaxRejections
    BY <1>0 DEF TickInv, TickTyped, DeadWhenFull
  <2>2. CASE resume.accepted
    <3>1. l = [count |-> 0, dead |-> FALSE]
      BY <2>2 DEF Recorded
    <3>2. [count |-> 0, dead |-> FALSE] \in [count : Nat, dead : BOOLEAN]
      OBVIOUS
    <3>3. l.count = 0 /\ ~l.dead
      <4>1. \A e \in Nat, b \in BOOLEAN : [count |-> e, dead |-> b].count = e
                                         /\ [count |-> e, dead |-> b].dead = b
        OBVIOUS
      <4>2. 0 \in Nat /\ FALSE \in BOOLEAN
        OBVIOUS
      <4> QED
        BY <3>1, <4>1, <4>2, Zenon
    <3>4. l \in [count : Nat, dead : BOOLEAN]
      BY <3>1, <3>2
    <3> HIDE DEF l
    <3> QED
      BY <2>2, <3>3, <3>4
  <2>3. CASE ~resume.accepted /\ letter[t].dead
    BY <2>1, <2>3 DEF Recorded
  <2>4. CASE ~resume.accepted /\ ~letter[t].dead
    <3> DEFINE d == letter[t].count + 1 >= MaxRejections
               k == letter[t].count + 1
    <3>1. l = [count |-> k, dead |-> d]
      BY <2>4 DEF Recorded
    <3>2. k \in Nat /\ d \in BOOLEAN /\ k <= MaxRejections /\ (d <=> k = MaxRejections)
      BY <1>0, <2>1, <2>4
    <3> HIDE DEF k, d
    <3>3. l.count = k /\ l.dead = d /\ l \in [count : Nat, dead : BOOLEAN]
      BY <3>1, <3>2
    <3> QED
      BY <2>4, <3>2, <3>3 DEF k
  <2> QED
    BY <2>2, <2>3, <2>4
<1> HIDE DEF l
<1>5. TickTyped'
  <2>1. letter' \in [Resumables -> [count : Nat, dead : BOOLEAN]]
    BY <1>1, <1>4 DEF TickInv, TickTyped
  <2>2. upsets' \in Nat
    BY <1>0, <1>1
  <2>3. t + 1 >= 1 /\ t + 1 <= NumResumable + 1
    BY <1>0 DEF Resumables
  <2> QED
    BY <1>0, <1>1, <1>3, <2>1, <2>2, <2>3 DEF TickInv, TickTyped, Resumables
<1>6. \A x \in Resumables : letter'[x] = IF x = t /\ upsets' = upsets THEN l ELSE letter[x]
  <2>1. upsets + 1 # upsets
    BY <1>0
  <2> QED
    BY <1>1, <2>1 DEF TickInv, TickTyped
<1>7. DeadWhenFull'
  BY <1>4, <1>6 DEF TickInv, DeadWhenFull
<1>8. CountCovers'
  <2> SUFFICES ASSUME upsets' = 0 PROVE CountCovers'
    BY DEF CountCovers
  <2>1. upsets = 0
    BY <1>0, <1>1
  <2>2. OwnActive' = OwnActive
    BY <1>0 DEF OwnActive, ActiveRow
  <2>3. /\ resume.count <= NumResumable + t - 1 /\ resume.count <= ReservedMax
        /\ Cardinality(OwnActive) <= ReservedMax
        /\ ~resume.accepted => Cardinality(OwnActive) <= resume.count
        /\ resume.accepted => /\ Cardinality(OwnActive) <= resume.count + 1
                              /\ resume.count < ReservedMax
    BY <1>0, <2>1 DEF TickInv, CountCovers, Taken
  <2>4. t <= NumResumable /\ t \in Nat
    BY <1>0 DEF Resumables
  <2>5. c = IF resume.accepted THEN resume.count + 1 ELSE resume.count
    BY <2>3, <2>4, <1>0 DEF c
  <2> QED
    BY <1>0, <1>3, <2>2, <2>3, <2>4, <2>5 DEF CountCovers, Taken
<1>9. RefusalsCovered'
  <2> SUFFICES ASSUME NEW x \in Resumables
               PROVE  refusals[x] <= letter'[x].count + upsets'
    BY <1>0, <1>3 DEF RefusalsCovered, Taken, JustRefused
  <2>1. CASE x # t
    <3>1. refusals[x] <= letter[x].count + upsets
      BY <2>1 DEF TickInv, RefusalsCovered, JustRefused
    <3> QED
      BY <1>0, <1>1, <1>6, <2>1, <3>1
  <2>2. CASE x = t /\ resume.accepted
    <3>1. refusals[t] = 0
      BY <1>0, <2>2 DEF TickInv, RefusalsCovered, Taken
    <3> QED
      BY <1>0, <1>1, <1>4, <1>6, <2>2, <3>1
  <2>3. CASE x = t /\ ~resume.accepted /\ letter[t].dead
    <3>1. refusals[x] <= letter[x].count + upsets
      BY <2>3 DEF TickInv, RefusalsCovered
    <3> QED
      BY <1>0, <1>1, <1>4, <1>6, <2>3, <3>1
  <2>4. CASE x = t /\ ~resume.accepted /\ ~letter[t].dead
    <3>1. refusals[x] <= letter[x].count + upsets + 1
      BY <1>0, <2>4 DEF TickInv, RefusalsCovered, JustRefused
    <3> QED
      BY <1>0, <1>1, <1>4, <1>6, <2>4, <3>1
  <2> QED
    BY <2>1, <2>2, <2>3, <2>4
<1>10. DeadIsRefused'
  <2> SUFFICES ASSUME upsets' = 0, NEW x \in Resumables
               PROVE  letter'[x].count <= refusals[x]
    BY <1>0, <1>3 DEF DeadIsRefused, Taken, JustRefused
  <2>1. upsets = 0 /\ upsets' = upsets
    BY <1>0, <1>1
  <2>2. /\ ~(resume.accepted /\ t = x) => letter[x].count <= refusals[x]
        /\ ~resume.accepted /\ x = t => letter[x].count + 1 <= refusals[x]
    BY <1>0, <2>1 DEF TickInv, DeadIsRefused, Taken, JustRefused
  <2> QED
    BY <1>0, <1>4, <1>6, <2>1, <2>2
<1> QED
  BY <1>5, <1>7, <1>8, <1>9, <1>10 DEF TickInv

\* The invariant of the component is kept.
LEMMA TickKeeps == ResumeSpec => []TickInv
<1>1. TickInv /\ [ResumeNext]_rvars => TickInv'
  <2> SUFFICES ASSUME TickInv, [ResumeNext]_rvars PROVE TickInv'
    OBVIOUS
  <2> USE ReservedTyped, OwnFinite
  <2>0. /\ upsets \in Nat /\ resume \in ResumeRec
        /\ resume.next \in Nat /\ resume.count \in Nat
        /\ resume.next >= 1 /\ resume.next <= NumResumable + 1
    BY DEF TickInv, TickTyped, ResumeRec
  <2>1. CASE ResumeBegins
    <3>1. PICK k \in Nat :
            /\ resume' = [NoTick EXCEPT !.pc = "look", !.count = k]
            /\ \/ Smooth /\ k = Cardinality(OwnActive)
               \/ Upset /\ k = Unknown
      BY <2>1 DEF ResumeBegins
    <3> DEFINE r == [NoTick EXCEPT !.pc = "look", !.count = k]
    <3>2. r \in ResumeRec /\ r.pc = "look" /\ r.next = 1 /\ r.count = k
      BY NoTickTyped DEF ResumeRec
    <3> HIDE DEF r
    <3>3. upsets' \in Nat /\ upsets' >= upsets
      BY <2>0, <3>1 DEF Smooth, Upset
    <3>4. ASSUME upsets' = 0
          PROVE  k = Cardinality(OwnActive) /\ Cardinality(OwnActive) <= ReservedMax
      <4>1. upsets = 0 /\ k = Cardinality(OwnActive)
        BY <2>0, <3>1, <3>4 DEF Upset, Smooth
      <4> QED
        BY <4>1 DEF TickInv, CountCovers
    <3>5. UNCHANGED <<entry, letter, refusals>> /\ resume.pc = "idle" /\ resume' = r
      BY <2>1, <3>1 DEF ResumeBegins, r
    <3>6. upsets' = 0 => r.count <= NumResumable + r.next - 1
      BY <3>2, <3>4
    <3> QED
      BY <2>0, <3>2, <3>3, <3>4, <3>5, <3>6, TickMoves
  <2>2. CASE ResumeSkips
    <3> DEFINE r == [resume EXCEPT !.pc = "look", !.next = @ + 1]
    <3>1. /\ r \in ResumeRec /\ r.pc = "look" /\ r.next = resume.next + 1
          /\ r.count = resume.count
      <4>1. resume.next + 1 \in Nat
        BY <2>0
      <4> QED
        BY <2>0, <4>1 DEF ResumeRec
    <3>2. /\ UNCHANGED <<entry, letter, refusals, upsets>> /\ resume.pc = "look"
          /\ resume.next <= NumResumable /\ resume' = r
      BY <2>2 DEF ResumeSkips, Looked
    <3> HIDE DEF r
    <3>3. upsets' = 0 => /\ r.count <= NumResumable + r.next - 1
                         /\ r.count <= ReservedMax
                         /\ Cardinality(OwnActive) <= r.count
      BY <2>0, <3>1, <3>2 DEF TickInv, CountCovers
    <3> QED
      BY <2>0, <3>1, <3>2, <3>3, TickMoves
  <2>3. CASE ResumeDecides
    <3> DEFINE r == [resume EXCEPT !.pc = "submit"]
               t == resume.next
    <3>1. /\ r \in ResumeRec /\ r.pc = "submit" /\ r.next = resume.next
          /\ r.count = resume.count
      BY <2>0 DEF ResumeRec
    <3>2. /\ UNCHANGED <<entry, letter, refusals>> /\ resume.pc = "look"
          /\ resume.next <= NumResumable /\ WithinReserve
          /\ IF letter[t].dead \/ ActiveRow(t) THEN Upset ELSE Smooth
      BY <2>3 DEF ResumeDecides
    <3>3. resume' = r
      <4>1. resume.next \in Nat
        BY <2>0
      <4> QED
        BY <2>3, <4>1, <2>0 DEF ResumeDecides, Looked, ResumeRec
    <3> HIDE DEF r
    <3>4. /\ upsets' \in Nat /\ upsets' >= upsets
          /\ letter[t].dead => upsets' >= upsets + 1
      BY <2>0, <3>2 DEF Upset, Smooth
    <3>5. ASSUME upsets' = 0
          PROVE  /\ ~letter[t].dead
                 /\ r.count <= NumResumable + r.next - 1
                 /\ r.count <= ReservedMax
                 /\ Cardinality(OwnActive) <= r.count
                 /\ r.count < ReservedMax
      <4>1. upsets = 0 /\ ~letter[t].dead
        BY <2>0, <3>4, <3>5
      <4>2. /\ r.count <= NumResumable + r.next - 1
            /\ r.count <= ReservedMax
            /\ Cardinality(OwnActive) <= r.count
        BY <2>0, <3>1, <3>2, <4>1 DEF TickInv, CountCovers
      <4>3. resume.count # Unknown
        BY <2>0, <3>1, <3>2, <4>2
      <4> QED
        BY <3>1, <3>2, <4>1, <4>2, <4>3 DEF WithinReserve
    <3>6. t \in Resumables
      BY <2>0, <3>2 DEF Resumables
    <3> QED
      BY <2>0, <3>1, <3>2, <3>3, <3>4, <3>5, <3>6, TickMoves
  <2>4. CASE SubmitAccepted \/ SubmitTurnedDown
    BY <2>4, SubmitKeeps
  <2>5. CASE ResumeRecords
    BY <2>5, RecordKeeps
  <2>6. CASE ResumeEnds \/ ResumeKilled
    <3>1. /\ resume' = NoTick /\ UNCHANGED <<entry, letter, refusals>>
          /\ upsets' \in Nat /\ upsets' >= upsets
          /\ resume.pc = "record" => upsets' >= upsets + 1
      BY <2>0, <2>6 DEF ResumeEnds, ResumeKilled, Upset
    <3> QED
      BY <3>1, <2>0, NoTickTyped, TickMoves
  <2>7. ASSUME NEW t \in Resumables, StartQueued(t) PROVE TickInv'
    <3>1. /\ entry' = [entry EXCEPT ![t].status = "running"] /\ entry[t].status = "queued"
          /\ UNCHANGED <<letter, resume, refusals, upsets>>
      BY <2>7 DEF StartQueued
    <3>2. entry' \in [Resumables -> [status : {"closed", "queued", "running"}, own : BOOLEAN]]
      BY <3>1 DEF TickInv, TickTyped
    <3>3. \A x \in Resumables : entry'[x].status # "closed" /\ entry'[x].own
                                => ActiveRow(x) /\ entry[x].own
      BY <3>1 DEF TickInv, TickTyped, ActiveRow
    <3> QED
      BY <2>0, <3>1, <3>2, <3>3, OwnShrinks, AroundTheTick
  <2>8. ASSUME NEW t \in Resumables, RowSettled(t) PROVE TickInv'
    <3>1. PICK s \in {"closed", "queued"} : entry' = [entry EXCEPT ![t].status = s]
      BY <2>8 DEF RowSettled
    <3>2. entry' \in [Resumables -> [status : {"closed", "queued", "running"}, own : BOOLEAN]]
      BY <3>1 DEF TickInv, TickTyped
    <3>3. entry[t].status = "running" /\ UNCHANGED <<letter, resume, refusals, upsets>>
      BY <2>8 DEF RowSettled
    <3>4. \A x \in Resumables : entry'[x].status # "closed" /\ entry'[x].own
                                => ActiveRow(x) /\ entry[x].own
      BY <3>1, <3>3 DEF TickInv, TickTyped, ActiveRow
    <3> QED
      BY <2>0, <3>2, <3>3, <3>4, OwnShrinks, AroundTheTick
  <2>9. ASSUME NEW t \in Resumables, OthersSubmit(t) PROVE TickInv'
    <3> DEFINE row == [status |-> "queued", own |-> FALSE]
    <3>1. row \in [status : {"closed", "queued", "running"}, own : BOOLEAN] /\ ~row.own
      OBVIOUS
    <3>2. entry' = [entry EXCEPT ![t] = row] /\ UNCHANGED <<letter, resume, refusals, upsets>>
      BY <2>9 DEF OthersSubmit
    <3> HIDE DEF row
    <3>3. entry' \in [Resumables -> [status : {"closed", "queued", "running"}, own : BOOLEAN]]
      BY <3>1, <3>2 DEF TickInv, TickTyped
    <3>4. \A x \in Resumables : entry'[x].status # "closed" /\ entry'[x].own
                                => ActiveRow(x) /\ entry[x].own
      BY <3>1, <3>2 DEF TickInv, TickTyped, ActiveRow
    <3> QED
      BY <2>0, <3>2, <3>3, <3>4, OwnShrinks, AroundTheTick
  <2>10. ASSUME NEW t \in Resumables, ClosedRowReset(t) PROVE TickInv'
    <3>1. /\ entry' = [entry EXCEPT ![t].status = "queued"] /\ upsets' = upsets + 1
          /\ UNCHANGED <<letter, resume, refusals>>
      BY <2>10 DEF ClosedRowReset, Upset
    <3>2. entry' \in [Resumables -> [status : {"closed", "queued", "running"}, own : BOOLEAN]]
      BY <3>1 DEF TickInv, TickTyped
    <3> QED
      BY <2>0, <3>1, <3>2, AroundTheTick
  <2>11. ASSUME NEW t \in Resumables, UnitStops(t) \/ UNCHANGED rvars PROVE TickInv'
    <3>1. UNCHANGED <<entry, letter, resume, refusals, upsets>>
      BY <2>11 DEF UnitStops, rvars
    <3>2. entry' \in [Resumables -> [status : {"closed", "queued", "running"}, own : BOOLEAN]]
      BY <3>1 DEF TickInv, TickTyped
    <3>3. OwnActive' = OwnActive
      BY <3>1 DEF OwnActive, ActiveRow
    <3> QED
      BY <2>0, <3>1, <3>2, <3>3, AroundTheTick
  <2>12. 1 \in Resumables
    BY DEF Resumables
  <2> QED
    BY <2>1, <2>2, <2>3, <2>4, <2>5, <2>6, <2>7, <2>8, <2>9, <2>10, <2>11, <2>12 DEF ResumeNext
<1> QED  BY TickInitially, <1>1, PTL DEF ResumeSpec

\* The resumption of workers never takes more of the slots than its reserve, and a task is in
\* the dead letter file exactly when it was refused to the limit (resume-pending-workers).
THEOREM ResumesWithinReserve == ResumeSpec => []ResumesBounded
<1>1. TickInv => ResumesBounded
  <2> SUFFICES ASSUME TickInv PROVE ReserveKept /\ RefusalsBounded
    BY DEF ResumesBounded
  <2>1. ReserveKept
    BY DEF TickInv, CountCovers, ReserveKept
  <2>2. ASSUME NEW t \in Resumables
        PROVE  /\ refusals[t] <= MaxRejections + upsets
               /\ upsets = 0 /\ letter[t].dead => refusals[t] >= MaxRejections
    <3> USE ReservedTyped
    <3>1. /\ refusals[t] \in Nat /\ letter[t].count \in Nat /\ upsets \in Nat
          /\ letter[t].count <= MaxRejections
          /\ letter[t].dead <=> letter[t].count = MaxRejections
      BY DEF TickInv, TickTyped, DeadWhenFull
    <3>2. /\ ~letter[t].dead => refusals[t] <= letter[t].count + upsets + 1
          /\ letter[t].dead => refusals[t] <= letter[t].count + upsets
      <4>1. ~JustRefused(t) => refusals[t] <= letter[t].count + upsets
        BY DEF TickInv, RefusalsCovered
      <4>2. JustRefused(t) /\ ~letter[t].dead => refusals[t] <= letter[t].count + upsets + 1
        BY DEF TickInv, RefusalsCovered
      <4>3. letter[t].dead => refusals[t] <= letter[t].count + upsets
        BY DEF TickInv, RefusalsCovered
      <4> QED
        BY <3>1, <4>1, <4>2, <4>3
    <3>3. refusals[t] <= MaxRejections + upsets
      BY <3>1, <3>2
    <3>4. upsets = 0 /\ letter[t].dead => letter[t].count <= refusals[t]
      BY DEF TickInv, DeadIsRefused, Taken
    <3> QED
      BY <3>1, <3>3, <3>4
  <2> QED
    BY <2>1, <2>2 DEF RefusalsBounded
<1> QED  BY TickKeeps, <1>1, PTL

\* What the resuming tick counts, and what else there is of its tasks.
ResumeBounded ==
    /\ interrupted \in [Resumables -> BOOLEAN]
    /\ unit \in [Resumables -> BOOLEAN]
    /\ resume.count = Unknown \/ resume.count <= NumResumable + resume.next - 1
    /\ refusals \in [Resumables -> 0 .. MaxRefusals]
    /\ upsets \in 0 .. MaxUpsets

\* The tick's count is unknown or at most two for each task, and refusals end in a dead letter.
LEMMA ResumeTyped == ResumeSpec => []ResumeTypeOK
<1> USE ReservedTyped, ResumeAssumption
<1>1. ResumeInit => ResumeBounded
  BY DEF ResumeInit, ResumeBounded, NoTick
<1>2. TickInv /\ ResumeBounded => ResumeTypeOK
  <2> SUFFICES ASSUME TickInv, ResumeBounded PROVE ResumeTypeOK
    OBVIOUS
  <2>1. letter \in [Resumables -> [count : 0 .. MaxRejections, dead : BOOLEAN]]
    BY DEF TickInv, TickTyped, DeadWhenFull
  <2>2. resume \in [pc : {"idle", "look", "submit", "record"}, next : 1 .. NumResumable + 1,
                    count : 0 .. Unknown, accepted : BOOLEAN]
    <3>1. resume.count \in 0 .. Unknown
      BY DEF TickInv, TickTyped, ResumeRec, ResumeBounded, Unknown
    <3>2. resume.next \in 1 .. NumResumable + 1
      BY DEF TickInv, TickTyped, ResumeRec
    <3> QED  BY <3>1, <3>2 DEF TickInv, TickTyped, ResumeRec
  <2> QED  BY <2>1, <2>2 DEF TickInv, TickTyped, ResumeBounded, ResumeTypeOK
<1>3. TickInv /\ ResumeBounded /\ [ResumeNext]_rvars => ResumeBounded'
  <2> SUFFICES ASSUME TickInv, ResumeBounded, [ResumeNext]_rvars PROVE ResumeBounded'
    OBVIOUS
  <2> USE DEF ResumeBounded
  <2>1. interrupted' \in [Resumables -> BOOLEAN]
    <3>1. ASSUME NEW t \in Resumables, UnitStops(t) PROVE interrupted' \in [Resumables -> BOOLEAN]
      <4>1. PICK b \in BOOLEAN : interrupted' = [interrupted EXCEPT ![t] = b]
        BY <3>1, Zenon DEF UnitStops
      <4> QED  BY <4>1, Zenon
    <3>2. CASE \A t \in Resumables : ~UnitStops(t)
      BY <3>2 DEF ResumeNext, rvars, ResumeBegins, ResumeSkips, ResumeDecides, SubmitAccepted,
         SubmitTurnedDown, ResumeRecords, ResumeEnds, ResumeKilled, StartQueued, RowSettled,
         OthersSubmit, ClosedRowReset
    <3> QED  BY <3>1, <3>2
  <2>2. unit' \in [Resumables -> BOOLEAN]
    <3>1. ASSUME NEW t \in Resumables, StartQueued(t) \/ UnitStops(t)
          PROVE  unit' \in [Resumables -> BOOLEAN]
      <4>1. PICK b \in BOOLEAN : unit' = [unit EXCEPT ![t] = b]
        BY <3>1, Zenon DEF StartQueued, UnitStops
      <4> QED  BY <4>1, Zenon
    <3>2. CASE \A t \in Resumables : ~StartQueued(t) /\ ~UnitStops(t)
      BY <3>2 DEF ResumeNext, rvars, ResumeBegins, ResumeSkips, ResumeDecides, SubmitAccepted,
         SubmitTurnedDown, ResumeRecords, ResumeEnds, ResumeKilled, RowSettled, OthersSubmit,
         ClosedRowReset
    <3> QED  BY <3>1, <3>2
  <2>3. refusals' \in [Resumables -> 0 .. MaxRefusals]
    <3>1. CASE SubmitAccepted \/ SubmitTurnedDown
      BY <3>1 DEF SubmitAccepted, SubmitTurnedDown
    <3>2. CASE UNCHANGED refusals
      BY <3>2
    <3> QED
      BY <3>1, <3>2 DEF ResumeNext, rvars, ResumeBegins, ResumeSkips, ResumeDecides, ResumeRecords,
         ResumeEnds, ResumeKilled, StartQueued, UnitStops, RowSettled, OthersSubmit, ClosedRowReset
  <2>4. upsets' \in 0 .. MaxUpsets
    <3>1. Upset \/ UNCHANGED upsets
      BY DEF ResumeNext, rvars, ResumeBegins, ResumeSkips, ResumeDecides, SubmitAccepted,
         SubmitTurnedDown, ResumeRecords, ResumeEnds, ResumeKilled, StartQueued, UnitStops,
         RowSettled, OthersSubmit, ClosedRowReset, Smooth
    <3> QED  BY <3>1 DEF Upset
  <2>5. (resume.count = Unknown \/ resume.count <= NumResumable + resume.next - 1)'
    <3> USE DEF TickInv, TickTyped, ResumeRec, NoTick
    <3>1. CASE ResumeBegins
      <4>1. IsFiniteSet(Resumables) /\ Cardinality(Resumables) = NumResumable
        BY FS_Interval DEF Resumables
      <4>2. Cardinality(OwnActive) \in Nat /\ Cardinality(OwnActive) <= NumResumable
        BY <4>1, OwnFinite, FS_Subset, FS_CardinalityType DEF OwnActive
      <4>3. PICK n \in Nat : /\ n = Unknown \/ n <= NumResumable
                             /\ resume' = [NoTick EXCEPT !.pc = "look", !.count = n]
        BY <3>1, <4>2 DEF ResumeBegins
      <4>4. resume'.count = n /\ resume'.next = 1
        BY <4>3
      <4> QED  BY <4>3, <4>4
    <3>2. CASE ResumeSkips \/ ResumeDecides
      <4>1. /\ resume'.count = resume.count
            /\ resume'.next = resume.next + 1 \/ resume'.next = resume.next
        BY <3>2 DEF ResumeSkips, ResumeDecides, Looked
      <4> QED  BY <4>1
    <3>3. CASE SubmitAccepted \/ SubmitTurnedDown
      <4>1. resume'.count = resume.count /\ resume'.next = resume.next
        BY <3>3 DEF SubmitAccepted, SubmitTurnedDown
      <4> QED  BY <4>1
    <3>4. CASE ResumeRecords
      <4>1. /\ resume'.next = resume.next + 1
            /\ resume'.count = resume.count \/ (resume.count # Unknown /\ resume'.count = resume.count + 1)
        BY <3>4 DEF ResumeRecords
      <4> QED  BY <4>1
    <3>5. CASE ResumeEnds \/ ResumeKilled
      BY <3>5 DEF ResumeEnds, ResumeKilled
    <3>6. CASE UNCHANGED resume
      BY <3>6
    <3> QED
      BY <3>1, <3>2, <3>3, <3>4, <3>5, <3>6
         DEF ResumeNext, rvars, StartQueued, UnitStops, RowSettled, OthersSubmit, ClosedRowReset
  <2> QED  BY <2>1, <2>2, <2>3, <2>4, <2>5
<1> QED
  BY <1>1, <1>2, <1>3, TickKeeps, PTL DEF ResumeSpec

-----------------------------------------------------------------------------
(* ExternalAgents *)

\* What a row that is open to external agents, and an attempt at it, may hold.
UmrRow == [there : BOOLEAN, eligible : BOOLEAN, files : 0 .. 2,
           status : {"null", "dispatched", "requeued", "pr_open", "fallen_back_internal"},
           rejects : Nat, dispatches : Nat]
AttemptRow == [of : 0 .. NumUmrs, late : BOOLEAN, files : 0 .. 2,
               status : {"unused", "dispatched", "rejected", "expired", "accepted"}]

ChannelTyped ==
    /\ umr \in [Umrs -> UmrRow]
    /\ attempt \in [Attempts -> AttemptRow]
    /\ repo \in [Attempts -> [branch : BOOLEAN, prs : Nat]]

\* The attempts at u that failed.
Strikes(u) == {d \in Attempts : attempt[d].of = u /\ attempt[d].status \in {"rejected", "expired"}}

\* The attempts that have the row.
Handed(d) == attempt[d].status \in {"dispatched", "accepted"}

\* A row is with one attempt at a time.
HandedOnce ==
    \A d, e \in Attempts : Handed(d) /\ Handed(e) /\ attempt[d].of = attempt[e].of => d = e

\* A row that an attempt has is dispatched or accepted; one it has ended is not.
HandedRows ==
    \A d \in Attempts : attempt[d].status # "unused" => attempt[d].of \in Umrs

\* attempt_count and the row's status agree with its failed attempts.
RowCounted(u) ==
    /\ umr[u].rejects = Cardinality(Strikes(u))
    /\ umr[u].rejects <= MaxAttempts
    /\ umr[u].dispatches = umr[u].rejects +
          (IF umr[u].status \in {"dispatched", "pr_open"} THEN 1 ELSE 0)
    /\ umr[u].status = "dispatched" <=> \E d \in Attempts : attempt[d].of = u /\ Live(d)
    /\ umr[u].status = "pr_open" <=>
          \E d \in Attempts : attempt[d].of = u /\ attempt[d].status = "accepted"
    /\ umr[u].status = "fallen_back_internal" <=> umr[u].rejects = MaxAttempts

RowsCounted == \A u \in Umrs : umr[u].there => RowCounted(u)

RowsInv == ChannelTyped /\ HandedOnce /\ HandedRows /\ RowsCounted

\* The submission that is being judged is of an attempt that still has the row.
SubmissionLive ==
    /\ submission \in [pc : {"idle", "gates", "stuck", "push", "pr", "record"},
                       id : 0 .. NumAttempts]
    /\ submission # NoSubmission =>
          /\ submission.pc # "idle"
          /\ submission.id \in Attempts
          /\ Live(submission.id)
          /\ umr[attempt[submission.id].of].there

\* A pull request of an attempt is the one its row names.
OnePr ==
    /\ \A d \in Attempts :
          /\ repo[d].prs <= 1
          /\ ~repo[d].branch => repo[d].prs = 0
          /\ attempt[d].status = "accepted" => repo[d].prs = 1
    /\ submission # NoSubmission =>
          /\ submission.pc # "record" => repo[submission.id].prs = 0
          /\ submission.pc = "record" => repo[submission.id].prs = 1
          /\ repo[submission.id].branch

\* A strike is counted where the attempt is ended: so what the row counts must be tied to the
\* attempts, and the submission in flight to an attempt that may still be ended.
ChannelInv == RowsInv /\ SubmissionLive /\ OnePr

\* The bounds are numbers.
LEMMA ChannelConstants ==
    /\ NumUmrs \in Nat /\ NumAttempts \in Nat /\ MaxAttempts \in Nat
    /\ NumUmrs >= 1 /\ NumAttempts >= 1 /\ MaxAttempts >= 1
BY ExternalAssumption

\* An attempt that was not made is at no row.
LEMMA UnusedRow == /\ Unused \in AttemptRow /\ Unused.status = "unused"
                   /\ NoSubmission.pc = "idle"
                   /\ NoSubmission \in [pc : {"idle", "gates", "stuck", "push", "pr", "record"},
                                        id : 0 .. NumAttempts]
BY ChannelConstants DEF Unused, AttemptRow, NoSubmission

\* Failed attempts can be counted.
LEMMA StrikesFinite == \A u : IsFiniteSet(Strikes(u)) /\ Cardinality(Strikes(u)) \in Nat
<1>1. IsFiniteSet(Attempts)
  BY ChannelConstants, FS_Interval DEF Attempts
<1>2. \A u : Strikes(u) \subseteq Attempts
  BY DEF Strikes
<1> QED
  BY <1>1, <1>2, FS_Subset, FS_CardinalityType

\* What a strike leaves of a row: pending again, or blocked at the limit.
LEMMA StruckRow ==
  ASSUME NEW r \in UmrRow
  PROVE  /\ Struck(r) \in UmrRow
         /\ Struck(r).there = r.there /\ Struck(r).dispatches = r.dispatches
         /\ Struck(r).rejects = r.rejects + 1
         /\ Struck(r).status = IF r.rejects + 1 < MaxAttempts THEN "requeued"
                               ELSE "fallen_back_internal"
<1> DEFINE k == r.rejects + 1
<1>1. k \in Nat
  BY DEF UmrRow
<1>2. \E no \in BOOLEAN : /\ ~no
                          /\ Struck(r) = IF k < MaxAttempts
                                THEN [r EXCEPT !.rejects = k, !.status = "requeued"]
                                ELSE [r EXCEPT !.rejects = k, !.status = "fallen_back_internal",
                                               !.eligible = no]
  BY DEF Struck
<1> HIDE DEF k
<1> QED
  BY <1>1, <1>2 DEF UmrRow, k

\* A strike more is counted.
LEMMA StruckOutAtLimit ==
  ASSUME NEW r \in UmrRow, r.rejects < MaxAttempts
  PROVE  /\ Struck(r).status \in {"requeued", "fallen_back_internal"}
         /\ Struck(r).status = "fallen_back_internal" <=> Struck(r).rejects = MaxAttempts
<1>1. r.rejects \in Nat
  BY DEF UmrRow
<1>2. CASE r.rejects + 1 < MaxAttempts
  BY <1>1, <1>2, StruckRow, ChannelConstants
<1>3. CASE r.rejects + 1 = MaxAttempts
  BY <1>1, <1>3, StruckRow, ChannelConstants
<1> QED
  BY <1>1, <1>2, <1>3, ChannelConstants

\* A row that awaits a reply is not struck out.
LEMMA AwaitedInChannel ==
  ASSUME RowsInv, NEW d \in Attempts, Live(d), umr[attempt[d].of].there
  PROVE  LET u == attempt[d].of
         IN  u \in Umrs /\ umr[u].status = "dispatched" /\ umr[u].rejects < MaxAttempts
<1> DEFINE u == attempt[d].of
<1>1. u \in Umrs /\ umr[u].rejects \in Nat
  BY DEF RowsInv, HandedRows, ChannelTyped, UmrRow, Live
<1>2. RowCounted(u)
  BY <1>1 DEF RowsInv, RowsCounted
<1>3. umr[u].status = "dispatched"
  BY <1>2 DEF RowCounted
<1>4. umr[u].rejects <= MaxAttempts /\ umr[u].rejects # MaxAttempts
  BY <1>2, <1>3 DEF RowCounted
<1> QED
  BY <1>1, <1>3, <1>4, ChannelConstants

\* Attempts that are struck out, each on its row.
LEMMA StrikesKeepRows ==
  ASSUME RowsInv, NEW L \in SUBSET {d \in Attempts : Live(d)},
         NEW s \in {"rejected", "expired"},
         attempt' = [d \in Attempts |->
                       IF d \in L THEN [attempt[d] EXCEPT !.status = s] ELSE attempt[d]],
         umr' = [u \in Umrs |-> IF umr[u].there /\ \E d \in L : attempt[d].of = u
                                THEN Struck(umr[u]) ELSE umr[u]],
         repo' \in [Attempts -> [branch : BOOLEAN, prs : Nat]]
  PROVE  RowsInv'
<1> USE ChannelConstants
<1>1. \A d \in Attempts : /\ attempt'[d] \in AttemptRow
                          /\ attempt'[d].of = attempt[d].of
                          /\ attempt'[d].status = IF d \in L THEN s ELSE attempt[d].status
  BY DEF RowsInv, ChannelTyped, AttemptRow
<1>2. ChannelTyped'
  <2>1. umr' \in [Umrs -> UmrRow]
    BY StruckRow DEF RowsInv, ChannelTyped
  <2>2. attempt' \in [Attempts -> AttemptRow]
    BY <1>1
  <2> QED
    BY <2>1, <2>2 DEF RowsInv, ChannelTyped
<1>3. HandedOnce'
  <2>1. \A d \in Attempts : Handed(d)' => Handed(d)
    BY <1>1 DEF Handed
  <2> QED
    BY <1>1, <2>1 DEF RowsInv, HandedOnce
<1>4. HandedRows'
  BY <1>1 DEF RowsInv, HandedRows, Live
<1>5. RowsCounted'
  <2> SUFFICES ASSUME NEW u \in Umrs, umr'[u].there
               PROVE  RowCounted(u)'
    BY DEF RowsCounted
  <2>1. umr[u] \in UmrRow /\ umr[u].rejects \in Nat /\ umr[u].dispatches \in Nat
    BY DEF RowsInv, ChannelTyped, UmrRow
  <2>2. umr[u].there
    BY <2>1, StruckRow
  <2>3. RowCounted(u)
    BY <2>2 DEF RowsInv, RowsCounted
  <2>4. CASE \E d \in L : attempt[d].of = u
    <3>1. PICK d \in L : attempt[d].of = u
      BY <2>4
    <3>2. d \in Attempts /\ Live(d) /\ umr[u].status = "dispatched"
      BY <2>3, <3>1 DEF RowCounted
    <3>3. \A e \in Attempts : e # d /\ attempt[e].of = u => ~Handed(e)
      BY <3>1, <3>2 DEF RowsInv, HandedOnce, Handed, Live
    <3>4. umr'[u] = Struck(umr[u])
      BY <2>2, <2>4
    <3>5. umr[u].rejects < MaxAttempts
      BY <2>2, <3>1, <3>2, AwaitedInChannel
    <3>6. /\ umr'[u].rejects = umr[u].rejects + 1
          /\ umr'[u].dispatches = umr[u].dispatches
          /\ umr'[u].status = IF umr[u].rejects + 1 < MaxAttempts THEN "requeued"
                              ELSE "fallen_back_internal"
      BY <2>1, <3>4, StruckRow
    <3>7. Strikes(u)' = Strikes(u) \cup {d} /\ d \notin Strikes(u)
      BY <1>1, <3>1, <3>2, <3>3 DEF Strikes, Live, Handed
    <3>8. Cardinality(Strikes(u)') = Cardinality(Strikes(u)) + 1
      BY <3>7, StrikesFinite, FS_AddElement
    <3>9. ~\E e \in Attempts : attempt'[e].of = u /\ attempt'[e].status \in {"dispatched", "accepted"}
      BY <1>1, <3>1, <3>3 DEF Handed
    <3>10. umr'[u].rejects = Cardinality(Strikes(u)')
      BY <2>3, <3>6, <3>8 DEF RowCounted
    <3>11. umr[u].dispatches = umr[u].rejects + 1
      BY <2>3, <3>2 DEF RowCounted
    <3>12. umr'[u].status = "fallen_back_internal" <=> umr'[u].rejects = MaxAttempts
      BY <2>1, <3>4, <3>5, StruckOutAtLimit
    <3>13. umr'[u].status \in {"requeued", "fallen_back_internal"}
      BY <2>1, <3>4, <3>5, StruckOutAtLimit
    <3> QED
      <4>1. umr'[u].rejects <= MaxAttempts
        BY <2>1, <3>5, <3>6
      <4>2. umr'[u].dispatches = umr'[u].rejects
        BY <3>6, <3>11
      <4>3. umr'[u].status \notin {"dispatched", "pr_open"}
        BY <3>13
      <4>4. umr'[u].dispatches = umr'[u].rejects +
               (IF umr'[u].status \in {"dispatched", "pr_open"} THEN 1 ELSE 0)
        BY <2>1, <3>6, <4>2, <4>3
      <4> QED
        BY <3>9, <3>10, <3>12, <4>1, <4>3, <4>4 DEF Live, RowCounted
  <2>5. CASE ~\E d \in L : attempt[d].of = u
    <3>1. umr'[u] = umr[u]
      BY <2>5
    <3>2. \A d \in Attempts : attempt[d].of = u => attempt'[d].status = attempt[d].status
      BY <1>1, <2>5
    <3>3. Strikes(u)' = Strikes(u)
      BY <1>1, <3>2 DEF Strikes
    <3> QED
      BY <1>1, <2>3, <3>1, <3>2, <3>3 DEF Live, RowCounted
  <2> QED
    BY <2>4, <2>5
<1> QED
  BY <1>2, <1>3, <1>4, <1>5 DEF RowsInv

\* A reply is refused: one attempt is struck out.
LEMMA RejectKeepsRows ==
  ASSUME RowsInv, NEW d \in Attempts, Live(d), umr[attempt[d].of].there,
         Reject(d), repo' \in [Attempts -> [branch : BOOLEAN, prs : Nat]]
  PROVE  RowsInv'
<1> DEFINE u == attempt[d].of
<1>1. u \in Umrs /\ attempt[d] \in AttemptRow /\ umr[u] \in UmrRow
  BY DEF RowsInv, HandedRows, ChannelTyped, Live
<1>2. attempt' = [e \in Attempts |-> IF e \in {d} THEN [attempt[e] EXCEPT !.status = "rejected"]
                                     ELSE attempt[e]]
  BY DEF Reject, RowsInv, ChannelTyped
<1>3. umr' = [w \in Umrs |-> IF umr[w].there /\ \E e \in {d} : attempt[e].of = w
                             THEN Struck(umr[w]) ELSE umr[w]]
  BY <1>1 DEF Reject, RowsInv, ChannelTyped
<1>4. {d} \in SUBSET {e \in Attempts : Live(e)}
  OBVIOUS
<1> QED
  BY <1>2, <1>3, <1>4, StrikesKeepRows

\* Steps that change no status of an attempt.
LEMMA RowsKept ==
  ASSUME RowsInv, ChannelTyped',
         \A d \in Attempts : /\ attempt'[d].of = attempt[d].of
                             /\ attempt'[d].status = attempt[d].status,
         \A u \in Umrs : umr'[u].there =>
            /\ umr[u].there
            /\ umr'[u].rejects = umr[u].rejects
            /\ umr'[u].dispatches = umr[u].dispatches
            /\ umr'[u].status = umr[u].status
  PROVE  RowsInv'
<1>1. \A u \in Umrs : Strikes(u)' = Strikes(u)
  BY DEF Strikes
<1>2. HandedOnce' /\ HandedRows'
  BY DEF RowsInv, HandedOnce, HandedRows, Handed
<1>3. RowsCounted'
  <2> SUFFICES ASSUME NEW u \in Umrs, umr'[u].there
               PROVE  RowCounted(u)'
    BY DEF RowsCounted
  <2>1. RowCounted(u)
    BY DEF RowsInv, RowsCounted
  <2> QED
    BY <1>1, <2>1 DEF Live, RowCounted
<1> QED
  BY <1>2, <1>3 DEF RowsInv

\* get-next-task, which hands a row out, keeps the invariant.
LEMMA GetNextKeeps == ASSUME ChannelInv, GetNext PROVE ChannelInv'
<1> USE ChannelConstants
<1>1. PICK u \in Umrs, d \in Attempts :
          /\ Eligible(u)
          /\ attempt[d] = Unused
          /\ attempt' = [attempt EXCEPT ![d] = [of |-> u, status |-> "dispatched",
                                                late |-> FALSE, files |-> umr[u].files]]
          /\ umr' = [umr EXCEPT ![u].status = "dispatched", ![u].dispatches = @ + 1]
  BY DEF GetNext
<1>2. umr[u] \in UmrRow /\ umr[u].dispatches + 1 \in Nat /\ umr[u].files \in 0 .. 2
      /\ umr[u].rejects \in Nat /\ umr[u].dispatches \in Nat
  BY DEF ChannelInv, RowsInv, ChannelTyped, UmrRow
<1> DEFINE row == [umr[u] EXCEPT !.status = "dispatched", !.dispatches = umr[u].dispatches + 1]
<1>3. umr' = [umr EXCEPT ![u] = row]
  BY <1>1, Zenon
<1>4. /\ row \in UmrRow /\ row.there = umr[u].there /\ row.rejects = umr[u].rejects
      /\ row.dispatches = umr[u].dispatches + 1 /\ row.status = "dispatched"
  BY <1>2 DEF UmrRow
<1>5. PICK no \in BOOLEAN :
         attempt' = [attempt EXCEPT ![d] = [of |-> u, status |-> "dispatched",
                                            late |-> no, files |-> umr[u].files]]
  BY <1>1
<1> DEFINE a == [of |-> u, status |-> "dispatched", late |-> no, files |-> umr[u].files]
<1>6. a \in AttemptRow /\ a.of = u /\ a.status = "dispatched"
  BY <1>2 DEF AttemptRow, Umrs
<1>7. attempt' = [attempt EXCEPT ![d] = a]
  BY <1>5
<1> HIDE DEF a, row
<1>8. ChannelTyped'
  BY <1>3, <1>4, <1>6, <1>7 DEF ChannelInv, RowsInv, ChannelTyped, GetNext
<1>9. /\ \A e \in Attempts : attempt'[e] = IF e = d THEN a ELSE attempt[e]
      /\ \A w \in Umrs : umr'[w] = IF w = u THEN row ELSE umr[w]
  BY <1>3, <1>7 DEF ChannelInv, RowsInv, ChannelTyped
<1>10. /\ umr[u].there /\ umr[u].status \in {"null", "requeued"}
       /\ umr[u].rejects < MaxAttempts
       /\ attempt[d].status = "unused"
  BY <1>1, UnusedRow DEF Eligible
<1>11. /\ umr[u].rejects = Cardinality(Strikes(u))
       /\ umr[u].dispatches = umr[u].rejects
       /\ \A e \in Attempts : attempt[e].of = u => ~Handed(e)
  BY <1>2, <1>10 DEF ChannelInv, RowsInv, RowsCounted, RowCounted, Handed, Live
<1>12. HandedOnce'
  BY <1>6, <1>9, <1>11 DEF ChannelInv, RowsInv, HandedOnce, Handed
<1>13. HandedRows'
  BY <1>6, <1>9 DEF ChannelInv, RowsInv, HandedRows
<1>14. \A w \in Umrs : Strikes(w)' = Strikes(w)
  BY <1>6, <1>9, <1>10 DEF Strikes
<1>15. RowsCounted'
  <2> SUFFICES ASSUME NEW w \in Umrs, umr'[w].there
               PROVE  RowCounted(w)'
    BY DEF RowsCounted
  <2>1. CASE w = u
    <3>1. /\ umr'[w].status = "dispatched" /\ umr'[w].rejects = umr[u].rejects
          /\ umr'[w].dispatches = umr[u].dispatches + 1
      BY <1>4, <1>9, <2>1
    <3>2. umr'[w].rejects = Cardinality(Strikes(w)')
      BY <1>11, <1>14, <2>1, <3>1
    <3>3. attempt'[d].of = w /\ Live(d)'
      BY <1>6, <1>9, <2>1 DEF Live
    <3>4. ~\E e \in Attempts : attempt'[e].of = w /\ attempt'[e].status = "accepted"
      BY <1>6, <1>9, <1>11, <2>1 DEF Handed
    <3>5. umr'[w].rejects < MaxAttempts /\ umr'[w].dispatches = umr'[w].rejects + 1
      BY <1>10, <1>11, <3>1
    <3> QED
      BY <1>2, <3>1, <3>2, <3>3, <3>4, <3>5 DEF RowCounted
  <2>2. CASE w # u
    <3>1. umr'[w] = umr[w] /\ umr[w].there
      BY <1>9, <2>2
    <3>2. RowCounted(w)
      BY <3>1 DEF ChannelInv, RowsInv, RowsCounted
    <3>3. \A e \in Attempts : attempt'[e].of = w /\ attempt'[e].status # "unused" 
                              => attempt'[e] = attempt[e]
      BY <1>6, <1>9, <2>2
    <3>4. \A e \in Attempts : attempt[e].of = w /\ attempt[e].status # "unused" 
                              => attempt'[e] = attempt[e]
      BY <1>9, <1>10
    <3> QED
      BY <1>14, <3>1, <3>2, <3>3, <3>4 DEF Live, RowCounted
  <2> QED
    BY <2>1, <2>2
<1>16. submission = NoSubmission /\ UNCHANGED <<repo, submission>>
  BY DEF GetNext, WriteLockFree
<1>17. SubmissionLive' /\ OnePr'
  BY <1>6, <1>9, <1>16 DEF ChannelInv, SubmissionLive, OnePr
<1> QED
  BY <1>8, <1>12, <1>13, <1>15, <1>17 DEF ChannelInv, RowsInv

\* The acceptance of a submission, with its row, keeps it.
LEMMA AcceptKeeps == ASSUME ChannelInv, Accept PROVE ChannelInv'
<1> USE ChannelConstants
<1> DEFINE d == submission.id
           u == attempt[d].of
           row == [umr[u] EXCEPT !.status = "pr_open"]
           a == [attempt[d] EXCEPT !.status = "accepted"]
<1>1. /\ submission.pc = "record" /\ submission # NoSubmission
      /\ submission' = NoSubmission /\ repo' = repo
  BY UnusedRow DEF Accept
<1>2. d \in Attempts /\ Live(d) /\ umr[u].there /\ repo[d].prs = 1
  BY <1>1 DEF ChannelInv, SubmissionLive, OnePr
<1>3. u \in Umrs /\ umr[u] \in UmrRow /\ attempt[d] \in AttemptRow
  BY <1>2 DEF ChannelInv, RowsInv, HandedRows, ChannelTyped, Live
<1>4. /\ row \in UmrRow /\ row.there = umr[u].there /\ row.rejects = umr[u].rejects
      /\ row.dispatches = umr[u].dispatches /\ row.status = "pr_open"
  BY <1>3 DEF UmrRow
<1>5. a \in AttemptRow /\ a.of = u /\ a.status = "accepted"
  BY <1>3 DEF AttemptRow
<1>6. umr' = [umr EXCEPT ![u] = row] /\ attempt' = [attempt EXCEPT ![d] = a]
  BY DEF Accept, ChannelInv, RowsInv, ChannelTyped
<1> HIDE DEF a, row
<1>7. ChannelTyped'
  BY <1>1, <1>4, <1>5, <1>6 DEF ChannelInv, RowsInv, ChannelTyped
<1>8. /\ \A e \in Attempts : attempt'[e] = IF e = d THEN a ELSE attempt[e]
      /\ \A w \in Umrs : umr'[w] = IF w = u THEN row ELSE umr[w]
  BY <1>6 DEF ChannelInv, RowsInv, ChannelTyped
<1>9. \A e \in Attempts : /\ attempt'[e].of = attempt[e].of
                          /\ Handed(e)' <=> Handed(e)
                          /\ attempt'[e].status = IF e = d THEN "accepted" ELSE attempt[e].status
  BY <1>2, <1>5, <1>8 DEF Handed, Live
<1>10. HandedOnce'
  BY <1>9 DEF ChannelInv, RowsInv, HandedOnce
<1>11. HandedRows'
  BY <1>2, <1>9 DEF ChannelInv, RowsInv, HandedRows, Live
<1>12. \A w : Strikes(w)' = Strikes(w)
  BY <1>2, <1>9 DEF Strikes, Live
<1>13. \A e \in Attempts : e # d /\ attempt[e].of = u => ~Handed(e)
  BY <1>2 DEF ChannelInv, RowsInv, HandedOnce, Handed, Live
<1>14. RowsCounted'
  <2> SUFFICES ASSUME NEW w \in Umrs, umr'[w].there
               PROVE  RowCounted(w)'
    BY DEF RowsCounted
  <2>1. CASE w = u
    <3>1. RowCounted(u) /\ umr[u].status = "dispatched"
      BY <1>2, <1>3 DEF ChannelInv, RowsInv, RowsCounted, RowCounted
    <3>2. /\ umr'[w].status = "pr_open" /\ umr'[w].rejects = umr[u].rejects
          /\ umr'[w].dispatches = umr[u].dispatches
      BY <1>4, <1>8, <2>1
    <3>3. attempt'[d].of = w /\ attempt'[d].status = "accepted"
      BY <1>2, <1>9, <2>1
    <3>4. ~\E e \in Attempts : attempt'[e].of = w /\ Live(e)'
      BY <1>9, <1>13, <2>1 DEF Handed, Live
    <3>5. umr'[w].rejects = Cardinality(Strikes(w)') /\ umr'[w].rejects <= MaxAttempts
          /\ umr'[w].rejects # MaxAttempts
          /\ umr'[w].dispatches = umr'[w].rejects + 1
      BY <1>12, <2>1, <3>1, <3>2 DEF RowCounted
    <3> QED
      BY <1>2, <3>2, <3>3, <3>4, <3>5 DEF RowCounted
  <2>2. CASE w # u
    <3>1. umr'[w] = umr[w] /\ RowCounted(w)
      BY <1>8, <2>2 DEF ChannelInv, RowsInv, RowsCounted
    <3>2. \A e \in Attempts : attempt[e].of = w => attempt'[e].status = attempt[e].status
      BY <1>9, <2>2
    <3> QED
      BY <1>9, <1>12, <3>1, <3>2 DEF RowCounted, Live
  <2> QED
    BY <2>1, <2>2
<1>15. SubmissionLive'
  BY <1>1, UnusedRow DEF SubmissionLive
<1>16. OnePr'
  BY <1>1, <1>2, <1>9 DEF ChannelInv, OnePr
<1> QED
  BY <1>7, <1>10, <1>11, <1>14, <1>15, <1>16 DEF ChannelInv, RowsInv



\* Nothing but the pull requests of the attempt's own branch, and there is one at most.
OnlyItsPr(d) ==
    /\ repo' \in [Attempts -> [branch : BOOLEAN, prs : Nat]]
    /\ \A e \in Attempts :
          \/ repo'[e] = repo[e]
          \/ e = d /\ repo'[e].prs <= 1 /\ repo'[e].branch

\* An attempt that is struck out while a submission, if any, is its own and ends.
LEMMA RefusalKeeps ==
  ASSUME ChannelInv, NEW d \in Attempts, Live(d), umr[attempt[d].of].there, Reject(d),
         submission = NoSubmission \/ submission.id = d, submission' = NoSubmission,
         OnlyItsPr(d)
  PROVE  ChannelInv'
<1>1. RowsInv'
  BY RejectKeepsRows DEF ChannelInv, OnlyItsPr
<1>2. attempt \in [Attempts -> AttemptRow]
  BY DEF ChannelInv, RowsInv, ChannelTyped
<1>3. \A e \in Attempts : attempt'[e].status = IF e = d THEN "rejected" ELSE attempt[e].status
  BY <1>2 DEF Reject, AttemptRow
<1>4. SubmissionLive'
  BY UnusedRow DEF SubmissionLive
<1>5. OnePr'
  <2> SUFFICES ASSUME NEW e \in Attempts
               PROVE  /\ repo'[e].prs <= 1
                      /\ ~repo'[e].branch => repo'[e].prs = 0
                      /\ attempt'[e].status = "accepted" => repo'[e].prs = 1
    BY DEF OnePr
  <2>1. /\ repo[e].prs <= 1
        /\ ~repo[e].branch => repo[e].prs = 0
        /\ attempt[e].status = "accepted" => repo[e].prs = 1
    BY DEF ChannelInv, OnePr
  <2>2. \/ repo'[e] = repo[e]
        \/ e = d /\ repo'[e].prs <= 1 /\ repo'[e].branch
    BY DEF OnlyItsPr
  <2>3. attempt'[e].status = "accepted" => attempt[e].status = "accepted" /\ e # d
    BY <1>3
  <2> QED
    BY <2>1, <2>2, <2>3
<1> QED
  BY <1>1, <1>4, <1>5 DEF ChannelInv

\* Only the repository and the submission change.
LEMMA SubmissionMoves ==
  ASSUME ChannelInv, UNCHANGED <<umr, attempt>>,
         repo' \in [Attempts -> [branch : BOOLEAN, prs : Nat]],
         SubmissionLive', OnePr'
  PROVE  ChannelInv'
<1>1. RowsInv
  BY DEF ChannelInv
<1>2. ChannelTyped'
  BY <1>1 DEF RowsInv, ChannelTyped
<1>3. RowsInv'
  BY <1>1, <1>2, RowsKept
<1> QED
  BY <1>3 DEF ChannelInv

\* The steps of a submission, from its checks to its verdict, keep it.
LEMMA SubmitStepsKeep ==
  ASSUME ChannelInv, SubmitStep \/ SubmitKilled
  PROVE  ChannelInv'
<1> DEFINE d == submission.id
<1>1. /\ submission # NoSubmission /\ submission.id = d
      /\ d \in Attempts /\ Live(d) /\ umr[attempt[d].of].there /\ repo[d].branch
      /\ repo \in [Attempts -> [branch : BOOLEAN, prs : Nat]]
      /\ submission.pc # "record" => repo[d].prs = 0
      /\ submission.pc = "record" => repo[d].prs = 1
  <2>1. submission # NoSubmission
    BY UnusedRow DEF SubmitStep, SubmitFails, SubmitGoesOn, GatesLoseBuildLock, OpenPr, PrFails,
                     Accept, SubmitKilled, WriteLockFree
  <2> QED
    BY <2>1 DEF ChannelInv, SubmissionLive, OnePr, RowsInv, ChannelTyped
<1> HIDE DEF d
<1>2. CASE SubmitFails
  <2>1. Reject(d) /\ submission' = NoSubmission /\ repo' = repo
    BY <1>1, <1>2 DEF SubmitFails
  <2>2. OnlyItsPr(d)
    BY <1>1, <2>1 DEF OnlyItsPr
  <2> QED
    BY <1>1, <2>1, <2>2, RefusalKeeps
<1>3. CASE PrFails
  <2>1. Reject(d) /\ submission' = NoSubmission
    BY <1>1, <1>3 DEF PrFails
  <2>2. PICK n \in 0 .. 1 : repo' = [repo EXCEPT ![d].prs = n]
    <3>1. PICK opened \in 0 .. 1 : repo' = [repo EXCEPT ![d].prs = @ + opened]
      BY <1>1, <1>3 DEF PrFails
    <3>2. repo[d].prs = 0
      BY <1>1, <1>3 DEF PrFails
    <3>3. repo[d].prs + opened = opened
      BY <3>2
    <3> QED
      BY <3>1, <3>3
  <2> DEFINE row == [repo[d] EXCEPT !.prs = n]
  <2>3. repo' = [repo EXCEPT ![d] = row]
    BY <1>1, <2>2
  <2>4. row \in [branch : BOOLEAN, prs : Nat] /\ row.prs <= 1 /\ row.branch
    BY <1>1
  <2> HIDE DEF row
  <2>5. repo' \in [Attempts -> [branch : BOOLEAN, prs : Nat]]
    BY <1>1, <2>3, <2>4
  <2>6. \A e \in Attempts : repo'[e] = IF e = d THEN row ELSE repo[e]
    BY <1>1, <2>3
  <2>7. OnlyItsPr(d)
    BY <2>4, <2>5, <2>6 DEF OnlyItsPr
  <2> QED
    BY <1>1, <2>1, <2>7, RefusalKeeps
<1>4. CASE SubmitGoesOn \/ GatesLoseBuildLock
  <2>1. PICK pc \in {"push", "pr", "stuck"} : submission' = [submission EXCEPT !.pc = pc]
    BY <1>4 DEF SubmitGoesOn, GatesLoseBuildLock
  <2>2. UNCHANGED <<umr, attempt, repo>> /\ submission.pc \in {"gates", "push"}
    BY <1>4 DEF SubmitGoesOn, GatesLoseBuildLock
  <2>3. /\ submission' \in [pc : {"idle", "gates", "stuck", "push", "pr", "record"},
                            id : 0 .. NumAttempts]
        /\ submission'.pc = pc /\ submission'.id = d
    BY <1>1, <2>1 DEF ChannelInv, SubmissionLive
  <2>4. SubmissionLive'
    BY <1>1, <2>2, <2>3 DEF SubmissionLive, Live
  <2>5. OnePr'
    BY <1>1, <2>2, <2>3 DEF ChannelInv, OnePr
  <2> QED
    BY <1>1, <2>2, <2>4, <2>5, SubmissionMoves
<1>5. CASE OpenPr
  <2>1. /\ submission.pc = "pr" /\ UNCHANGED <<umr, attempt>>
        /\ repo' = [repo EXCEPT ![d].prs = @ + 1]
        /\ submission' = [submission EXCEPT !.pc = "record"]
    BY <1>1, <1>5 DEF OpenPr
  <2> DEFINE row == [repo[d] EXCEPT !.prs = 1]
  <2>2. repo[d].prs + 1 = 1
    BY <1>1, <2>1
  <2>3. repo' = [repo EXCEPT ![d] = row]
    BY <1>1, <2>1, <2>2
  <2>4. row \in [branch : BOOLEAN, prs : Nat] /\ row.prs = 1 /\ row.branch
    BY <1>1
  <2> HIDE DEF row
  <2>5. repo' \in [Attempts -> [branch : BOOLEAN, prs : Nat]]
    BY <1>1, <2>3, <2>4
  <2>6. \A e \in Attempts : repo'[e] = IF e = d THEN row ELSE repo[e]
    BY <1>1, <2>3
  <2>7. /\ submission' \in [pc : {"idle", "gates", "stuck", "push", "pr", "record"},
                            id : 0 .. NumAttempts]
        /\ submission'.pc = "record" /\ submission'.id = d
    BY <1>1, <2>1 DEF ChannelInv, SubmissionLive
  <2>8. SubmissionLive'
    BY <1>1, <2>1, <2>7 DEF SubmissionLive, Live
  <2>9. OnePr'
    <3>1. attempt[d].status # "accepted"
      BY <1>1 DEF Live
    <3> QED
      BY <1>1, <2>1, <2>4, <2>6, <2>7, <3>1 DEF ChannelInv, OnePr
  <2> QED
    BY <2>1, <2>5, <2>8, <2>9, SubmissionMoves
<1>6. CASE SubmitKilled
  <2>1. UNCHANGED <<umr, attempt, repo>> /\ submission' = NoSubmission
    BY <1>6 DEF SubmitKilled
  <2>2. SubmissionLive' /\ OnePr'
    BY <2>1, UnusedRow DEF ChannelInv, SubmissionLive, OnePr
  <2> QED
    BY <1>1, <2>1, <2>2, SubmissionMoves
<1> QED
  BY <1>2, <1>3, <1>4, <1>5, <1>6, AcceptKeeps DEF SubmitStep

\* The expiry of an attempt that was not submitted in time keeps it.
LEMMA ExpireKeeps == ASSUME ChannelInv, Expire PROVE ChannelInv'
<1> DEFINE late == {d \in Attempts : Live(d) /\ attempt[d].late}
<1>1. /\ submission = NoSubmission /\ UNCHANGED <<repo, submission>>
      /\ attempt' = [d \in Attempts |->
                       IF d \in late THEN [attempt[d] EXCEPT !.status = "expired"] ELSE attempt[d]]
      /\ umr' = [u \in Umrs |->
                   IF umr[u].there /\ \E d \in late : attempt[d].of = u
                   THEN Struck(umr[u]) ELSE umr[u]]
  BY DEF Expire, WriteLockFree
<1>2. late \in SUBSET {d \in Attempts : Live(d)}
  OBVIOUS
<1>3. repo' \in [Attempts -> [branch : BOOLEAN, prs : Nat]] /\ RowsInv
  BY <1>1 DEF ChannelInv, RowsInv, ChannelTyped
<1>4. attempt \in [Attempts -> AttemptRow]
  BY DEF ChannelInv, RowsInv, ChannelTyped
<1>5. \A d \in Attempts : attempt'[d].status = "accepted" => attempt[d].status = "accepted"
  BY <1>1, <1>4 DEF AttemptRow
<1> HIDE DEF late
<1>6. RowsInv'
  BY <1>1, <1>2, <1>3, StrikesKeepRows
<1>7. SubmissionLive' /\ OnePr'
  BY <1>1, <1>5 DEF ChannelInv, SubmissionLive, OnePr
<1> QED
  BY <1>6, <1>7 DEF ChannelInv

\* The begin of a submission, for an attempt that has its row, keeps it.
LEMMA SubmitBeginsKeeps ==
  ASSUME ChannelInv, NEW d \in Attempts, SubmitBegins(d)
  PROVE  ChannelInv'
<1>1. /\ submission = NoSubmission /\ Live(d) /\ umr[attempt[d].of].there /\ ~repo[d].branch
      /\ submission' = [pc |-> "gates", id |-> d] /\ UNCHANGED <<umr, attempt>>
      /\ repo \in [Attempts -> [branch : BOOLEAN, prs : Nat]]
      /\ repo[d].prs = 0
  BY DEF SubmitBegins, Submittable, WriteLockFree, ChannelInv, OnePr, RowsInv, ChannelTyped
<1>2. PICK yes \in BOOLEAN : yes /\ repo' = [repo EXCEPT ![d].branch = yes]
  BY DEF SubmitBegins
<1> DEFINE row == [repo[d] EXCEPT !.branch = yes]
<1>3. repo' = [repo EXCEPT ![d] = row]
  BY <1>1, <1>2
<1>4. row \in [branch : BOOLEAN, prs : Nat] /\ row.prs = 0 /\ row.branch
  BY <1>1, <1>2
<1> HIDE DEF row
<1>5. \A e \in Attempts : repo'[e] = IF e = d THEN row ELSE repo[e]
  BY <1>1, <1>3
<1>6. repo' \in [Attempts -> [branch : BOOLEAN, prs : Nat]]
  BY <1>1, <1>3, <1>4
<1>7. /\ submission' \in [pc : {"idle", "gates", "stuck", "push", "pr", "record"},
                          id : 0 .. NumAttempts]
      /\ submission'.pc = "gates" /\ submission'.id = d
  BY <1>1, ChannelConstants DEF Attempts
<1>8. SubmissionLive'
  BY <1>1, <1>7 DEF SubmissionLive, Live
<1>9. OnePr'
  <2>1. attempt[d].status # "accepted"
    BY <1>1 DEF Live
  <2> QED
    BY <1>1, <1>4, <1>5, <1>7, <2>1 DEF ChannelInv, OnePr
<1> QED
  BY <1>1, <1>6, <1>8, <1>9, SubmissionMoves

\* What is written without a change of any status.
LEMMA StatusesKept ==
  ASSUME ChannelInv, UNCHANGED <<repo, submission>>,
         umr' \in [Umrs -> UmrRow], attempt' \in [Attempts -> AttemptRow],
         \A d \in Attempts : /\ attempt'[d].of = attempt[d].of
                             /\ attempt'[d].status = attempt[d].status,
         \A u \in Umrs : umr'[u].there =>
            /\ umr[u].there
            /\ umr'[u].rejects = umr[u].rejects
            /\ umr'[u].dispatches = umr[u].dispatches
            /\ umr'[u].status = umr[u].status,
         submission # NoSubmission => \A u \in Umrs : umr'[u].there <=> umr[u].there
  PROVE  ChannelInv'
<1>1. ChannelTyped' /\ RowsInv
  BY DEF ChannelInv, RowsInv, ChannelTyped
<1>2. RowsInv'
  BY <1>1, RowsKept
<1>3. SubmissionLive'
  <2>1. submission # NoSubmission => attempt[submission.id].of \in Umrs
    BY DEF ChannelInv, SubmissionLive, RowsInv, HandedRows, Live
  <2> QED
    BY <2>1 DEF ChannelInv, SubmissionLive, Live
<1>4. OnePr'
  BY DEF ChannelInv, OnePr
<1> QED
  BY <1>2, <1>3, <1>4 DEF ChannelInv

\* The invariant of the component is kept.
LEMMA ChannelKeeps == ExtSpec => []ChannelInv
<1>1. ExtInit => ChannelInv
  <2> SUFFICES ASSUME ExtInit PROVE ChannelInv
    OBVIOUS
  <2> USE ChannelConstants
  <2>1. PICK no \in BOOLEAN, yes \in BOOLEAN :
          /\ ~no /\ yes
          /\ umr = [u \in Umrs |-> [there |-> yes, eligible |-> no, files |-> 0,
                                    status |-> "null", rejects |-> 0, dispatches |-> 0]]
          /\ repo = [d \in Attempts |-> [branch |-> no, prs |-> 0]]
    BY DEF ExtInit
  <2>2. attempt = [d \in Attempts |-> Unused] /\ submission = NoSubmission
    BY DEF ExtInit
  <2>3. ChannelTyped
    BY <2>1, <2>2, UnusedRow DEF ChannelTyped, UmrRow
  <2>4. \A d \in Attempts : attempt[d].status = "unused"
    BY <2>2, UnusedRow
  <2>5. \A u \in Umrs : /\ umr[u].rejects = 0 /\ umr[u].dispatches = 0
                        /\ umr[u].status = "null"
    BY <2>1
  <2>6. \A u : Strikes(u) = {}
    BY <2>4 DEF Strikes
  <2>7. RowsCounted
    <3> SUFFICES ASSUME NEW u \in Umrs PROVE RowCounted(u)
      BY DEF RowsCounted
    <3>1. Cardinality(Strikes(u)) = 0
      BY <2>6, FS_EmptySet
    <3>2. umr[u].dispatches = umr[u].rejects +
             (IF umr[u].status \in {"dispatched", "pr_open"} THEN 1 ELSE 0)
      BY <2>5
    <3>3. umr[u].rejects <= MaxAttempts /\ umr[u].rejects # MaxAttempts
      BY <2>5
    <3> QED
      BY <2>4, <2>5, <3>1, <3>2, <3>3 DEF RowCounted, Live
  <2>8. HandedOnce /\ HandedRows
    BY <2>4 DEF HandedOnce, HandedRows, Handed
  <2>9. SubmissionLive
    BY <2>2, UnusedRow DEF SubmissionLive
  <2>10. OnePr
    BY <2>1, <2>2, <2>4 DEF OnePr
  <2> QED
    BY <2>3, <2>7, <2>8, <2>9, <2>10 DEF ChannelInv, RowsInv
<1>2. ChannelInv /\ [ExtNext]_xvars => ChannelInv'
  <2> SUFFICES ASSUME ChannelInv, [ExtNext]_xvars PROVE ChannelInv'
    OBVIOUS
  <2>0. /\ umr \in [Umrs -> UmrRow] /\ attempt \in [Attempts -> AttemptRow]
        /\ repo \in [Attempts -> [branch : BOOLEAN, prs : Nat]]
    BY DEF ChannelInv, RowsInv, ChannelTyped
  <2>1. ASSUME NEW u \in Umrs, MarkEligible(u) PROVE ChannelInv'
    <3>1. PICK count \in 1 .. 2, yes \in BOOLEAN :
             yes /\ umr' = [umr EXCEPT ![u].eligible = yes, ![u].files = count]
      BY <2>1 DEF MarkEligible
    <3> DEFINE row == [umr[u] EXCEPT !.eligible = yes, !.files = count]
    <3>2. umr' = [umr EXCEPT ![u] = row]
      BY <3>1, Zenon
    <3>3. /\ row \in UmrRow /\ row.there = umr[u].there /\ row.rejects = umr[u].rejects
          /\ row.dispatches = umr[u].dispatches /\ row.status = umr[u].status
      <4>1. umr[u] \in UmrRow /\ count \in 0 .. 2
        BY <2>0
      <4> QED
        BY <3>1, <4>1 DEF UmrRow
    <3> HIDE DEF row
    <3>4. UNCHANGED <<attempt, repo, submission>>
      BY <2>1 DEF MarkEligible
    <3>5. umr' \in [Umrs -> UmrRow] /\ \A w \in Umrs : umr'[w] = IF w = u THEN row ELSE umr[w]
      BY <2>0, <3>2, <3>3
    <3> QED
      BY <2>0, <3>3, <3>4, <3>5, StatusesKept
  <2>2. ASSUME NEW u \in Umrs, DeleteRow(u) PROVE ChannelInv'
    <3>1. PICK no \in BOOLEAN : ~no /\ umr' = [umr EXCEPT ![u].there = no]
      BY <2>2 DEF DeleteRow
    <3> DEFINE row == [umr[u] EXCEPT !.there = no]
    <3>2. umr' = [umr EXCEPT ![u] = row]
      BY <2>0, <3>1
    <3>3. row \in UmrRow /\ ~row.there
      BY <2>0, <3>1 DEF UmrRow
    <3> HIDE DEF row
    <3>4. UNCHANGED <<attempt, repo, submission>> /\ submission = NoSubmission
      BY <2>2 DEF DeleteRow, WriteLockFree
    <3>5. umr' \in [Umrs -> UmrRow] /\ \A w \in Umrs : umr'[w] = IF w = u THEN row ELSE umr[w]
      BY <2>0, <3>2, <3>3
    <3> QED
      BY <2>0, <3>3, <3>4, <3>5, StatusesKept
  <2>3. CASE GetNext
    BY <2>3, GetNextKeeps
  <2>4. ASSUME NEW d \in Attempts, TimePasses(d) PROVE ChannelInv'
    <3>1. PICK yes \in BOOLEAN : attempt' = [attempt EXCEPT ![d].late = yes]
      BY <2>4 DEF TimePasses
    <3>2. /\ attempt' \in [Attempts -> AttemptRow]
          /\ \A e \in Attempts : /\ attempt'[e].of = attempt[e].of
                                 /\ attempt'[e].status = attempt[e].status
      BY <2>0, <3>1 DEF AttemptRow
    <3>3. UNCHANGED <<umr, repo, submission>>
      BY <2>4 DEF TimePasses
    <3> QED
      BY <2>0, <3>2, <3>3, StatusesKept
  <2>5. ASSUME NEW d \in Attempts, SubmitRefused(d) PROVE ChannelInv'
    <3>1. /\ Live(d) /\ umr[attempt[d].of].there /\ Reject(d)
          /\ submission = NoSubmission /\ UNCHANGED <<repo, submission>>
      BY <2>5 DEF SubmitRefused, Submittable, WriteLockFree
    <3>2. submission' = NoSubmission
      BY <3>1
    <3>3. OnlyItsPr(d)
      BY <2>0, <3>1 DEF OnlyItsPr
    <3> QED
      BY <3>1, <3>2, <3>3, RefusalKeeps
  <2>6. ASSUME NEW d \in Attempts, SubmitBegins(d) PROVE ChannelInv'
    BY <2>6, SubmitBeginsKeeps
  <2>7. CASE SubmitStep \/ SubmitKilled
    BY <2>7, SubmitStepsKeep
  <2>8. CASE Expire
    BY <2>8, ExpireKeeps
  <2>9. CASE UNCHANGED xvars
    <3>1. UNCHANGED <<umr, attempt, repo, submission>>
      BY <2>9 DEF xvars
    <3> QED
      BY <2>0, <3>1, StatusesKept
  <2> QED
    BY <2>1, <2>2, <2>3, <2>4, <2>5, <2>6, <2>7, <2>8, <2>9 DEF ExtNext
<1> QED  BY <1>1, <1>2, PTL DEF ExtSpec

\* A row is with one external agent at a time, every failed attempt counts once against it,
\* and a row at its limit is handed out no more, over expiry, late and repeated submissions
\* and calls that are killed (external_agent_manager.py).
THEOREM StrikesAndHandOuts == ExtSpec => []AttemptsAccounted
<1>1. ChannelInv => AttemptsAccounted
  <2> SUFFICES ASSUME ChannelInv PROVE AttemptsAccounted
    OBVIOUS
  <2> DEFINE its(u, S) == {d \in Attempts : attempt[d].of = u /\ attempt[d].status \in S}
  <2>1. ASSUME NEW u \in Umrs, umr[u].there
        PROVE  /\ umr[u].rejects = Cardinality(its(u, {"rejected", "expired"}))
               /\ umr[u].dispatches = umr[u].rejects
                     + Cardinality(its(u, {"dispatched", "accepted"}))
               /\ Cardinality(its(u, {"dispatched", "accepted"})) <= 1
               /\ umr[u].status = "dispatched" <=> its(u, {"dispatched"}) # {}
               /\ umr[u].status = "pr_open" <=> its(u, {"accepted"}) # {}
               /\ umr[u].status = "fallen_back_internal" <=> umr[u].rejects = MaxAttempts
    <3>1. RowCounted(u)
      BY <2>1 DEF ChannelInv, RowsInv, RowsCounted
    <3>2. Strikes(u) = its(u, {"rejected", "expired"})
      BY DEF Strikes
    <3>3. Cardinality(its(u, {"dispatched", "accepted"}))
             = IF umr[u].status \in {"dispatched", "pr_open"} THEN 1 ELSE 0
      <4>1. CASE umr[u].status \in {"dispatched", "pr_open"}
        <5>1. PICK d \in Attempts : attempt[d].of = u /\ Handed(d)
          BY <3>1, <4>1 DEF RowCounted, Handed, Live
        <5>2. its(u, {"dispatched", "accepted"}) = {d}
          BY <5>1 DEF ChannelInv, RowsInv, HandedOnce, Handed
        <5> QED
          BY <4>1, <5>2, FS_Singleton
      <4>2. CASE umr[u].status \notin {"dispatched", "pr_open"}
        <5>1. its(u, {"dispatched", "accepted"}) = {}
          BY <3>1, <4>2 DEF RowCounted, Live
        <5> QED
          BY <4>2, <5>1, FS_EmptySet
      <4> QED
        BY <4>1, <4>2
    <3>4. /\ umr[u].status = "dispatched" <=> its(u, {"dispatched"}) # {}
          /\ umr[u].status = "pr_open" <=> its(u, {"accepted"}) # {}
      BY <3>1 DEF RowCounted, Live
    <3> HIDE DEF its
    <3> QED
      BY <3>1, <3>2, <3>3, <3>4 DEF RowCounted
  <2> QED
    BY <2>1 DEF AttemptsAccounted, ChannelInv, OnePr
<1> QED  BY ChannelKeeps, <1>1, PTL

\* What a row counts is within the limit, also where the row was deleted since.
CountsBounded ==
    /\ \A u \in Umrs : umr[u].rejects <= MaxAttempts /\ umr[u].dispatches <= MaxAttempts
    /\ subKills \in 0 .. MaxSubKills

\* A row that is there counts no more than the limit of each.
WithinLimit ==
    \A u \in Umrs : umr[u].there => umr[u].rejects <= MaxAttempts /\ umr[u].dispatches <= MaxAttempts

\* As the register counts them, they do.
LEMMA RowsWithinLimit == ChannelInv => WithinLimit
<1> USE DEF WithinLimit
<1> USE ChannelConstants
<1> SUFFICES ASSUME ChannelInv, NEW u \in Umrs, umr[u].there
             PROVE  umr[u].rejects <= MaxAttempts /\ umr[u].dispatches <= MaxAttempts
  OBVIOUS
<1>1. RowCounted(u)
  BY DEF ChannelInv, RowsInv, RowsCounted
<1>2. umr[u].rejects \in Nat
  BY DEF ChannelInv, RowsInv, ChannelTyped, UmrRow
<1>3. umr[u].status \in {"dispatched", "pr_open"} => umr[u].rejects # MaxAttempts
  BY <1>1 DEF RowCounted
<1>4. /\ umr[u].rejects <= MaxAttempts
      /\ umr[u].dispatches = umr[u].rejects +
            (IF umr[u].status \in {"dispatched", "pr_open"} THEN 1 ELSE 0)
  BY <1>1 DEF RowCounted
<1> QED  BY <1>2, <1>3, <1>4

\* A step counts nothing at a row that it leaves deleted.
LEMMA DeletedUncounted ==
    ASSUME ChannelInv, ExtNext, NEW u \in Umrs, ~umr'[u].there
    PROVE  umr'[u].rejects = umr[u].rejects /\ umr'[u].dispatches = umr[u].dispatches
<1> DEFINE Same == umr'[u].rejects = umr[u].rejects /\ umr'[u].dispatches = umr[u].dispatches
<1> USE DEF ChannelInv, RowsInv, ChannelTyped
<1>1. ASSUME NEW d \in Attempts, Reject(d), umr[attempt[d].of].there PROVE Same
  <2>1. umr' = [umr EXCEPT ![attempt[d].of] = Struck(@)]
    BY <1>1 DEF Reject
  <2>2. CASE attempt[d].of = u
    <3>1. umr'[u] = Struck(umr[u])
      BY <2>1, <2>2
    <3>2. Struck(umr[u]).there
      BY <1>1, <2>2, StruckRow
    <3> QED  BY <3>1, <3>2
  <2>3. CASE attempt[d].of # u
    BY <2>1, <2>3
  <2> QED  BY <2>2, <2>3
<1>2. ASSUME NEW w \in Umrs, MarkEligible(w) PROVE Same
  <2>1. PICK n \in 1 .. 2, yes \in {TRUE} :
           umr' = [umr EXCEPT ![w] = [umr[w] EXCEPT !.eligible = yes, !.files = n]]
    BY <1>2 DEF MarkEligible, UmrRow
  <2> QED  BY <2>1 DEF UmrRow
<1>3. ASSUME NEW w \in Umrs, DeleteRow(w) PROVE Same
  <2>1. PICK no \in {FALSE} : umr' = [umr EXCEPT ![w] = [umr[w] EXCEPT !.there = no]]
    BY <1>3 DEF DeleteRow, UmrRow
  <2> QED  BY <2>1 DEF UmrRow
<1>4. CASE GetNext
  <2>1. PICK w \in Umrs : /\ umr[w].there
                          /\ umr' = [umr EXCEPT ![w] = [umr[w] EXCEPT !.status = "dispatched",
                                                                      !.dispatches = @ + 1]]
    BY <1>4 DEF GetNext, Eligible, UmrRow
  <2> QED  BY <2>1 DEF UmrRow
<1>5. ASSUME NEW d \in Attempts, SubmitRefused(d) PROVE Same
  BY <1>1, <1>5 DEF SubmitRefused, Submittable
<1>6. ASSUME submission # NoSubmission PROVE submission.id \in Attempts /\ umr[attempt[submission.id].of].there
  BY <1>6 DEF SubmissionLive
<1>7. CASE SubmitFails \/ PrFails
  <2>1. submission # NoSubmission /\ Reject(submission.id)
    BY <1>7 DEF SubmitFails, PrFails, NoSubmission
  <2> QED  BY <1>1, <1>6, <2>1
<1>8. CASE Accept
  <2>1. umr' = [umr EXCEPT ![attempt[submission.id].of] =
                   [umr[attempt[submission.id].of] EXCEPT !.status = "pr_open"]]
    BY <1>8 DEF Accept, UmrRow
  <2> QED  BY <2>1 DEF UmrRow
<1>9. CASE Expire
  <2>1. \/ umr'[u] = umr[u]
        \/ umr[u].there /\ umr'[u] = Struck(umr[u])
    BY <1>9 DEF Expire
  <2>2. Struck(umr[u]).there = umr[u].there
    BY StruckRow
  <2> QED  BY <2>1, <2>2
<1>10. CASE UNCHANGED umr
  BY <1>10
<1> QED
  BY <1>2, <1>3, <1>4, <1>5, <1>7, <1>8, <1>9, <1>10
     DEF ExtNext, SubmitStep, TimePasses, SubmitBegins, SubmitGoesOn, GatesLoseBuildLock, OpenPr,
         SubmitKilled

\* A row's counts are within the limit whatever is deleted.
LEMMA ExtTyped == ExtSpec => []ExtTypeOK
<1> USE ChannelConstants, ExternalAssumption
<1>1. ExtInit => CountsBounded
  BY DEF ExtInit, CountsBounded
<1>2. ChannelInv /\ CountsBounded => ExtTypeOK
  <2> SUFFICES ASSUME ChannelInv, CountsBounded PROVE ExtTypeOK
    OBVIOUS
  <2>1. umr \in [Umrs -> [there : BOOLEAN, eligible : BOOLEAN, files : 0 .. 2,
                          status : {"null", "dispatched", "requeued", "pr_open",
                                    "fallen_back_internal"},
                          rejects : 0 .. MaxAttempts, dispatches : 0 .. MaxAttempts]]
    <3>1. \A u \in Umrs : umr[u] \in UmrRow
      BY DEF ChannelInv, RowsInv, ChannelTyped
    <3>2. \A u \in Umrs : umr[u] \in [there : BOOLEAN, eligible : BOOLEAN, files : 0 .. 2,
                          status : {"null", "dispatched", "requeued", "pr_open",
                                    "fallen_back_internal"},
                          rejects : 0 .. MaxAttempts, dispatches : 0 .. MaxAttempts]
      BY <3>1 DEF UmrRow, CountsBounded
    <3>3. umr \in [Umrs -> UmrRow]
      BY DEF ChannelInv, RowsInv, ChannelTyped
    <3> QED  BY <3>2, <3>3, Zenon
  <2> QED  BY <2>1, Zenon DEF ChannelInv, RowsInv, ChannelTyped, AttemptRow, SubmissionLive, CountsBounded, ExtTypeOK
<1>3. ChannelInv /\ ChannelInv' /\ CountsBounded /\ [ExtNext]_xvars => CountsBounded'
  <2> SUFFICES ASSUME ChannelInv, ChannelInv', CountsBounded, [ExtNext]_xvars PROVE CountsBounded'
    OBVIOUS
  <2>0. WithinLimit'
    BY RowsWithinLimit, PTL
  <2>1. ASSUME NEW u \in Umrs PROVE umr'[u].rejects <= MaxAttempts /\ umr'[u].dispatches <= MaxAttempts
    <3>1. CASE umr'[u].there
      BY <3>1, <2>0 DEF WithinLimit
    <3>2. CASE ~umr'[u].there /\ ExtNext
      BY <3>2, DeletedUncounted DEF CountsBounded
    <3>3. CASE UNCHANGED xvars
      BY <3>3 DEF CountsBounded, xvars
    <3> QED  BY <3>1, <3>2, <3>3
  <2>2. subKills' \in 0 .. MaxSubKills
    <3>1. SubmitKilled \/ UNCHANGED subKills
      BY Zenon DEF ExtNext, xvars, MarkEligible, DeleteRow, GetNext, TimePasses, SubmitRefused, SubmitBegins,
         SubmitStep, SubmitFails, SubmitGoesOn, GatesLoseBuildLock, OpenPr, PrFails, Accept, Expire
    <3> QED  BY <3>1 DEF SubmitKilled, CountsBounded
  <2> QED  BY <2>1, <2>2 DEF CountsBounded
<1> QED
  BY <1>1, <1>2, <1>3, ChannelKeeps, PTL DEF ExtSpec

-----------------------------------------------------------------------------

-----------------------------------------------------------------------------
(* CreditLedger *)

\* What a row of the ledger may hold, and a judge in its steps.
Increment == [plan : Plans \cup {"none"}, verdict : {"none", "approved", "rejected"},
              outcome : {"none", "approved", "rejected"},
              said : Outcomes \cup {"none"}, at : Nat]
Proposal == [pc : {"new", "counted", "checked", "judging", "crashed", "approved", "rejected"},
             number : Nat]

LedgerTyped ==
    /\ increments \in [Numbers -> Increment]
    /\ proposal \in [Plans -> Proposal]
    /\ judged \in [Plans -> {"none", "approved", "rejected"}]
    /\ creditCalls \in [inserts : Nat, reports : Nat, prunes : Nat]

\* The numbers of the rows are not given twice, and a proposal knows only rows of its plan.
RowsOwned ==
    \A n \in Present :
        LET p == increments[n].plan
        IN  /\ p \in Plans
            /\ proposal[p].number = n
            /\ proposal[p].pc \notin {"new", "counted", "checked"}

\* A judge that is past its insert has a row.
JudgingHasRow ==
    \A p \in Plans : \A n \in Numbers :
        proposal[p].pc = "judging" /\ proposal[p].number = n
        => increments[n].plan = p /\ increments[n].verdict = "none" /\ increments[n].at >= 1

\* Verdicts are written to the row of the judge: by its number alone, so numbers must be its own.
LedgerInv == LedgerTyped /\ RowsOwned /\ JudgingHasRow /\ VerdictsAreOwn

\* The empty row is one of no plan.
LEMMA NoIncrementTyped == NoIncrement \in Increment /\ NoIncrement.at = 0
BY DEF NoIncrement, Increment

\* An empty ledger satisfies the invariant.
LEMMA LedgerInitially == CreditInit => LedgerInv
<1> SUFFICES ASSUME CreditInit PROVE LedgerInv
  OBVIOUS
<1>1. LedgerTyped
  <2>1. increments \in [Numbers -> Increment]
    BY NoIncrementTyped DEF CreditInit
  <2>2. proposal \in [Plans -> Proposal]
    BY DEF CreditInit, Proposal
  <2> QED
    BY <2>1, <2>2 DEF CreditInit, LedgerTyped
<1>2. Present = {}
  BY DEF CreditInit, Present
<1>3. JudgingHasRow
  BY DEF CreditInit, JudgingHasRow
<1> QED
  BY <1>1, <1>2, <1>3 DEF LedgerInv, RowsOwned, VerdictsAreOwn


\* The rows are finitely many: their number is the next one to be given.
LEMMA PresentCounted == Cardinality(Present) \in Nat
<1>1. Cardinality(Plans) \in Nat
  BY CreditAssumption, FS_CardinalityType
<1>2. IsFiniteSet(Numbers)
  BY <1>1, FS_Interval DEF Numbers
<1>3. IsFiniteSet(Present)
  BY <1>2, FS_Subset DEF Present
<1> QED
  BY <1>3, FS_CardinalityType

\* The places of a proposal that has no row yet.
Unplaced == {"new", "counted", "checked"}

\* A process that has no row, or gives its row up, disturbs no row.
LEMMA RowsUndisturbed ==
  ASSUME LedgerInv, NEW p \in Plans, NEW q \in Proposal,
         UNCHANGED <<increments, judged, creditCalls>>,
         proposal' = [proposal EXCEPT ![p] = q],
         q.pc # "judging",
         \/ proposal[p].pc \in Unplaced
         \/ q.pc \notin Unplaced /\ q.number = proposal[p].number
  PROVE  LedgerInv'
<1>1. LedgerTyped'
  BY DEF LedgerInv, LedgerTyped
<1>2. \A r \in Plans : proposal'[r] = IF r = p THEN q ELSE proposal[r]
  BY DEF LedgerInv, LedgerTyped
<1>3. RowsOwned'
  BY <1>2 DEF LedgerInv, RowsOwned, Present, Unplaced
<1>4. JudgingHasRow'
  BY <1>2 DEF LedgerInv, JudgingHasRow
<1>5. VerdictsAreOwn'
  BY DEF LedgerInv, VerdictsAreOwn, Present
<1> QED
  BY <1>1, <1>3, <1>4, <1>5 DEF LedgerInv

\* A row that keeps its plan, its verdict and its place disturbs no process.
LEMMA RowsKeepPlans ==
  ASSUME LedgerInv, UNCHANGED <<proposal, judged>>,
         creditCalls' \in [inserts : Nat, reports : Nat, prunes : Nat],
         increments' \in [Numbers -> Increment],
         \A n \in Numbers :
            \/ /\ increments'[n].plan = increments[n].plan
               /\ increments'[n].verdict = increments[n].verdict
               /\ increments'[n].at = increments[n].at
               /\ n \in Present' => n \in Present
            \/ /\ n \in Present => proposal[increments[n].plan].pc # "judging"
               /\ increments'[n] = NoIncrement
  PROVE  LedgerInv'
<1>1. LedgerTyped'
  BY DEF LedgerInv, LedgerTyped
<1>2. RowsOwned'
  BY DEF LedgerInv, RowsOwned, Present
<1>3. VerdictsAreOwn'
  BY DEF LedgerInv, VerdictsAreOwn, Present
<1>4. JudgingHasRow'
  BY NoIncrementTyped DEF LedgerInv, JudgingHasRow, Present
<1> QED
  BY <1>1, <1>2, <1>3, <1>4 DEF LedgerInv

\* The insert of a proposed increment, whose number is new, keeps the invariant.
LEMMA InsertsKeep ==
  ASSUME LedgerInv, NEW p \in Plans, Inserts(p)
  PROVE  LedgerInv'
<1> DEFINE n == proposal[p].number
<1>1. CASE Collides(n)
  <2>1. proposal' = [proposal EXCEPT ![p] = [proposal[p] EXCEPT !.pc = "crashed"]]
    BY <1>1 DEF Inserts, ProposalGoes, LedgerInv, LedgerTyped
  <2> DEFINE q == [proposal[p] EXCEPT !.pc = "crashed"]
  <2>2. q \in Proposal /\ q.pc = "crashed" /\ proposal[p].pc = "checked"
    BY DEF Inserts, LedgerInv, LedgerTyped, Proposal
  <2> QED
    BY <1>1, <2>1, <2>2, RowsUndisturbed DEF Inserts, Unplaced
<1>2. CASE ~Collides(n)
  <2> DEFINE row == [NoIncrement EXCEPT !.plan = p, !.at = creditCalls.inserts + 1]
             q == [proposal[p] EXCEPT !.pc = "judging"]
  <2>1. /\ proposal[p].pc = "checked"
        /\ n \notin Present
        /\ creditCalls' = [creditCalls EXCEPT !.inserts = @ + 1]
        /\ increments' = [increments EXCEPT ![n] = row]
        /\ UNCHANGED <<report, judged>>
    BY <1>2 DEF Inserts, Collides
  <2>2. proposal' = [proposal EXCEPT ![p] = q]
    BY <1>2 DEF Inserts, ProposalGoes, LedgerInv, LedgerTyped
  <2>3. q \in Proposal /\ q.pc = "judging" /\ q.number = n
    BY <2>1 DEF LedgerInv, LedgerTyped, Proposal
  <2>4. creditCalls.inserts + 1 \in Nat /\ creditCalls.inserts + 1 >= 1
    BY DEF LedgerInv, LedgerTyped
  <2>5. row \in Increment /\ row.plan = p /\ row.verdict = "none" /\ row.at >= 1
    BY <2>4 DEF NoIncrement, Increment
  <2> HIDE DEF q, row
  <2>6. LedgerTyped'
    <3>1. creditCalls' \in [inserts : Nat, reports : Nat, prunes : Nat]
      BY <2>1, <2>4 DEF LedgerInv, LedgerTyped
    <3> QED
      BY <2>1, <2>2, <2>3, <2>5, <3>1 DEF LedgerInv, LedgerTyped
  <2>7. /\ \A m \in Numbers : increments'[m] = IF m = n THEN row ELSE increments[m]
        /\ \A r \in Plans : proposal'[r] = IF r = p THEN q ELSE proposal[r]
    BY <2>1, <2>2 DEF LedgerInv, LedgerTyped
  <2>8. RowsOwned'
    BY <2>1, <2>3, <2>5, <2>7 DEF LedgerInv, RowsOwned, Present
  <2>9. JudgingHasRow'
    <3> SUFFICES ASSUME NEW r \in Plans, NEW m \in Numbers,
                        proposal'[r].pc = "judging", proposal'[r].number = m
                 PROVE  /\ increments'[m].plan = r
                        /\ increments'[m].verdict = "none"
                        /\ increments'[m].at >= 1
      BY DEF JudgingHasRow
    <3>1. CASE r = p
      BY <3>1, <2>3, <2>5, <2>7
    <3>2. CASE r # p
      <4>1. increments[m].plan = r /\ increments[m].verdict = "none" /\ increments[m].at >= 1
        BY <3>2, <2>7 DEF LedgerInv, JudgingHasRow
      <4>2. m \in Present
        BY <4>1, NoIncrementTyped DEF Present
      <4> QED
        BY <4>1, <4>2, <2>1, <2>7
    <3> QED
      BY <3>1, <3>2
  <2>10. VerdictsAreOwn'
    BY <2>1, <2>5, <2>7 DEF LedgerInv, VerdictsAreOwn, Present
  <2> QED
    BY <2>6, <2>8, <2>9, <2>10 DEF LedgerInv
<1> QED
  BY <1>1, <1>2

\* The accountant's steps, which write the verdict to the row of the number, keep it.
LEMMA JudgesKeep ==
  ASSUME LedgerInv, NEW p \in Plans, Judges(p)
  PROVE  LedgerInv'
<1> DEFINE n == proposal[p].number
<1>1. PICK v \in {"approved", "rejected"} :
          /\ judged' = [judged EXCEPT ![p] = v]
          /\ ProposalGoes(p, v)
          /\ increments' = [increments EXCEPT ![n].verdict = v]
  BY DEF Judges
<1> DEFINE q == [proposal[p] EXCEPT !.pc = v]
           row == [increments[n] EXCEPT !.verdict = v]
<1>2. proposal[p].pc = "judging" /\ UNCHANGED <<report, creditCalls>>
  BY DEF Judges
<1>3. q \in Proposal /\ q.pc = v /\ q.number = n
  BY DEF LedgerInv, LedgerTyped, Proposal
<1>4. proposal' = [proposal EXCEPT ![p] = q]
  BY <1>1 DEF ProposalGoes, LedgerInv, LedgerTyped
<1>5. increments' = [increments EXCEPT ![n] = row]
  BY <1>1 DEF LedgerInv, LedgerTyped
<1>6. n \in Numbers => /\ row \in Increment
                       /\ row.plan = increments[n].plan
                       /\ row.verdict = v
                       /\ row.at = increments[n].at
  BY DEF LedgerInv, LedgerTyped, Increment
<1> HIDE DEF q, row
<1>7. /\ \A m \in Numbers : increments'[m] = IF m = n THEN row ELSE increments[m]
      /\ \A r \in Plans : proposal'[r] = IF r = p THEN q ELSE proposal[r]
      /\ \A r \in Plans : judged'[r] = IF r = p THEN v ELSE judged[r]
  BY <1>1, <1>4, <1>5 DEF LedgerInv, LedgerTyped
<1>8. LedgerTyped'
  <2>1. increments' \in [Numbers -> Increment]
    BY <1>5, <1>6 DEF LedgerInv, LedgerTyped
  <2> QED
    BY <1>1, <1>2, <1>3, <1>4, <2>1 DEF LedgerInv, LedgerTyped
<1>9. n \in Numbers => n \in Present /\ increments[n].plan = p
  BY <1>2, NoIncrementTyped DEF LedgerInv, JudgingHasRow, Present
<1>10. \A m \in Present' : m \in Present
  BY <1>7, <1>9 DEF Present
<1>11. RowsOwned'
  BY <1>3, <1>6, <1>7, <1>10 DEF LedgerInv, RowsOwned, Present
<1>12. JudgingHasRow'
  BY <1>2, <1>3, <1>6, <1>7, <1>9 DEF LedgerInv, JudgingHasRow
<1>13. VerdictsAreOwn'
  <2> SUFFICES ASSUME NEW m \in Present', increments'[m].verdict # "none"
               PROVE  judged'[increments'[m].plan] = increments'[m].verdict
    BY DEF VerdictsAreOwn
  <2>1. m \in Numbers /\ m \in Present /\ increments[m].plan \in Plans
    BY <1>10 DEF LedgerInv, RowsOwned, Present
  <2>2. CASE m = n
    BY <2>1, <2>2, <1>6, <1>7, <1>9
  <2>3. CASE m # n
    <3>1. increments[m].plan # p
      BY <2>1, <2>3 DEF LedgerInv, RowsOwned
    <3> QED
      BY <2>1, <2>3, <3>1, <1>7 DEF LedgerInv, VerdictsAreOwn
  <2> QED
    BY <2>2, <2>3
<1> QED
  BY <1>8, <1>11, <1>12, <1>13 DEF LedgerInv

\* The invariant of the component is kept.
LEMMA LedgerKeeps == CreditSpec => []LedgerInv
<1>1. LedgerInv /\ [CreditNext]_cvars => LedgerInv'
  <2> SUFFICES ASSUME LedgerInv, [CreditNext]_cvars
               PROVE  LedgerInv'
    OBVIOUS
  <2>1. ASSUME NEW p \in Plans, Counts(p) PROVE LedgerInv'
    <3>1. [pc |-> "counted", number |-> Cardinality(Present) + 1] \in Proposal
      BY PresentCounted DEF Proposal
    <3> QED
      BY <2>1, <3>1, RowsUndisturbed DEF Counts, Unplaced
  <2>2. ASSUME NEW p \in Plans, ChecksPrior(p) PROVE LedgerInv'
    <3>1. PICK pc \in {"rejected", "checked"} : ProposalGoes(p, pc)
      BY <2>2 DEF ChecksPrior
    <3> DEFINE q == [proposal[p] EXCEPT !.pc = pc]
    <3>2. q \in Proposal /\ q.pc = pc /\ proposal[p].pc = "counted"
      BY <2>2 DEF ChecksPrior, LedgerInv, LedgerTyped, Proposal
    <3>3. proposal' = [proposal EXCEPT ![p] = q]
      BY <3>1 DEF ProposalGoes, LedgerInv, LedgerTyped
    <3> QED
      BY <2>2, <3>2, <3>3, RowsUndisturbed DEF ChecksPrior, Unplaced
  <2>3. ASSUME NEW p \in Plans, ProposalKilled(p) PROVE LedgerInv'
    <3> DEFINE q == [proposal[p] EXCEPT !.pc = "crashed"]
    <3>1. q \in Proposal /\ q.pc = "crashed" /\ q.number = proposal[p].number
      BY DEF LedgerInv, LedgerTyped, Proposal
    <3>2. proposal' = [proposal EXCEPT ![p] = q]
      BY <2>3 DEF ProposalKilled, ProposalGoes, LedgerInv, LedgerTyped
    <3> QED
      BY <2>3, <3>1, <3>2, RowsUndisturbed DEF ProposalKilled, Unplaced
  <2>4. ASSUME NEW n \in Numbers, Prunes(n) PROVE LedgerInv'
    <3> DEFINE Old == {m \in Present : increments[m].at <= increments[n].at}
    <3>1. /\ \A m \in Old : proposal[increments[m].plan].pc # "judging"
          /\ increments' = [m \in Numbers |-> IF m \in Old THEN NoIncrement ELSE increments[m]]
          /\ UNCHANGED <<proposal, judged>>
          /\ creditCalls' = [creditCalls EXCEPT !.prunes = @ + 1]
      BY <2>4 DEF Prunes
    <3>2. increments' \in [Numbers -> Increment]
      BY <3>1, NoIncrementTyped DEF LedgerInv, LedgerTyped
    <3>3. creditCalls' \in [inserts : Nat, reports : Nat, prunes : Nat]
      BY <3>1 DEF LedgerInv, LedgerTyped
    <3> HIDE DEF Old
    <3>4. \A m \in Numbers :
            \/ increments'[m] = increments[m]
            \/ /\ proposal[increments[m].plan].pc # "judging"
               /\ increments'[m] = NoIncrement
      BY <3>1
    <3> QED
      BY <3>1, <3>2, <3>3, <3>4, RowsKeepPlans DEF Present
  <2>5. ASSUME NEW n \in Numbers, NEW said \in Outcomes, Reports(n, said) PROVE LedgerInv'
    <3> DEFINE row == [increments[n] EXCEPT !.said = said]
    <3>1. /\ increments[n].verdict = "approved"
          /\ creditCalls' = [creditCalls EXCEPT !.reports = @ + 1]
          /\ UNCHANGED <<proposal, judged>>
      BY <2>5 DEF Reports
    <3>2. increments' = [increments EXCEPT ![n] = row]
      BY <2>5 DEF Reports, LedgerInv, LedgerTyped
    <3>3. /\ row \in Increment
          /\ row.plan = increments[n].plan /\ row.verdict = increments[n].verdict
          /\ row.at = increments[n].at
      BY DEF LedgerInv, LedgerTyped, Increment
    <3>4. n \in Present
      BY <3>1 DEF Present, NoIncrement
    <3> HIDE DEF row
    <3>5. \A m \in Numbers : increments'[m] = IF m = n THEN row ELSE increments[m]
      BY <3>2 DEF LedgerInv, LedgerTyped
    <3>6. increments' \in [Numbers -> Increment]
      BY <3>2, <3>3 DEF LedgerInv, LedgerTyped
    <3>7. creditCalls' \in [inserts : Nat, reports : Nat, prunes : Nat]
      BY <3>1 DEF LedgerInv, LedgerTyped
    <3> QED
      BY <3>1, <3>3, <3>4, <3>5, <3>6, <3>7, RowsKeepPlans DEF Present
  <2>6. CASE ReportJudged
    <3>1. PICK v \in {"approved", "rejected"} :
             increments' = [increments EXCEPT ![report.number].outcome =
                               IF report.number \in Present THEN v ELSE @]
      BY <2>6 DEF ReportJudged
    <3> DEFINE n == report.number
               row == [increments[n] EXCEPT !.outcome =
                          IF n \in Present THEN v ELSE increments[n].outcome]
    <3>2. increments' = [increments EXCEPT ![n] = row]
      BY <3>1 DEF LedgerInv, LedgerTyped
    <3>3. n \in Numbers =>
            /\ row \in Increment
            /\ row.plan = increments[n].plan /\ row.verdict = increments[n].verdict
            /\ row.at = increments[n].at
      BY DEF LedgerInv, LedgerTyped, Increment
    <3>4. n \in Numbers /\ n \notin Present => row = increments[n]
      BY DEF LedgerInv, LedgerTyped, Increment
    <3> HIDE DEF row
    <3>5. \A m \in Numbers : increments'[m] = IF m = n THEN row ELSE increments[m]
      BY <3>2 DEF LedgerInv, LedgerTyped
    <3>6. increments' \in [Numbers -> Increment]
      BY <3>2, <3>3 DEF LedgerInv, LedgerTyped
    <3>7. UNCHANGED <<proposal, judged, creditCalls>>
      BY <2>6 DEF ReportJudged
    <3>8. creditCalls' \in [inserts : Nat, reports : Nat, prunes : Nat]
      BY <3>7 DEF LedgerInv, LedgerTyped
    <3> QED
      BY <3>3, <3>4, <3>5, <3>6, <3>7, <3>8, RowsKeepPlans DEF Present
  <2>7. CASE ReportKilled \/ UNCHANGED cvars
    BY <2>7 DEF ReportKilled, cvars, LedgerInv, LedgerTyped, RowsOwned, JudgingHasRow,
                VerdictsAreOwn, Present
  <2> QED
    BY <2>1, <2>2, <2>3, <2>4, <2>5, <2>6, <2>7, InsertsKeep, JudgesKeep DEF CreditNext
<1> QED  BY LedgerInitially, <1>1, PTL DEF CreditSpec

\* Every verdict in credit_ledger is the one of the row's own plan and report, whatever
\* overlaps, crashes or is pruned (record_credit, judge_credit).
THEOREM OwnVerdicts == CreditSpec => []VerdictsAreOwn
BY LedgerKeeps, PTL DEF LedgerInv

\* The proposals that came as far as their insert.
Placed == {p \in Plans : proposal[p].pc \notin Unplaced}

\* Numbers are of plans, and a row's place is of an insert that some proposal made.
LedgerBounded ==
    /\ \A p \in Plans : proposal[p].number <= Cardinality(Plans) /\ proposal[p].number >= 1
    /\ report \in [pc : {"idle", "judging"}, number : Numbers \cup {1}, refused : BOOLEAN]
    /\ creditCalls.reports <= MaxReports /\ creditCalls.prunes <= MaxPrunes
    /\ \A n \in Numbers : increments[n].at <= creditCalls.inserts
    /\ creditCalls.inserts <= Cardinality(Placed)

\* The plans are finitely many.
LEMMA PlansCounted ==
    /\ Cardinality(Plans) \in Nat /\ MaxReports \in Nat /\ MaxPrunes \in Nat
    /\ \A S \in SUBSET Plans : IsFiniteSet(S) /\ Cardinality(S) \in Nat /\ Cardinality(S) <= Cardinality(Plans)
BY CreditAssumption, FS_CardinalityType, FS_Subset DEF CreditAssumption

\* A plan is not placed twice: as long as one has no row there is a number for it.
LEMMA NumberLeft ==
  ASSUME LedgerInv, NEW p \in Plans, proposal[p].pc = "new"
  PROVE  Cardinality(Present) + 1 \in Numbers
<1> DEFINE Others == Plans \ {p}
           owner == [n \in Present |-> increments[n].plan]
<1>1. IsFiniteSet(Others) /\ Cardinality(Others) = Cardinality(Plans) - 1
  BY CreditAssumption, FS_RemoveElement
<1>2. \A n \in Present : /\ increments[n].plan \in Others
                         /\ proposal[increments[n].plan].number = n
  BY DEF LedgerInv, RowsOwned
<1>3. owner \in Injection(Present, Others)
  BY <1>2, SMT DEF Injection, IsInjective
<1> HIDE DEF owner, Others
<1>4. Cardinality(Present) <= Cardinality(Others)
  BY <1>1, <1>3, FS_Injection
<1> QED  BY <1>1, <1>4, PresentCounted, PlansCounted DEF Numbers

\* The places are given out in turn: they stay within the plans.
LEMMA PlacedGrows ==
  ASSUME LedgerInv, NEW p \in Plans, NEW q, proposal' = [proposal EXCEPT ![p] = q],
         proposal[p].pc \in Unplaced \/ q.pc \notin Unplaced
  PROVE  /\ Cardinality(Placed) <= Cardinality(Placed')
         /\ proposal[p].pc \in Unplaced /\ q.pc \notin Unplaced => Cardinality(Placed') = Cardinality(Placed) + 1
         /\ Cardinality(Placed) \in Nat /\ Cardinality(Placed') \in Nat
<1>1. \A r \in Plans : proposal'[r] = IF r = p THEN q ELSE proposal[r]
  BY DEF LedgerInv, LedgerTyped
<1>2. Placed \subseteq Plans /\ Placed' \subseteq Plans
  BY DEF Placed
<1>3. CASE q.pc \in Unplaced
  <2>1. Placed' = Placed
    BY <1>1, <1>3 DEF Placed
  <2> QED  BY <1>2, <1>3, <2>1, PlansCounted
<1>4. CASE q.pc \notin Unplaced
  <2>1. Placed' = Placed \cup {p}
    BY <1>1, <1>4 DEF Placed
  <2>2. p \in Placed <=> proposal[p].pc \notin Unplaced
    BY DEF Placed
  <2> QED  BY <1>2, <1>4, <2>1, <2>2, PlansCounted, FS_AddElement
<1> QED  BY <1>3, <1>4

\* A step of a proposal that inserts nothing keeps the bounds.
LEMMA ProposalBounded ==
  ASSUME LedgerInv, LedgerBounded, NEW p \in Plans, NEW q, proposal' = [proposal EXCEPT ![p] = q],
         UNCHANGED <<increments, report, creditCalls>>,
         proposal[p].pc \in Unplaced \/ q.pc \notin Unplaced,
         q.number <= Cardinality(Plans), q.number >= 1
  PROVE  LedgerBounded'
<1>1. \A r \in Plans : proposal'[r] = IF r = p THEN q ELSE proposal[r]
  BY DEF LedgerInv, LedgerTyped
<1>2. /\ Cardinality(Placed) <= Cardinality(Placed')
      /\ Cardinality(Placed) \in Nat /\ Cardinality(Placed') \in Nat
  BY PlacedGrows
<1>3. creditCalls.inserts \in Nat
  BY DEF LedgerInv, LedgerTyped
<1>4. creditCalls'.inserts <= Cardinality(Placed')
  BY <1>2, <1>3 DEF LedgerBounded
<1> QED  BY <1>1, <1>4 DEF LedgerBounded

\* The ledger keeps its types: each plan is inserted once, so numbers and places are of plans.
LEMMA CreditTyped == CreditSpec => []CreditTypeOK
<1> USE PlansCounted
<1>1. CreditInit => LedgerBounded
  <2> SUFFICES ASSUME CreditInit PROVE LedgerBounded
    OBVIOUS
  <2>1. \A p \in Plans : proposal[p].number = 1 /\ Cardinality(Plans) >= 1
    <3>1. ASSUME NEW p \in Plans PROVE Cardinality(Plans) >= 1
      BY CreditAssumption, FS_EmptySet
    <3> QED  BY <3>1 DEF CreditInit
  <2>2. report \in [pc : {"idle", "judging"}, number : Numbers \cup {1}, refused : BOOLEAN]
    BY DEF CreditInit, NoReport
  <2>3. Cardinality(Placed) \in Nat
    BY DEF Placed
  <2> QED  BY <2>1, <2>2, <2>3, NoIncrementTyped DEF CreditInit, LedgerBounded
<1>2. LedgerInv /\ LedgerBounded => CreditTypeOK
  <2> SUFFICES ASSUME LedgerInv, LedgerBounded PROVE CreditTypeOK
    OBVIOUS
  <2>1. creditCalls.inserts \in Nat /\ creditCalls.inserts <= Cardinality(Plans)
    <3>1. Placed \subseteq Plans /\ creditCalls.inserts \in Nat
      BY DEF LedgerInv, LedgerTyped, Placed
    <3> QED  BY <3>1 DEF LedgerBounded
  <2>2. increments \in [Numbers -> [plan : Plans \cup {"none"},
                                    verdict : {"none", "approved", "rejected"},
                                    outcome : {"none", "approved", "rejected"},
                                    said : Outcomes \cup {"none"}, at : 0 .. Cardinality(Plans)]]
    <3>1. \A n \in Numbers : increments[n] \in Increment /\ increments[n].at <= creditCalls.inserts
      BY DEF LedgerInv, LedgerTyped, LedgerBounded
    <3>2. \A n \in Numbers : increments[n].at \in 0 .. Cardinality(Plans)
      BY <2>1, <3>1 DEF Increment
    <3>3. \A n \in Numbers : increments[n] \in [plan : Plans \cup {"none"},
                                    verdict : {"none", "approved", "rejected"},
                                    outcome : {"none", "approved", "rejected"},
                                    said : Outcomes \cup {"none"}, at : 0 .. Cardinality(Plans)]
      BY <3>1, <3>2 DEF Increment
    <3> QED  BY <3>3 DEF LedgerInv, LedgerTyped
  <2>3. proposal \in [Plans -> [pc : {"new", "counted", "checked", "judging", "crashed",
                                      "approved", "rejected"}, number : Numbers]]
    <3>1. \A p \in Plans : proposal[p] \in Proposal /\ proposal[p].number \in Numbers
      BY DEF LedgerInv, LedgerTyped, LedgerBounded, Proposal, Numbers
    <3> QED  BY <3>1 DEF LedgerInv, LedgerTyped, Proposal
  <2>4. creditCalls \in [inserts : 0 .. Cardinality(Plans), reports : 0 .. MaxReports,
                         prunes : 0 .. MaxPrunes]
    BY <2>1 DEF LedgerInv, LedgerTyped, LedgerBounded
  <2>5. report \in [pc : {"idle", "judging"}, number : Numbers \cup {1}, refused : BOOLEAN]
    BY DEF LedgerBounded
  <2>6. judged \in [Plans -> {"none", "approved", "rejected"}]
    BY DEF LedgerInv, LedgerTyped
  <2> QED  BY <2>2, <2>3, <2>4, <2>5, <2>6 DEF CreditTypeOK
<1>3. LedgerInv /\ LedgerBounded /\ [CreditNext]_cvars => LedgerBounded'
  <2> SUFFICES ASSUME LedgerInv, LedgerBounded, [CreditNext]_cvars PROVE LedgerBounded'
    OBVIOUS
  <2>0. /\ \A p \in Plans : proposal[p] \in Proposal
        /\ proposal \in [Plans -> Proposal] /\ increments \in [Numbers -> Increment]
        /\ creditCalls \in [inserts : Nat, reports : Nat, prunes : Nat]
    BY DEF LedgerInv, LedgerTyped
  <2>1. ASSUME NEW p \in Plans, Counts(p) PROVE LedgerBounded'
    <3> DEFINE q == [pc |-> "counted", number |-> Cardinality(Present) + 1]
    <3>1. q.number <= Cardinality(Plans) /\ q.number >= 1
      BY <2>1, NumberLeft DEF Counts, Numbers
    <3> QED  BY <2>1, <3>1, ProposalBounded DEF Counts, Unplaced
  <2>2. ASSUME NEW p \in Plans, NEW pc, ProposalGoes(p, pc),
               UNCHANGED <<increments, report, creditCalls>>,
               proposal[p].pc \in Unplaced \/ pc \notin Unplaced
        PROVE  LedgerBounded'
    <3> DEFINE q == [proposal[p] EXCEPT !.pc = pc]
    <3>1. proposal' = [proposal EXCEPT ![p] = q]
      BY <2>2 DEF ProposalGoes
    <3>2. q.pc = pc /\ q.number = proposal[p].number
      BY <2>0 DEF Proposal
    <3>3. q.number <= Cardinality(Plans) /\ q.number >= 1
      BY <3>2 DEF LedgerBounded
    <3> HIDE DEF q
    <3> QED  BY <2>2, <3>1, <3>2, <3>3, ProposalBounded
  <2>3. ASSUME NEW p \in Plans, ChecksPrior(p) PROVE LedgerBounded'
    BY <2>2, <2>3 DEF ChecksPrior, Unplaced
  <2>4. ASSUME NEW p \in Plans, ProposalKilled(p) PROVE LedgerBounded'
    BY <2>2, <2>4 DEF ProposalKilled, Unplaced
  <2>5. ASSUME NEW p \in Plans, Inserts(p) PROVE LedgerBounded'
    <3> DEFINE n == proposal[p].number
               row == [NoIncrement EXCEPT !.plan = p, !.at = creditCalls.inserts + 1]
               q == [proposal[p] EXCEPT !.pc = "judging"]
    <3>1. CASE Collides(n)
      BY <2>2, <2>5, <3>1 DEF Inserts, Unplaced
    <3>2. CASE ~Collides(n)
      <4>1. /\ creditCalls' = [creditCalls EXCEPT !.inserts = @ + 1]
            /\ increments' = [increments EXCEPT ![n] = row]
            /\ UNCHANGED report /\ proposal[p].pc \in Unplaced
        BY <2>5, <3>2 DEF Inserts, Unplaced
      <4>2. proposal' = [proposal EXCEPT ![p] = q]
        BY <2>5, <3>2 DEF Inserts, ProposalGoes
      <4>3. q.pc = "judging" /\ q.number = n
        BY <2>0 DEF Proposal
      <4>4. row.at = creditCalls.inserts + 1
        BY DEF NoIncrement
      <4>5. /\ creditCalls'.inserts = creditCalls.inserts + 1
            /\ creditCalls'.reports = creditCalls.reports /\ creditCalls'.prunes = creditCalls.prunes
            /\ creditCalls.inserts \in Nat
        BY <2>0, <4>1
      <4> HIDE DEF q, row
      <4>6. Cardinality(Placed') = Cardinality(Placed) + 1 /\ Cardinality(Placed) \in Nat
        BY <4>1, <4>2, <4>3, PlacedGrows DEF Unplaced
      <4>7. \A r \in Plans : proposal'[r].number = proposal[r].number
        BY <2>0, <4>2, <4>3
      <4>8. \A m \in Numbers : increments'[m] = IF m = n THEN row ELSE increments[m]
        BY <2>0, <4>1
      <4>9. \A m \in Numbers : increments'[m].at <= creditCalls'.inserts
        BY <2>0, <4>4, <4>5, <4>8 DEF LedgerBounded, Increment
      <4>10. creditCalls'.inserts <= Cardinality(Placed')
        BY <4>5, <4>6 DEF LedgerBounded
      <4> QED  BY <4>1, <4>5, <4>7, <4>9, <4>10 DEF LedgerBounded
    <3> QED  BY <3>1, <3>2
  <2>6. ASSUME UNCHANGED proposal, creditCalls'.inserts = creditCalls.inserts,
               creditCalls'.reports <= MaxReports, creditCalls'.prunes <= MaxPrunes,
               \A m \in Numbers : increments'[m].at <= increments[m].at /\ increments'[m].at \in Nat,
               report' \in [pc : {"idle", "judging"}, number : Numbers \cup {1}, refused : BOOLEAN]
        PROVE  LedgerBounded'
    <3>1. Placed' = Placed
      BY <2>6 DEF Placed
    <3>2. \A m \in Numbers : increments'[m].at <= creditCalls'.inserts
      BY <2>0, <2>6 DEF LedgerBounded, Increment
    <3> QED  BY <2>6, <3>1, <3>2 DEF LedgerBounded
  <2>7. ASSUME NEW p \in Plans, Judges(p) PROVE LedgerBounded'
    <3>1. PICK v \in {"approved", "rejected"} :
             /\ ProposalGoes(p, v)
             /\ increments' = [increments EXCEPT ![proposal[p].number].verdict = v]
      BY <2>7 DEF Judges
    <3>2. UNCHANGED <<report, creditCalls>> /\ proposal[p].pc = "judging"
      BY <2>7 DEF Judges
    <3> DEFINE q == [proposal[p] EXCEPT !.pc = v]
    <3>3. proposal' = [proposal EXCEPT ![p] = q] /\ q.pc = v /\ q.number = proposal[p].number
      BY <2>0, <3>1 DEF ProposalGoes, Proposal
    <3> HIDE DEF q
    <3>4. Cardinality(Placed) <= Cardinality(Placed') /\ Cardinality(Placed) \in Nat /\ Cardinality(Placed') \in Nat
      BY <3>3, PlacedGrows DEF Unplaced
    <3>5. \A m \in Numbers : increments'[m].at = increments[m].at
      BY <2>0, <3>1 DEF Increment
    <3>6. \A r \in Plans : proposal'[r].number = proposal[r].number
      BY <2>0, <3>3
    <3>7. creditCalls'.inserts <= Cardinality(Placed')
      BY <2>0, <3>2, <3>4 DEF LedgerBounded
    <3> QED  BY <3>2, <3>5, <3>6, <3>7 DEF LedgerBounded
  <2>8. ASSUME NEW n \in Numbers, Prunes(n) PROVE LedgerBounded'
    <3> DEFINE Old == {m \in Present : increments[m].at <= increments[n].at}
    <3>1. /\ increments' = [m \in Numbers |-> IF m \in Old THEN NoIncrement ELSE increments[m]]
          /\ UNCHANGED <<proposal, report>>
          /\ creditCalls' = [creditCalls EXCEPT !.prunes = @ + 1] /\ creditCalls.prunes < MaxPrunes
      BY <2>8 DEF Prunes
    <3> HIDE DEF Old
    <3>2. \A m \in Numbers : increments'[m].at <= increments[m].at /\ increments'[m].at \in Nat
      BY <2>0, <3>1, NoIncrementTyped DEF Increment
    <3>3. /\ creditCalls'.inserts = creditCalls.inserts
          /\ creditCalls'.reports <= MaxReports /\ creditCalls'.prunes <= MaxPrunes
      BY <2>0, <3>1 DEF LedgerBounded
    <3>4. report' \in [pc : {"idle", "judging"}, number : Numbers \cup {1}, refused : BOOLEAN]
      BY <3>1 DEF LedgerBounded
    <3> QED  BY <2>6, <3>1, <3>2, <3>3, <3>4
  <2>9. ASSUME NEW n \in Numbers, NEW said \in Outcomes, Reports(n, said) PROVE LedgerBounded'
    <3>1. /\ increments' = [increments EXCEPT ![n].said = said]
          /\ UNCHANGED proposal
          /\ creditCalls' = [creditCalls EXCEPT !.reports = @ + 1] /\ creditCalls.reports < MaxReports
      BY <2>9 DEF Reports
    <3>2. \A m \in Numbers : increments'[m].at <= increments[m].at /\ increments'[m].at \in Nat
      BY <2>0, <3>1 DEF Increment
    <3>3. /\ creditCalls'.inserts = creditCalls.inserts
          /\ creditCalls'.reports <= MaxReports /\ creditCalls'.prunes <= MaxPrunes
      BY <2>0, <3>1 DEF LedgerBounded
    <3>4. report' \in [pc : {"idle", "judging"}, number : Numbers \cup {1}, refused : BOOLEAN]
      <4>1. PICK b \in BOOLEAN : report' = [pc |-> "judging", number |-> n, refused |-> b]
        <5>1. (said = "thin" \/ RepeatedOutcome(n, said)) \in BOOLEAN
          BY Zenon DEF RepeatedOutcome
        <5> QED  BY <2>9, <5>1, Zenon DEF Reports
      <4> QED  BY <4>1
    <3> QED  BY <2>6, <3>1, <3>2, <3>3, <3>4
  <2>10. CASE ReportJudged
    <3>1. PICK v : increments' = [increments EXCEPT ![report.number].outcome = v]
      BY <2>10 DEF ReportJudged
    <3>2. UNCHANGED <<proposal, creditCalls>> /\ report' = NoReport
      BY <2>10 DEF ReportJudged
    <3>3. \A m \in Numbers : increments'[m].at <= increments[m].at /\ increments'[m].at \in Nat
      BY <2>0, <3>1 DEF Increment
    <3>4. report' \in [pc : {"idle", "judging"}, number : Numbers \cup {1}, refused : BOOLEAN]
      BY <3>2 DEF NoReport
    <3> QED  BY <2>6, <3>2, <3>3, <3>4 DEF LedgerBounded
  <2>11. CASE ReportKilled
    <3>1. report' \in [pc : {"idle", "judging"}, number : Numbers \cup {1}, refused : BOOLEAN]
      BY <2>11 DEF ReportKilled, NoReport
    <3>2. \A m \in Numbers : increments'[m].at <= increments[m].at /\ increments'[m].at \in Nat
      BY <2>0, <2>11 DEF ReportKilled, Increment
    <3> QED  BY <2>6, <2>11, <3>1, <3>2 DEF ReportKilled, LedgerBounded
  <2>12. CASE UNCHANGED cvars
    <3>1. Placed' = Placed
      BY <2>12 DEF cvars, Placed
    <3> QED  BY <2>12, <3>1 DEF cvars, LedgerBounded
  <2> QED
    BY <2>1, <2>3, <2>4, <2>5, <2>7, <2>8, <2>9, <2>10, <2>11, <2>12 DEF CreditNext
<1> QED  BY LedgerKeeps, <1>1, <1>2, <1>3, PTL DEF CreditSpec

-----------------------------------------------------------------------------
(* EmergencyCascade *)

\* The counts can take one step beyond the limit for each process.
LEMMA CountsCoverStop == MaxCount \in Nat /\ MaxCount >= StopTicks
<1>1. Cardinality(Dispatchers) \in Nat
  BY CascadeAssumption, FS_CardinalityType
<1> QED  BY <1>1, CascadeAssumption DEF MaxCount

\* The types of what the counters are made of.
CountersTyped ==
    /\ counts \in [Metrics -> 0 .. MaxCount]
    /\ streak \in [Metrics -> 0 .. StopTicks]
    /\ gtick \in [Dispatchers -> [pc : {"idle", "sampled", "locked", "saved", "shed"},
                                  over : SUBSET Metrics,
                                  read : [Metrics -> 0 .. MaxCount],
                                  victim : 0 .. NumRunners]]
    /\ mishaps \in Nat

\* The lock of the counters is that of the process between its load and its save.
CountsGuarded == \A g \in Dispatchers : gtick[g].pc = "locked" => countLock = g

\* No count is ahead of its streak: neither in the file nor in the hands of the
\* process that has the lock; and a process that saw the limit saw it due.
NeverAhead ==
    /\ \A m \in Metrics : due \/ counts[m] <= streak[m]
    /\ \A g \in Dispatchers : gtick[g].pc = "locked" =>
          \A m \in Metrics : due \/ gtick[g].read[m] <= streak[m]
    /\ \A g \in Dispatchers : gtick[g].pc = "saved" /\ Reached(g, StopTicks) => due
    /\ stopFile => due

\* Until somebody clears or kills, no count is behind its streak, and a limit that is
\* due is in the file or in the hands of a process that will write it.
NeverBehind ==
    mishaps = 0 =>
        /\ ~clearing
        /\ \A m \in Metrics : streak[m] <= counts[m]
        /\ \A g \in Dispatchers : gtick[g].pc = "locked" => gtick[g].read = counts
        /\ due => stopFile \/ \E g \in Dispatchers : gtick[g].pc = "saved" /\ Reached(g, StopTicks)

\* The counter file and the ticks there were agree, within what a lost write leaves out.
CascadeInv == CountersTyped /\ CountsGuarded /\ NeverAhead /\ NeverBehind

\* What a process is after its tick.
LEMMA TickOver ==
    /\ NoGovernorTick \in [pc : {"idle", "sampled", "locked", "saved", "shed"},
                           over : SUBSET Metrics, read : [Metrics -> 0 .. MaxCount],
                           victim : 0 .. NumRunners]
    /\ NoGovernorTick.pc = "idle"
BY CountsCoverStop, CascadeAssumption DEF NoGovernorTick

\* The invariant of the component is kept.
LEMMA CascadeKeeps == CascadeSpec => []CascadeInv
<1> USE CascadeAssumption, CountsCoverStop
<1>1. CascadeInit => CascadeInv
  BY TickOver
  DEF CascadeInit, CascadeInv, CountersTyped, CountsGuarded, NeverAhead, NeverBehind
<1>2. CascadeInv /\ [CascadeNext]_evars => CascadeInv'
  <2> SUFFICES ASSUME CascadeInv, [CascadeNext]_evars PROVE CascadeInv'
    OBVIOUS
  <2> USE DEF CascadeInv, CountersTyped, CountsGuarded, NeverAhead, NeverBehind
  <2>1. ASSUME NEW g \in Dispatchers, Samples(g) PROVE CascadeInv'
    <3>1. PICK over \in SUBSET Metrics :
            gtick' = [gtick EXCEPT ![g].pc = "sampled", ![g].over = over]
      BY <2>1 DEF Samples, Sampled
    <3>2. /\ gtick'[g].pc = "sampled" /\ gtick[g].pc = "idle"
          /\ \A h \in Dispatchers : h # g => gtick'[h] = gtick[h]
      BY <2>1, <3>1 DEF Samples
    <3>3. CountersTyped'
      <4> DEFINE new == [gtick[g] EXCEPT !.pc = "sampled", !.over = over]
      <4>1. gtick' = [gtick EXCEPT ![g] = new]
        BY <3>1, Zenon
      <4>2. new \in [pc : {"idle", "sampled", "locked", "saved", "shed"},
                     over : SUBSET Metrics, read : [Metrics -> 0 .. MaxCount],
                     victim : 0 .. NumRunners]
        OBVIOUS
      <4> HIDE DEF new
      <4> QED  BY <2>1, <4>1, <4>2 DEF Samples
    <3>4. \A h \in Dispatchers : gtick'[h].pc \in {"locked", "saved"} => gtick'[h] = gtick[h]
      BY <3>2
    <3>5. \A h \in Dispatchers : gtick[h].pc = "saved" => gtick'[h] = gtick[h]
      BY <3>2
    <3> QED  BY <2>1, <3>3, <3>4, <3>5 DEF Samples, Reached
  <2>2. ASSUME NEW g \in Dispatchers, Loads(g) PROVE CascadeInv'
    <3>1. gtick' = [gtick EXCEPT ![g].pc = "locked", ![g].read = counts]
      BY <2>2 DEF Loads
    <3>2. /\ gtick'[g].pc = "locked" /\ gtick[g].pc = "sampled" /\ gtick'[g].read = counts
          /\ \A h \in Dispatchers : h # g => gtick'[h] = gtick[h]
      BY <2>2, <3>1 DEF Loads
    <3>3. CountersTyped'
      <4> DEFINE new == [gtick[g] EXCEPT !.pc = "locked", !.read = counts]
      <4>1. gtick' = [gtick EXCEPT ![g] = new]
        BY <3>1, Zenon
      <4>2. new \in [pc : {"idle", "sampled", "locked", "saved", "shed"},
                     over : SUBSET Metrics, read : [Metrics -> 0 .. MaxCount],
                     victim : 0 .. NumRunners]
        OBVIOUS
      <4> HIDE DEF new
      <4>3. UNCHANGED <<counts, streak, mishaps>>
        BY <2>2 DEF Loads
      <4>4. gtick' \in [Dispatchers -> [pc : {"idle", "sampled", "locked", "saved", "shed"},
                                  over : SUBSET Metrics,
                                  read : [Metrics -> 0 .. MaxCount],
                                  victim : 0 .. NumRunners]]
        BY <4>1, <4>2
      <4> QED  BY <4>3, <4>4
    <3>4. countLock = "free" /\ countLock' = g
      BY <2>2 DEF Loads, CountsUnlocked
    <3>5. \A h \in Dispatchers : gtick'[h].pc = "locked" => h = g
      BY <3>2, <3>4
    <3>6. \A h \in Dispatchers :
             (gtick'[h].pc = "saved" <=> gtick[h].pc = "saved")
             /\ (gtick[h].pc = "saved" => gtick'[h] = gtick[h])
      BY <3>2
    <3> QED  BY <2>2, <3>2, <3>3, <3>4, <3>5, <3>6 DEF Loads, Reached
  <2>3. ASSUME NEW g \in Dispatchers, Saves(g) PROVE CascadeInv'
    <3>1. /\ gtick[g].pc = "locked" /\ countLock = g
          /\ counts' = [m \in Metrics |->
               IF m \in gtick[g].over /\ gtick[g].read[m] < MaxCount THEN gtick[g].read[m] + 1
               ELSE IF m \in gtick[g].over THEN MaxCount ELSE 0]
          /\ streak' = [m \in Metrics |->
               IF m \notin gtick[g].over THEN 0
               ELSE IF streak[m] < StopTicks THEN streak[m] + 1 ELSE StopTicks]
          /\ due' = (due \/ \E m \in Metrics : streak'[m] = StopTicks)
          /\ gtick' = [gtick EXCEPT ![g].pc = "saved", ![g].read = counts']
          /\ UNCHANGED <<stopFile, clearing, mishaps>>
      BY <2>3 DEF Saves
    <3>2. counts' \in [Metrics -> 0 .. MaxCount]
      BY <3>1
    <3>3. streak' \in [Metrics -> 0 .. StopTicks]
      BY <3>1
    <3>4. /\ gtick'[g].pc = "saved" /\ gtick'[g].read = counts'
          /\ \A h \in Dispatchers : h # g => gtick'[h] = gtick[h]
      BY <3>1
    <3>5. CountersTyped'
      <4> DEFINE new == [gtick[g] EXCEPT !.pc = "saved", !.read = counts']
      <4>1. gtick' = [gtick EXCEPT ![g] = new]
        BY <3>1, Zenon
      <4>2. new \in [pc : {"idle", "sampled", "locked", "saved", "shed"},
                     over : SUBSET Metrics, read : [Metrics -> 0 .. MaxCount],
                     victim : 0 .. NumRunners]
        BY <3>2
      <4> HIDE DEF new
      <4>3. gtick' \in [Dispatchers -> [pc : {"idle", "sampled", "locked", "saved", "shed"},
                                  over : SUBSET Metrics,
                                  read : [Metrics -> 0 .. MaxCount],
                                  victim : 0 .. NumRunners]]
        BY <4>1, <4>2
      <4> QED  BY <3>1, <3>2, <3>3, <4>3
    <3>6. \A h \in Dispatchers : gtick'[h].pc # "locked"
      BY <3>1, <3>4
    <3>7. due => due'
      BY <3>1
    <3>8. \A m \in Metrics : due' \/ counts'[m] <= streak'[m]
      <4> SUFFICES ASSUME NEW m \in Metrics, ~due' PROVE counts'[m] <= streak'[m]
        OBVIOUS
      <4>1. ~due /\ streak'[m] # StopTicks
        BY <3>1
      <4>2. gtick[g].read[m] <= streak[m] /\ gtick[g].read[m] \in 0 .. MaxCount
        BY <3>1, <4>1
      <4>3. CASE m \notin gtick[g].over
        BY <3>1, <4>3
      <4>4. CASE m \in gtick[g].over
        <5>1. streak[m] < StopTicks /\ streak'[m] = streak[m] + 1
          BY <3>1, <4>1, <4>4
        <5>2. gtick[g].read[m] < MaxCount
          BY <4>2, <5>1
        <5>3. counts'[m] = gtick[g].read[m] + 1
          BY <3>1, <4>4, <5>2
        <5> QED  BY <4>2, <5>1, <5>3
      <4> QED  BY <4>3, <4>4
    <3>9. Reached(g, StopTicks)' => due'
      <4> SUFFICES ASSUME NEW m \in Metrics, counts'[m] >= StopTicks PROVE due'
        BY <3>4 DEF Reached
      <4>1. due' \/ StopTicks <= streak'[m]
        BY <3>2, <3>3, <3>8
      <4>2. StopTicks <= streak'[m] => streak'[m] = StopTicks
        <5>1. streak'[m] \in 0 .. StopTicks
          BY <3>3
        <5>2. StopTicks \in Nat
          OBVIOUS
        <5> HIDE DEF CascadeInv, CountersTyped, CountsGuarded, NeverAhead, NeverBehind
        <5> QED  BY <5>1, <5>2
      <4>3. m \in Metrics => (streak'[m] = StopTicks => due')
        BY <3>1
      <4> QED  BY <4>1, <4>2, <4>3
    <3>10. NeverAhead'
      BY <3>1, <3>4, <3>6, <3>7, <3>8, <3>9 DEF Reached
    <3>11. NeverBehind'
      <4> SUFFICES ASSUME mishaps' = 0
                   PROVE  /\ ~clearing'
                          /\ \A m \in Metrics : streak'[m] <= counts'[m]
                          /\ due' => stopFile' \/ \E h \in Dispatchers :
                                         gtick'[h].pc = "saved" /\ Reached(h, StopTicks)'
        BY <3>6
      <4>1. ~clearing /\ mishaps = 0 /\ gtick[g].read = counts
        BY <3>1
      <4>2. \A m \in Metrics : streak'[m] <= counts'[m]
        BY <3>1, <3>2, <3>3, <4>1
      <4>3. CASE due
        <5>1. CASE stopFile
          BY <3>1, <5>1, <4>1, <4>2
        <5>2. CASE ~stopFile
          <6>1. PICK h \in Dispatchers : gtick[h].pc = "saved" /\ Reached(h, StopTicks)
            BY <4>1, <4>3, <5>2
          <6>2. gtick'[h] = gtick[h]
            BY <3>1, <3>4, <6>1
          <6> QED  BY <3>1, <4>1, <4>2, <6>1, <6>2 DEF Reached
        <5> QED  BY <5>1, <5>2
      <4>4. CASE ~due
        <5>1. (\E m \in Metrics : streak'[m] = StopTicks) => Reached(g, StopTicks)'
          BY <3>2, <3>4, <4>2 DEF Reached
        <5> QED  BY <3>1, <3>4, <4>1, <4>2, <4>4, <5>1
      <4> QED  BY <4>3, <4>4
    <3> QED  BY <3>5, <3>6, <3>10, <3>11
  <2>4. ASSUME NEW g \in Dispatchers, WritesStop(g) PROVE CascadeInv'
    <3>1. /\ gtick[g].pc = "saved" /\ Reached(g, StopTicks) /\ stopFile' = TRUE
          /\ gtick' = [gtick EXCEPT ![g] = NoGovernorTick]
          /\ UNCHANGED <<counts, countLock, clearing, streak, due, mishaps>>
      BY <2>4 DEF WritesStop
    <3>2. /\ gtick'[g].pc = "idle"
          /\ \A h \in Dispatchers : h # g => gtick'[h] = gtick[h]
      BY <3>1, TickOver
    <3>3. CountersTyped'
      BY <3>1, TickOver
    <3> QED  BY <3>1, <3>2, <3>3 DEF Reached
  <2>5. ASSUME NEW g \in Dispatchers, Picks(g) PROVE CascadeInv'
    <3>1. PICK r \in Runners : gtick' = [gtick EXCEPT ![g].pc = "shed", ![g].victim = r]
      BY <2>5 DEF Picks
    <3>2. /\ gtick[g].pc = "saved" /\ ~Reached(g, StopTicks) /\ gtick'[g].pc = "shed"
          /\ \A h \in Dispatchers : h # g => gtick'[h] = gtick[h]
          /\ UNCHANGED <<counts, countLock, stopFile, clearing, streak, due, mishaps>>
      BY <2>5, <3>1 DEF Picks
    <3>3. CountersTyped'
      <4> DEFINE new == [gtick[g] EXCEPT !.pc = "shed", !.victim = r]
      <4>1. gtick' = [gtick EXCEPT ![g] = new]
        BY <3>1, Zenon
      <4>2. new \in [pc : {"idle", "sampled", "locked", "saved", "shed"},
                     over : SUBSET Metrics, read : [Metrics -> 0 .. MaxCount],
                     victim : 0 .. NumRunners]
        <5>1. r \in 0 .. NumRunners
          BY DEF Runners
        <5> QED  BY <5>1
      <4> HIDE DEF new
      <4> QED  BY <3>2, <4>1, <4>2
    <3> QED  BY <3>2, <3>3, ZenonT(30) DEF Reached
  <2>6. ASSUME NEW g \in Dispatchers, Sheds(g) \/ GoesOn(g) PROVE CascadeInv'
    <3>1. /\ gtick[g].pc = "saved" => ~Reached(g, StopTicks)
          /\ gtick' = [gtick EXCEPT ![g] = NoGovernorTick]
          /\ UNCHANGED <<counts, countLock, stopFile, clearing, streak, due, mishaps>>
      <4>1. Reached(g, StopTicks) => Reached(g, ShedTicks)
        BY DEF Reached
      <4> QED  BY <2>6, <4>1 DEF Sheds, GoesOn
    <3>2. /\ gtick'[g].pc = "idle"
          /\ \A h \in Dispatchers : h # g => gtick'[h] = gtick[h]
      BY <3>1, TickOver
    <3>3. CountersTyped'
      BY <3>1, TickOver
    <3> QED  BY <3>1, <3>2, <3>3 DEF Reached
  <2>7. ASSUME NEW g \in Dispatchers, SampleKilled(g) PROVE CascadeInv'
    <3>1. /\ mishaps' = mishaps + 1
          /\ gtick' = [gtick EXCEPT ![g] = NoGovernorTick]
          /\ countLock' = IF countLock = g THEN "free" ELSE countLock
          /\ UNCHANGED <<counts, stopFile, clearing, streak, due>>
      BY <2>7 DEF SampleKilled, Mishap
    <3>2. /\ gtick'[g].pc = "idle"
          /\ \A h \in Dispatchers : h # g => gtick'[h] = gtick[h]
      BY <3>1, TickOver
    <3>3. CountersTyped'
      BY <3>1, TickOver
    <3> QED  BY <3>1, <3>2, <3>3 DEF Reached
  <2>8. CASE StartsClearing
    BY <2>8 DEF StartsClearing, Mishap, Reached
  <2>9. CASE EndsClearing
    <3>1. /\ counts' = [m \in Metrics |-> 0] /\ clearing
          /\ UNCHANGED <<countLock, stopFile, gtick, streak, due, mishaps>>
      BY <2>9 DEF EndsClearing
    <3>2. mishaps # 0
      BY <3>1
    <3> QED  BY <3>1, <3>2 DEF Reached
  <2>10. ASSUME NEW r \in Runners, RunnerEnds(r) PROVE CascadeInv'
    BY <2>10 DEF RunnerEnds, Reached
  <2>11. CASE UNCHANGED evars
    BY <2>11 DEF evars, Reached
  <2> QED  BY <2>1, <2>2, <2>3, <2>4, <2>5, <2>6, <2>7, <2>8, <2>9, <2>10, <2>11 DEF CascadeNext
<1> QED  BY <1>1, <1>2, PTL DEF CascadeSpec

\* The stop file is there exactly when a streak was full, for every number of
\* processes and metrics.
THEOREM StopWhenDue == CascadeSpec => []StopsWhenDue
<1> USE CascadeAssumption, CountsCoverStop
<1>1. CascadeInv => StopsWhenDue
  BY DEF CascadeInv, NeverAhead, NeverBehind, StopsWhenDue
<1> QED  BY CascadeKeeps, <1>1, PTL

\* What an operator, a dispatch and a kill leave of the stop file and the runners.
CascadeRest ==
    /\ countLock \in Dispatchers \cup {"free"}
    /\ stopFile \in BOOLEAN
    /\ runner \in [Runners -> {"running", "sigterm_sent", "ended"}]
    /\ clearing \in BOOLEAN
    /\ due \in BOOLEAN
    /\ mishaps \in 0 .. MaxMishaps

\* The counters, the ticks and the runners keep their types.
LEMMA CascadeTyped == CascadeSpec => []CascadeTypeOK
<1> USE CascadeAssumption
<1>1. CascadeInit => CascadeRest
  <2> SUFFICES ASSUME CascadeInit PROVE CascadeRest
    OBVIOUS
  <2>1. runner \in [Runners -> {"running", "sigterm_sent", "ended"}] /\ mishaps \in 0 .. MaxMishaps
    BY DEF CascadeInit
  <2> QED  BY <2>1, Zenon DEF CascadeInit, CascadeRest
<1>2. CascadeInv /\ CascadeRest => CascadeTypeOK
  BY Zenon DEF CascadeInv, CountersTyped, CascadeRest, CascadeTypeOK
<1>3. CascadeInv /\ CascadeRest /\ [CascadeNext]_evars => CascadeRest'
  <2> SUFFICES ASSUME CascadeRest, [CascadeNext]_evars PROVE CascadeRest'
    OBVIOUS
  <2> USE DEF CascadeRest
  <2>1. countLock' \in Dispatchers \cup {"free"}
    <3>1. ASSUME NEW g \in Dispatchers, SampleKilled(g) PROVE countLock' \in Dispatchers \cup {"free"}
      BY <3>1 DEF SampleKilled
    <3>2. ASSUME NEW g \in Dispatchers, Loads(g) \/ Saves(g)
          PROVE  countLock' \in Dispatchers \cup {"free"}
      BY <3>2 DEF Loads, Saves
    <3>3. \/ \E g \in Dispatchers : SampleKilled(g) \/ Loads(g) \/ Saves(g)
          \/ UNCHANGED countLock
      BY Zenon DEF CascadeNext, evars, Samples, WritesStop, Picks, Sheds, GoesOn, StartsClearing,
         EndsClearing, RunnerEnds
    <3> QED  BY <3>1, <3>2, <3>3
  <2>2. stopFile' \in BOOLEAN
    BY Zenon DEF CascadeNext, evars, Samples, Loads, Saves, WritesStop, Picks, Sheds, GoesOn, SampleKilled,
       StartsClearing, EndsClearing, RunnerEnds
  <2>3. runner' \in [Runners -> {"running", "sigterm_sent", "ended"}]
    <3>1. UNCHANGED runner \/ \E s \in {"sigterm_sent", "ended"} : \E r : runner' = [runner EXCEPT ![r] = s]
      BY Zenon DEF CascadeNext, evars, Samples, Loads, Saves, WritesStop, Picks, Sheds, GoesOn, SampleKilled,
         StartsClearing, EndsClearing, RunnerEnds
    <3> QED  BY <3>1
  <2>4. clearing' \in BOOLEAN
    BY Zenon DEF CascadeNext, evars, Samples, Loads, Saves, WritesStop, Picks, Sheds, GoesOn, SampleKilled,
       StartsClearing, EndsClearing, RunnerEnds
  <2>5. due' \in BOOLEAN
    BY Zenon DEF CascadeNext, evars, Samples, Loads, Saves, WritesStop, Picks, Sheds, GoesOn, SampleKilled,
       StartsClearing, EndsClearing, RunnerEnds
  <2>6. mishaps' \in 0 .. MaxMishaps
    <3>1. UNCHANGED mishaps \/ Mishap
      BY Zenon DEF CascadeNext, evars, Samples, Loads, Saves, WritesStop, Picks, Sheds, GoesOn, SampleKilled,
         StartsClearing, EndsClearing, RunnerEnds
    <3> QED  BY <3>1 DEF Mishap
  <2> QED  BY <2>1, <2>2, <2>3, <2>4, <2>5, <2>6
<1> QED
  BY <1>1, <1>2, <1>3, CascadeKeeps, PTL DEF CascadeSpec

-----------------------------------------------------------------------------

-----------------------------------------------------------------------------
(* OcidRegistry *)

\* The rows and what the batches read of them keep their types.
LEMMA OcidTyped == OcidSpec => []OcidTypeOK
<1>1. OcidInit => OcidTypeOK
  <2>1. {Blank, [Blank EXCEPT !.umr = TRUE, !.claim = TRUE]} \subseteq OcidRows
    <3>1. Blank \in OcidRows
      BY DEF Blank, OcidRows
    <3> QED  BY <3>1 DEF OcidRows
  <2>2. NoBatch \in [script : Scripts \cup {"none"}, rows : [Ocids -> OcidRows]]
    BY <2>1 DEF NoBatch
  <2> QED  BY <2>1, <2>2 DEF OcidInit, OcidTypeOK
<1>2. OcidTypeOK /\ [OcidNext]_ovars => OcidTypeOK'
  <2> SUFFICES ASSUME OcidTypeOK, [OcidNext]_ovars PROVE OcidTypeOK'
    OBVIOUS
  <2> USE DEF OcidTypeOK
  <2>1. ASSUME NEW o \in Ocids, Resolve(o) PROVE OcidTypeOK'
    <3>1. Blank \in OcidRows
      BY DEF Blank, OcidRows
    <3>2. Fresh \subseteq OcidRows
      BY <3>1 DEF Fresh, OcidRows
    <3> QED  BY <2>1, <3>2 DEF Resolve
  <2>2. ASSUME NEW b \in Batches, BatchReads(b) PROVE OcidTypeOK'
    <3>1. PICK s \in Scripts : batch' = [batch EXCEPT ![b] = [script |-> s, rows |-> ocid]]
      BY <2>2 DEF BatchReads
    <3>2. [script |-> s, rows |-> ocid] \in [script : Scripts \cup {"none"}, rows : [Ocids -> OcidRows]]
      OBVIOUS
    <3> QED  BY <2>2, <3>1, <3>2 DEF BatchReads
  <2>3. ASSUME NEW b \in Batches, BatchWrites(b) PROVE OcidTypeOK'
    BY <2>3 DEF BatchWrites, NoBatch, Blank, OcidRows
  <2>4. ASSUME NEW b \in Batches, BatchStops(b) PROVE OcidTypeOK'
    BY <2>4 DEF BatchStops, NoBatch, Blank, OcidRows
  <2>5. CASE UNCHANGED ovars
    BY <2>5 DEF ovars
  <2> QED  BY <2>1, <2>2, <2>3, <2>4, <2>5 DEF OcidNext
<1> QED  BY <1>1, <1>2, PTL DEF OcidSpec

\* No batch script, whenever it read the rows, turns a proven claim of completion into
\* one without evidence: for every number of OCIDs and scripts.
THEOREM ClaimsStay == OcidSpec => ClaimsStayProven
<1> DEFINE Stays == \A o \in Ocids :
                      ocid[o].claim /\ ocid[o].schema => (ocid'[o].claim => ocid'[o].schema)
<1>1. OcidTypeOK /\ [OcidNext]_ovars => [Stays]_ocid
  <2> SUFFICES ASSUME OcidTypeOK, OcidNext, NEW o \in Ocids, 
                      ocid[o].claim, ocid[o].schema, ocid'[o].claim
               PROVE  ocid'[o].schema
    BY DEF ovars
  <2> USE DEF OcidTypeOK
  <2>1. ASSUME NEW p \in Ocids, Resolve(p) PROVE ocid'[o].schema
    BY <2>1 DEF Resolve, Fresh, Blank
  <2>2. ASSUME NEW b \in Batches, BatchWrites(b) PROVE ocid'[o].schema
    <3>1. PICK plan \in [Ocids -> OcidRows] :
            ocid' = [q \in Ocids |->
                       IF \E k \in 1 .. q : Refused(plan[k], ocid[k]) THEN ocid[q] ELSE plan[q]]
      BY <2>2 DEF BatchWrites
    <3>2. CASE \E k \in 1 .. o : Refused(plan[k], ocid[k])
      BY <3>1, <3>2
    <3>3. CASE ~\E k \in 1 .. o : Refused(plan[k], ocid[k])
      <4>1. o \in 1 .. o
        BY DEF Ocids
      <4>2. ~Refused(plan[o], ocid[o]) /\ ocid'[o] = plan[o]
        BY <3>1, <3>3, <4>1
      <4> QED  BY <4>2 DEF Refused
    <3> QED  BY <3>2, <3>3
  <2>3. ASSUME NEW b \in Batches, BatchReads(b) \/ BatchStops(b) PROVE ocid'[o].schema
    BY <2>3 DEF BatchReads, BatchStops
  <2> QED  BY <2>1, <2>2, <2>3 DEF OcidNext
<1> QED  BY <1>1, OcidTyped, PTL DEF OcidSpec, ClaimsStayProven

\* A transition that waits for the lock was legal after a state that was reached.
CallerLegal ==
    caller # NoCaller =>
        /\ caller.to \in LifeStates
        /\ \E p \in reached \cup {"none"} : caller.to \in Legal(p)

\* No stage is skipped, and what a caller read is a stage the row had.
LifeInv == LifeTypeOK /\ NoStageSkipped /\ CallerLegal

\* "none" is no state of an OCID.
LEMMA NoneIsNoState == "none" \notin LifeStates
BY DEF LifeStates, MainPath

\* The invariant of the component is kept.
LEMMA LifeKeeps == LifeSpec => []LifeInv
<1> USE NoneIsNoState
<1>1. LifeInit => LifeInv
  BY DEF LifeInit, LifeInv, LifeTypeOK, Lives, NoLife, NoCaller, NoStageSkipped, CallerLegal
<1>2. LifeInv /\ [LifeNext]_lifevars => LifeInv'
  <2> SUFFICES ASSUME LifeInv, [LifeNext]_lifevars PROVE LifeInv'
    OBVIOUS
  <2> USE DEF LifeInv, LifeTypeOK, Lives
  <2>1. CASE TransitionReads
    BY <2>1 DEF TransitionReads, Allowed, CallerLegal, NoStageSkipped, NoCaller
  <2>2. CASE TransitionWrites
    <3>1. caller'.to = "none" /\ caller' = NoCaller /\ reached' = reached \cup {caller.to}
          /\ life' = [state |-> caller.to, umr |-> caller.umr]
      BY <2>2 DEF TransitionWrites, NoCaller
    <3>2. NoStageSkipped'
      BY <2>2, <3>1 DEF TransitionWrites, CallerLegal, NoStageSkipped
    <3> QED  BY <2>2, <3>1, <3>2 DEF CallerLegal, NoCaller, TransitionWrites
  <2>3. CASE Transition
    <3>1. PICK to \in LifeStates, u \in 1 .. 2 :
            /\ to \in Legal(life.state)
            /\ life' = [state |-> to, umr |-> u]
            /\ reached' = reached \cup {to}
      BY <2>3 DEF Transition, Allowed
    <3>2. NoStageSkipped'
      BY <3>1 DEF NoStageSkipped
    <3> QED  BY <2>3, <3>1, <3>2 DEF CallerLegal, Transition
  <2>4. CASE UNCHANGED lifevars
    BY <2>4 DEF lifevars, CallerLegal, NoStageSkipped
  <2> QED  BY <2>1, <2>2, <2>3, <2>4 DEF LifeNext
<1> QED  BY <1>1, <1>2, PTL DEF LifeSpec

\* No race of transitions records a stage whose legal predecessor was not recorded.
THEOREM StagesInOrder == LifeSpec => []NoStageSkipped
BY LifeKeeps, PTL DEF LifeInv

-----------------------------------------------------------------------------
(* OwnerPhases *)

\* What an advancing process holds was found by a check.
HeldIsVerified ==
    \A a \in Advancers :
        /\ advancer[a] # Idle => advancer[a].pc = "checks" /\ advancer[a].phase \in Phases
        /\ advancer[a].confirmed \subseteq verified /\ advancer[a].found \subseteq verified

\* So is what is in the memo of a phase.
MemoIsVerified == \A p \in Phases : phase[p].confirmed \subseteq verified

\* The phase is advanced on evidence, which a call holds or its memo remembers.
PhaseInv == PhaseTypeOK /\ OnePhaseAtATime /\ HeldIsVerified /\ MemoIsVerified

\* What the memo of a phase says after a call is verified, and so is what it decides by.
LEMMA DecidedOnEvidence ==
    ASSUME PhaseInv, NEW a \in Advancers, advancer[a].pc = "checks"
    PROVE  /\ Memo(a) \subseteq verified /\ Memo(a) \subseteq MemberRows
           /\ Confirmed(a) \subseteq verified
<1>1. advancer[a].phase \in Phases
  BY DEF PhaseInv, HeldIsVerified, Idle
<1> QED  BY <1>1 DEF PhaseInv, PhaseTypeOK, HeldIsVerified, MemoIsVerified, Memo, Confirmed

\* The end of the active phase makes the next one active: the order is kept.
LEMMA EndKeepsOrder ==
    ASSUME PhaseInv, NEW a \in Advancers, AdvanceEnds(a)
    PROVE  OnePhaseAtATime'
<1> DEFINE p == advancer[a].phase
           next == IF PhaseOver(a) THEN Following(p) ELSE {}
           seq == [q \in Phases |->
                     [status |-> IF q \in next THEN "active"
                                 ELSE IF q = p /\ PhaseOver(a) THEN "complete"
                                 ELSE phase[q].status,
                      confirmed |-> IF q = p THEN Memo(a) ELSE phase[q].confirmed]]
<1>1. phase' = seq /\ override' = OverrideOf(seq) /\ verified' = verified
  BY DEF AdvanceEnds
<1>2. p \in Phases
  BY DEF PhaseInv, HeldIsVerified, AdvanceEnds, Idle
<1>3. override' = OverrideOf(phase')
  BY <1>1
<1> HIDE DEF next, seq
<1>4. \A q \in Phases : phase'[q].status = IF q \in next THEN "active"
                                 ELSE IF q = p /\ PhaseOver(a) THEN "complete"
                                 ELSE phase[q].status
  BY <1>1 DEF seq
<1>5. CASE ~PhaseOver(a)
  <2>1. \A q \in Phases : phase'[q].status = phase[q].status
    BY <1>4, <1>5 DEF next
  <2> QED  BY <1>1, <1>3, <2>1 DEF PhaseInv, OnePhaseAtATime
<1>6. CASE PhaseOver(a)
  <2>1. phase[p].status = "active" /\ Members[p] \subseteq verified
    <3>1. advancer[a].pc = "checks"
      BY DEF AdvanceEnds
    <3> QED  BY <1>6, <3>1, DecidedOnEvidence DEF PhaseOver
  <2>2. /\ \A q \in Phases : q < p => phase[q].status = "complete"
        /\ \A q \in Phases : p < q => phase[q].status = "pending"
    BY <1>2, <2>1 DEF PhaseInv, OnePhaseAtATime
  <2>3. \A q \in next : /\ q \in Phases /\ p < q
                        /\ \A k \in Phases : p < k => q <= k
    BY <1>2, <1>6, <2>2 DEF next, Following, Phases
  <2>4. /\ \A q \in Phases : q < p => phase'[q].status = "complete"
        /\ phase'[p].status = "complete"
        /\ \A q \in Phases : p < q => phase'[q].status = IF q \in next THEN "active" ELSE "pending"
    BY <1>2, <1>4, <1>6, <2>2, <2>3 DEF Phases
  <2>5. \A q, r \in Phases : q < r =>
          /\ phase'[r].status # "pending" => phase'[q].status = "complete"
          /\ phase'[q].status # "complete" => phase'[r].status = "pending"
    <3> SUFFICES ASSUME NEW q \in Phases, NEW r \in Phases, q < r
                 PROVE  /\ phase'[r].status # "pending" => phase'[q].status = "complete"
                        /\ phase'[q].status # "complete" => phase'[r].status = "pending"
      OBVIOUS
    <3>1. q \in Nat /\ r \in Nat /\ p \in Nat
      BY <1>2 DEF Phases
    <3>2. CASE q <= p
      BY <1>2, <2>4, <3>1, <3>2
    <3>3. CASE p < q
      <4>1. p < r /\ ~(r <= q)
        BY <3>1, <3>3
      <4>2. r \notin next
        BY <2>3, <3>3, <4>1
      <4> QED  BY <2>4, <4>1, <4>2
    <3> QED  BY <3>1, <3>2, <3>3
  <2>6. \A q \in Phases : phase'[q].status = "complete" => Members[q] \subseteq verified'
    <3> SUFFICES ASSUME NEW q \in Phases, phase'[q].status = "complete"
                 PROVE  Members[q] \subseteq verified
      BY <1>1
    <3>1. q \in Nat /\ p \in Nat
      BY <1>2 DEF Phases
    <3> QED  BY <1>2, <2>1, <2>2, <2>4, <3>1 DEF PhaseInv, OnePhaseAtATime
  <2> QED  BY <1>3, <2>5, <2>6 DEF OnePhaseAtATime
<1> QED  BY <1>5, <1>6

\* A seed begins with the first phase.
LEMMA SeedInOrder ==
    ASSUME phase' = Seeded, override' = OverrideOf(Seeded)
    PROVE  OnePhaseAtATime'
<1>1. \A q \in Phases : phase'[q].status = IF q = 1 THEN "active" ELSE "pending"
  BY DEF Seeded
<1>2. \A q, r \in Phases : q < r => r # 1
  BY DEF Phases
<1> QED  BY <1>1, <1>2 DEF OnePhaseAtATime

\* The invariant of the component is kept.
LEMMA PhasesKeep == PhaseSpec => []PhaseInv
<1>1. PhaseInit => PhaseInv
  <2> SUFFICES ASSUME PhaseInit PROVE PhaseInv
    OBVIOUS
  <2> USE PhasesAssumption DEF PhaseInit
  <2>1. \A q \in Phases : Seeded[q].status = IF q = 1 THEN "active" ELSE "pending"
    BY DEF Seeded
  <2>2. \A q, r \in Phases : q < r => r # 1
    BY DEF Phases
  <2>3. OnePhaseAtATime
    BY <2>1, <2>2 DEF OnePhaseAtATime
  <2>4. PhaseTypeOK
    BY DEF PhaseTypeOK, Seeded, Idle, OverrideOf, MemberRows
  <2> QED  BY <2>3, <2>4 DEF PhaseInv, HeldIsVerified, MemoIsVerified, Idle, Seeded
<1>2. PhaseInv /\ [PhaseNext]_pvars => PhaseInv'
  <2> SUFFICES ASSUME PhaseInv, [PhaseNext]_pvars PROVE PhaseInv'
    OBVIOUS
  <2> USE PhasesAssumption DEF PhaseInv
  <2>1. ASSUME NEW a \in Advancers, AdvanceBegins(a) PROVE PhaseInv'
    <3>1. PICK p \in Phases :
            advancer' = [advancer EXCEPT ![a] =
                 [pc |-> "checks", phase |-> p, confirmed |-> phase[p].confirmed,
                  left |-> Batch(p), found |-> {}]]
      BY <2>1 DEF AdvanceBegins
    <3>2. /\ UNCHANGED <<phase, override, proven, verified, reseeds>>
          /\ p \in 0 .. NumPhases
      BY <2>1 DEF AdvanceBegins, Phases
    <3>3. Batch(p) \subseteq MemberRows /\ phase[p].confirmed \subseteq MemberRows
      BY DEF Batch, MemberRows, PhaseTypeOK
    <3>4. PhaseTypeOK'
      BY <3>1, <3>2, <3>3 DEF PhaseTypeOK
    <3>5. OnePhaseAtATime' /\ MemoIsVerified'
      BY <3>2 DEF OnePhaseAtATime, MemoIsVerified
    <3>6. HeldIsVerified'
      BY <3>1, <3>2 DEF HeldIsVerified, MemoIsVerified, PhaseTypeOK, Idle
    <3> QED  BY <3>4, <3>5, <3>6
  <2>2. ASSUME NEW a \in Advancers, AdvanceEnds(a) PROVE PhaseInv'
    <3> DEFINE p == advancer[a].phase
               next == IF PhaseOver(a) THEN Following(p) ELSE {}
               seq == [q \in Phases |->
                     [status |-> IF q \in next THEN "active"
                                 ELSE IF q = p /\ PhaseOver(a) THEN "complete"
                                 ELSE phase[q].status,
                      confirmed |-> IF q = p THEN Memo(a) ELSE phase[q].confirmed]]
    <3>1. /\ phase' = seq /\ override' = OverrideOf(seq)
          /\ advancer' = [advancer EXCEPT ![a] = Idle]
          /\ UNCHANGED <<proven, verified, reseeds>>
      BY <2>2 DEF AdvanceEnds
    <3>2. Memo(a) \subseteq verified /\ Memo(a) \subseteq MemberRows
      BY <2>2, DecidedOnEvidence DEF AdvanceEnds
    <3>3. OverrideOf(seq) \subseteq MemberRows
      BY DEF OverrideOf, MemberRows
    <3> HIDE DEF next
    <3>4. seq \in [Phases -> [status : {"pending", "active", "complete"},
                             confirmed : SUBSET MemberRows]]
      BY <3>2 DEF PhaseTypeOK
    <3>5. MemoIsVerified'
      BY <3>1, <3>2 DEF MemoIsVerified
    <3> HIDE DEF seq
    <3>6. Idle \in [pc : {"idle", "checks"}, phase : 0 .. NumPhases,
                     confirmed : SUBSET MemberRows, left : SUBSET MemberRows,
                     found : SUBSET MemberRows]
      BY DEF Idle
    <3>7. PhaseTypeOK'
      BY <3>1, <3>3, <3>4, <3>6 DEF PhaseTypeOK
    <3>8. HeldIsVerified'
      BY <3>1 DEF HeldIsVerified, Idle, PhaseTypeOK
    <3> QED  BY <2>2, <3>5, <3>7, <3>8, EndKeepsOrder
  <2>3. ASSUME NEW a \in Advancers, AdvanceFails(a) PROVE PhaseInv'
    BY <2>3 DEF AdvanceFails, PhaseTypeOK, OnePhaseAtATime, HeldIsVerified, MemoIsVerified, Idle
  <2>4. ASSUME NEW a \in Advancers, NEW m \in MemberRows, AdvanceChecks(a, m)
        PROVE  PhaseInv'
    <3>1. /\ verified' = IF m \in proven THEN verified \cup {m} ELSE verified
          /\ verified \subseteq verified'
          /\ UNCHANGED <<phase, override, proven, reseeds>>
          /\ advancer' = [advancer EXCEPT ![a].left = @ \ {m},
                                   ![a].found = IF m \in proven THEN @ \cup {m} ELSE @]
      BY <2>4 DEF AdvanceChecks
    <3>2. PhaseTypeOK'
      <4> DEFINE found == IF m \in proven THEN advancer[a].found \cup {m} ELSE advancer[a].found
      <4>1. found \subseteq MemberRows /\ verified' \subseteq MemberRows
        BY <3>1 DEF PhaseTypeOK
      <4>2. advancer' = [advancer EXCEPT ![a].left = @ \ {m}, ![a].found = found]
        BY <3>1
      <4> HIDE DEF found
      <4> DEFINE new == [advancer[a] EXCEPT !.left = @ \ {m}, !.found = found]
      <4>3. new \in [pc : {"idle", "checks"}, phase : 0 .. NumPhases,
                     confirmed : SUBSET MemberRows, left : SUBSET MemberRows,
                     found : SUBSET MemberRows]
        BY <4>1 DEF PhaseTypeOK
      <4>4. advancer' = [advancer EXCEPT ![a] = new]
        BY <4>2, Zenon DEF PhaseTypeOK
      <4> HIDE DEF new
      <4>5. advancer' \in [Advancers -> [pc : {"idle", "checks"}, phase : 0 .. NumPhases,
                            confirmed : SUBSET MemberRows, left : SUBSET MemberRows,
                            found : SUBSET MemberRows]]
        BY <4>3, <4>4 DEF PhaseTypeOK
      <4> QED  BY <3>1, <4>1, <4>5 DEF PhaseTypeOK
    <3>3. OnePhaseAtATime' /\ MemoIsVerified'
      BY <3>1 DEF OnePhaseAtATime, MemoIsVerified
    <3>4. \A b \in Advancers : b # a => advancer'[b] = advancer[b]
      BY <3>1 DEF PhaseTypeOK
    <3>5. /\ advancer'[a].confirmed = advancer[a].confirmed
          /\ advancer'[a].found \subseteq verified'
          /\ advancer'[a].pc = advancer[a].pc /\ advancer'[a].phase = advancer[a].phase
          /\ advancer[a] # Idle
      BY <2>4, <3>1 DEF PhaseTypeOK, HeldIsVerified, AdvanceChecks, Idle
    <3>6. HeldIsVerified'
      BY <3>1, <3>4, <3>5 DEF HeldIsVerified
    <3> QED  BY <3>2, <3>3, <3>6
  <2>5. CASE AdvanceNothing
    BY <2>5 DEF AdvanceNothing, PhaseTypeOK, OnePhaseAtATime, HeldIsVerified, MemoIsVerified,
       OverrideOf, MemberRows
  <2>6. CASE Reseed
    <3>1. PhaseTypeOK'
      BY <2>6 DEF Reseed, PhaseTypeOK, Seeded, OverrideOf, MemberRows
    <3>2. HeldIsVerified' /\ MemoIsVerified'
      BY <2>6 DEF Reseed, HeldIsVerified, MemoIsVerified, Seeded
    <3> QED  BY <2>6, <3>1, <3>2, SeedInOrder DEF Reseed
  <2>7. ASSUME NEW m \in MemberRows, RowChanges(m) PROVE PhaseInv'
    BY <2>7 DEF RowChanges, PhaseTypeOK, OnePhaseAtATime, HeldIsVerified, MemoIsVerified
  <2>8. CASE UNCHANGED pvars
    BY <2>8 DEF pvars, PhaseTypeOK, OnePhaseAtATime, HeldIsVerified, MemoIsVerified
  <2> QED  BY <2>1, <2>2, <2>3, <2>4, <2>5, <2>6, <2>7, <2>8 DEF PhaseNext
<1> QED  BY <1>1, <1>2, PTL DEF PhaseSpec

\* The phases are gone through one at a time and on evidence, for every plan and every
\* number of processes and seeds.
THEOREM PhasesOneByOne == PhaseSpec => []OnePhaseAtATime
BY PhasesKeep, PTL DEF PhaseInv

-----------------------------------------------------------------------------
(* DeadZone *)

\* A sweep that has read the row has read a dispatch of the past or the present one.
ReadThePast == \A s \in Sweeps : sweep[s] # NotSweeping => sweep[s].at <= zrow.at

\* After the one automatic reset, a sweep that would still reset the row finds that
\* the row is not the dispatch it has read.
OneReset ==
    decision.resets > 0 =>
        \A s \in Sweeps : sweep[s].pc = "resets" => ~StillMatches(sweep[s].at)

\* A sweep decides to escalate only after a reset.
EscalatesLater ==
    \A s \in Sweeps : sweep[s].pc = "escalates" => decision.resets > 0

\* What a sweep read is compared again at its write: so what it read must be tied to the row.
ZoneInv ==
    ZoneTypeOK /\ ResetOnceThenEscalated /\ ReadThePast /\ OneReset /\ EscalatesLater

\* The invariant of the component is kept.
LEMMA ZoneKeeps == ZoneSpec => []ZoneInv
<1>1. ZoneInit => ZoneInv
  <2> SUFFICES ASSUME ZoneInit PROVE ZoneInv
    OBVIOUS
  <2> USE DeadZoneAssumption DEF ZoneInit
  <2>1. zrow \in [status : {"queued", "dispatched", "running", "terminal"},
                  at : 0 .. MaxDispatches, old : BOOLEAN]
    <3>1. 0 \in 0 .. MaxDispatches
      OBVIOUS
    <3> QED  BY <3>1, Zenon
  <2>2. NotSweeping \in [pc : {"idle", "looks", "counts", "resets", "escalates"},
                         at : 0 .. MaxDispatches]
    BY DEF NotSweeping
  <2>3. ZoneTypeOK
    BY <2>1, <2>2 DEF ZoneTypeOK
  <2> QED  BY <2>3 DEF ZoneInv, NotSweeping, ResetOnceThenEscalated, ReadThePast, OneReset,
              EscalatesLater
<1>2. ZoneInv /\ [ZoneNext]_zvars => ZoneInv'
  <2> SUFFICES ASSUME ZoneInv, [ZoneNext]_zvars PROVE ZoneInv'
    OBVIOUS
  <2> USE DeadZoneAssumption DEF ZoneInv, ZoneTypeOK, NotSweeping, ResetOnceThenEscalated,
          ReadThePast, OneReset, EscalatesLater, StillMatches
  <2>1. ASSUME NEW s \in Sweeps, SweepLoads(s) PROVE ZoneInv'
    BY <2>1 DEF SweepLoads
  <2>2. ASSUME NEW s \in Sweeps, SweepLooks(s) PROVE ZoneInv'
    BY <2>2 DEF SweepLooks
  <2>3. ASSUME NEW s \in Sweeps, SweepCounts(s) PROVE ZoneInv'
    BY <2>3 DEF SweepCounts
  <2>4. ASSUME NEW s \in Sweeps, SweepResets(s) PROVE ZoneInv'
    <3>1. CASE ~StillMatches(sweep[s].at)
      BY <2>4, <3>1 DEF SweepResets
    <3>2. CASE StillMatches(sweep[s].at)
      <4>1. decision.resets = 0 /\ decision.open = 0
        BY <2>4, <3>2 DEF SweepResets
      <4>2. decision' = [decision EXCEPT !.resets = 1]
        BY <2>4, <3>2, <4>1 DEF SweepResets
      <4>3. /\ zrow' = [zrow EXCEPT !.status = "queued", !.old = FALSE]
            /\ sweep' = [sweep EXCEPT ![s] = NotSweeping]
            /\ trace' = trace
        BY <2>4, <3>2 DEF SweepResets
      <4>4. zrow'.status = "queued" /\ zrow'.at = zrow.at
        BY <4>3
      <4>5. ZoneTypeOK'
        <5>1. zrow' \in [status : {"queued", "dispatched", "running", "terminal"},
                         at : 0 .. MaxDispatches, old : BOOLEAN]
          BY <4>3
        <5>2. decision' \in [resets : Nat, open : Nat]
          BY <4>2
        <5> QED  BY <4>3, <5>1, <5>2
      <4>6. ResetOnceThenEscalated'
        BY <4>1, <4>2
      <4> QED  BY <4>1, <4>2, <4>3, <4>4, <4>5, <4>6
    <3> QED  BY <3>1, <3>2
  <2>5. ASSUME NEW s \in Sweeps, SweepEscalates(s) PROVE ZoneInv'
    BY <2>5 DEF SweepEscalates
  <2>6. ASSUME NEW s \in Sweeps, SweepStops(s) PROVE ZoneInv'
    BY <2>6 DEF SweepStops
  <2>7. CASE Relayed
    BY <2>7 DEF Relayed
  <2>8. CASE Spawned
    BY <2>8 DEF Spawned
  <2>9. CASE Ages
    BY <2>9 DEF Ages
  <2>10. CASE Linked
    BY <2>10 DEF Linked
  <2>11. CASE MarkedTerminal
    BY <2>11 DEF MarkedTerminal
  <2>12. CASE Decided
    BY <2>12 DEF Decided
  <2>13. CASE UNCHANGED zvars
    BY <2>13 DEF zvars
  <2> QED  BY <2>1, <2>2, <2>3, <2>4, <2>5, <2>6, <2>7, <2>8, <2>9, <2>10, <2>11, <2>12, <2>13
           DEF ZoneNext
<1> QED  BY <1>1, <1>2, PTL DEF ZoneSpec

\* One reset, then one escalation at a time: for every number of sweeps and dispatches.
THEOREM OneResetPerRow == ZoneSpec => []ResetOnceThenEscalated
BY ZoneKeeps, PTL DEF ZoneInv

-----------------------------------------------------------------------------
(* PmCycle *)

\* A PASS that stands, or that the command has read, was posted for some head.
PassesPosted == "pass" \in {pull.verdict, pm.read.verdict} => passed # {}

\* A certification stands on passes, so those must have been posted.
PmInv == PmTypeOK /\ PassesPosted /\ CertifiedIsReal

\* The invariant of the component is kept.
LEMMA PmKeeps == PmSpec => []PmInv
<1> USE PmAssumption
<1>1. PmInit => PmInv
  <2> SUFFICES ASSUME PmInit PROVE PmInv
    OBVIOUS
  <2>1. NoPull \in Pulls
    BY DEF NoPull, Pulls, Verdicts
  <2>2. PmTypeOK
    BY <2>1 DEF PmInit, PmTypeOK
  <2> QED  BY <2>2 DEF PmInit, PmInv, PassesPosted, CertifiedIsReal, NoPull
<1>2. PmInv /\ [PmNext]_pmvars => PmInv'
  <2> SUFFICES ASSUME PmInv, [PmNext]_pmvars PROVE PmInv'
    OBVIOUS
  <2> USE DEF PmInv, PmTypeOK, PassesPosted, CertifiedIsReal
  <2>1. CASE PmVerifies
    <3>1. PICK view \in {pull, [pull EXCEPT !.verdict = "none", !.stale = FALSE], NoPull} :
            pm' = [pm EXCEPT !.pc = "decide", !.read = view]
      BY <2>1 DEF PmVerifies
    <3>2. view \in Pulls /\ view.verdict \in {"none", pull.verdict}
      <4>1. NoPull \in Pulls /\ NoPull.verdict = "none"
        BY DEF NoPull, Pulls, Verdicts
      <4>2. /\ [pull EXCEPT !.verdict = "none", !.stale = FALSE] \in Pulls
            /\ [pull EXCEPT !.verdict = "none", !.stale = FALSE].verdict = "none"
        BY DEF Pulls, Verdicts
      <4> QED  BY <4>1, <4>2
    <3> QED  BY <2>1, <3>1, <3>2 DEF PmVerifies
  <2>2. CASE PmGivesUp \/ PmStops \/ PmProceeds \/ PmClassifies \/ PmChecks
    BY <2>2 DEF PmGivesUp, PmStops, PmProceeds, PmClassifies, PmChecks, PmGoes
  <2>3. CASE PmDispatches
    <3>1. \/ pm.fixes + 1 \in 0 .. MaxFixRetries /\ pm' = [pm EXCEPT !.pc = "wait", !.fixes = @ + 1]
          \/ pm.audits + 1 \in 0 .. MaxFixRetries /\ pm' = [pm EXCEPT !.pc = "wait", !.audits = @ + 1]
      BY <2>3 DEF PmDispatches
    <3>2. pm'.pc = "wait" /\ pm'.read = pm.read
      BY <3>1
    <3>3. PmTypeOK'
      BY <2>3, <3>1 DEF PmDispatches
    <3> QED  BY <2>3, <3>2, <3>3 DEF PmDispatches
  <2>4. CASE PmMerges
    <3>1. pull' = pull \/ pull' = [pull EXCEPT !.state = "merged"]
      BY <2>4 DEF PmMerges
    <3>2. pull' \in Pulls /\ pull'.verdict = pull.verdict
      BY <3>1 DEF Pulls
    <3> QED  BY <2>4, <3>2 DEF PmMerges, PmGoes
  <2>5. CASE PmRecords
    BY <2>5 DEF PmRecords, PmGoes, Merged, FreshPass
  <2>6. CASE Push
    <3>1. PICK tier \in {"tier1", "tier2"}, later \in BOOLEAN :
          pull' = [pull EXCEPT !.state = "open", !.head = @ + 1, !.tier = tier, !.green = FALSE,
                               !.stale = @ \/ (later /\ pull.verdict # "none")]
      BY <2>6 DEF Push
    <3>2. (pull.stale \/ (later /\ pull.verdict # "none")) \in BOOLEAN
      BY DEF Pulls
    <3>3. pull.head + 1 \in 0 .. MaxPushes
      BY <2>6 DEF Push, Pulls
    <3>4. pull' \in Pulls /\ pull'.verdict = pull.verdict
      BY <3>1, <3>2, <3>3 DEF Pulls
    <3>5. pm.pc # "certified"
      BY <2>6 DEF Push
    <3> QED  BY <2>6, <3>4, <3>5 DEF Push
  <2>7. CASE ChecksPass
    BY <2>7 DEF ChecksPass, Pulls
  <2>8. CASE AuditComment
    <3>1. PICK v \in {"pass", "fail"} :
          /\ pull' = [pull EXCEPT !.verdict = v, !.stale = FALSE]
          /\ passed' = IF v = "pass" THEN passed \cup {pull.head} ELSE passed
      BY <2>8 DEF AuditComment
    <3>2. pull' \in Pulls /\ pull'.verdict = v /\ pull'.state = pull.state /\ pull'.green = pull.green
      BY <3>1 DEF Pulls, Verdicts
    <3>3. passed' \subseteq 1 .. MaxPushes
      BY <2>8, <3>1 DEF AuditComment, Pulls
    <3> QED  BY <2>8, <3>1, <3>2, <3>3 DEF AuditComment
  <2>9. CASE MergedOrClosed
    BY <2>9 DEF MergedOrClosed, Pulls
  <2>10. CASE UNCHANGED pmvars
    BY <2>10 DEF pmvars
  <2> QED  BY <2>1, <2>2, <2>3, <2>4, <2>5, <2>6, <2>7, <2>8, <2>9, <2>10 DEF PmNext
<1> QED  BY <1>1, <1>2, PTL DEF PmSpec

\* A task is never certified but on a real merge, green checks and an audit's PASS:
\* for every number of retries and pushes.
THEOREM NoSelfCertification == PmSpec => []CertifiedIsReal
BY PmKeeps, PTL DEF PmInv

-----------------------------------------------------------------------------
(* OwnerReconcile *)

\* Once task.yaml is read, either a review has been in flight ever since or it lapsed;
\* and a task that was not handed over then was under no review.
ReviewWatched ==
    recon.pc \notin {"idle", "rows"} =>
        /\ lapsed \/ UnderReview
        /\ recon.progress # "pending_review" => lapsed

\* A merged pull request stays so, also in a list that is old.
PullsKnown ==
    /\ recon.pulls = "merged" => request = "merged"
    /\ recon.verdict # "none" <=> recon.pc = "writing"

\* The reconciliation that is not under way.
LEMMA NoSweepIsIdle ==
    /\ NoSweep \in [pc : {"idle", "rows", "file", "worker", "pulls", "writing"},
                    pulls : Requests \cup {"unasked"}, progress : Progress, worker : BOOLEAN,
                    verdict : Ended \cup {"none"}]
    /\ NoSweep.pc = "idle" /\ NoSweep.pulls = "unasked" /\ NoSweep.verdict = "none"
<1>1. "blocked" \in Progress
  BY DEF Progress
<1> QED  BY <1>1, Zenon DEF NoSweep

\* A row is relabelled on what the sweep knows: so what it knows must have been so.
ReconcileInv == ReconcileTypeOK /\ ReviewWatched /\ PullsKnown /\ EndedOnEvidence

\* The invariant of the component is kept.
LEMMA ReconcileKeeps == ReconcileSpec => []ReconcileInv
<1> USE ReconcileAssumption
<1>1. ReconcileInit => ReconcileInv
  <2> SUFFICES ASSUME ReconcileInit PROVE ReconcileInv
    OBVIOUS
  <2>1. units \in [worker : BOOLEAN, supervisor : BOOLEAN]
    BY Zenon DEF ReconcileInit
  <2>2. ReconcileTypeOK
    <3>1. /\ label \in Ended \cup {"running"} /\ progress \in Progress /\ request \in Requests
          /\ sweeps \in 0 .. MaxSweeps
      BY DEF ReconcileInit, Requests, Progress
    <3>2. lapsed \in BOOLEAN /\ recon = NoSweep
      BY DEF ReconcileInit
    <3> QED  BY <2>1, <3>1, <3>2, NoSweepIsIdle DEF ReconcileTypeOK
  <2> QED  BY <2>2, NoSweepIsIdle
           DEF ReconcileInit, ReconcileInv, ReviewWatched, PullsKnown, EndedOnEvidence
<1>2. ReconcileInv /\ [ReconcileNext]_recvars => ReconcileInv'
  <2> SUFFICES ASSUME ReconcileInv, [ReconcileNext]_recvars PROVE ReconcileInv'
    OBVIOUS
  <2> USE DEF ReconcileInv, ReconcileTypeOK, ReviewWatched, PullsKnown, EndedOnEvidence
  <2>1. CASE RowMoves
    <3>1. UNCHANGED <<recon, sweeps>>
      BY <2>1 DEF RowMoves
    <3>2. lapsed' = IF recon.pc \in {"idle", "rows"} THEN lapsed ELSE (lapsed \/ ~UnderReview')
      <4>1. CASE recon.pc \in {"idle", "rows"}
        BY <2>1, <4>1 DEF RowMoves
      <4>2. CASE recon.pc \notin {"idle", "rows"}
        BY <2>1, <4>2, Zenon DEF RowMoves, Lapses
      <4> QED  BY <4>1, <4>2
    <3>3. lapsed' \in BOOLEAN
      BY <3>2 DEF UnderReview
    <3>4. request = "merged" => request' = "merged"
      BY <2>1 DEF RowMoves, WorkerHandsOver, WorkerLeaves, WorkerReturns, ReviewBegins, ReviewEnds,
         RequestMoves, Relabelled
    <3>5. /\ label' \in Ended \cup {"running"} /\ progress' \in Progress
          /\ units' \in [worker : BOOLEAN, supervisor : BOOLEAN] /\ request' \in Requests
      BY <2>1 DEF RowMoves, WorkerHandsOver, WorkerLeaves, WorkerReturns, ReviewBegins, ReviewEnds,
         RequestMoves, Relabelled, Progress, Requests
    <3>6. ReviewWatched'
      <4>1. CASE recon.pc \in {"idle", "rows"}
        BY <3>1, <4>1
      <4>2. CASE recon.pc \notin {"idle", "rows"}
        BY <3>1, <3>2, <4>2
      <4> QED  BY <4>1, <4>2
    <3>7. EndedOnEvidence'
      BY <3>1, <3>2, <3>4
    <3> QED  BY <3>1, <3>3, <3>4, <3>5, <3>6, <3>7
  <2>2. CASE LoadsRows
    BY <2>2 DEF LoadsRows, taskvars
  <2>3. CASE ListsPulls
    <3>1. PICK pulls \in {request, "none"} : recon' = [recon EXCEPT !.pulls = pulls]
      BY <2>3 DEF ListsPulls
    <3>2. pulls \in Requests
      BY DEF Requests
    <3> QED  BY <2>3, <3>1, <3>2 DEF ListsPulls, taskvars, UnderReview
  <2>4. CASE ReadsTask
    <3>1. (~UnderReview) \in BOOLEAN
      BY DEF UnderReview
    <3>2. /\ recon' = [recon EXCEPT !.pc = "file", !.progress = progress]
          /\ lapsed' = ~UnderReview
          /\ UNCHANGED <<label, progress, units, request, sweeps>>
      BY <2>4 DEF ReadsTask, taskvars
    <3>3. UnderReview' = UnderReview
      BY <3>2 DEF UnderReview
    <3>4. recon.verdict = "none"
      BY <2>4 DEF ReadsTask
    <3> QED  BY <3>1, <3>2, <3>3, <3>4 DEF UnderReview
  <2>5. CASE AsksWorker
    BY <2>5 DEF AsksWorker, taskvars, UnderReview
  <2>6. CASE LeavesAlone \/ SweepFails
    BY <2>6, NoSweepIsIdle DEF LeavesAlone, SweepFails, taskvars
  <2>7. CASE Decides
    <3>1. /\ recon' = [recon EXCEPT !.pc = "writing", !.verdict = Outcome(recon.pulls)]
          /\ UNCHANGED <<label, progress, units, request, lapsed, sweeps>>
      BY <2>7 DEF Decides, taskvars
    <3>2. recon.pulls \in {"none", "merged", "closed"}
      BY <2>7 DEF Decides, Requests
    <3>3. Outcome(recon.pulls) \in Ended /\ (Outcome(recon.pulls) = "completed" => recon.pulls = "merged")
      BY <3>2 DEF Outcome, Ended
    <3>4. lapsed
      BY <2>7 DEF Decides, ReviewSeen, UnderReview
    <3>5. /\ recon' \in [pc : {"writing"}, pulls : Requests \cup {"unasked"}, progress : Progress,
                        worker : BOOLEAN, verdict : Ended]
          /\ recon'.verdict = Outcome(recon.pulls) /\ recon'.pulls = recon.pulls
      BY <3>1, <3>3
    <3>6. recon'.verdict # "none" /\ recon'.pc = "writing"
      BY <3>5 DEF Ended
    <3>7. ReconcileTypeOK'
      BY <3>1, <3>5
    <3> QED  BY <3>1, <3>3, <3>4, <3>5, <3>6, <3>7
  <2>8. CASE Corrects
    <3>1. recon.verdict \in Ended \/ recon.verdict = "none"
      OBVIOUS
    <3>2. /\ label' \in Ended \cup {"running"} /\ recon' = NoSweep /\ lapsed' = FALSE
          /\ UNCHANGED <<progress, units, request, sweeps>>
      BY <2>8, <3>1 DEF Corrects
    <3> QED  BY <3>2, NoSweepIsIdle
  <2>9. CASE UNCHANGED recvars
    BY <2>9 DEF recvars, UnderReview
  <2> QED  BY <2>1, <2>2, <2>3, <2>4, <2>5, <2>6, <2>7, <2>8, <2>9 DEF ReconcileNext
<1> QED  BY <1>1, <1>2, PTL DEF ReconcileSpec

\* No row is relabelled over a review in flight, or as completed without a merge.
THEOREM RelabelledOnEvidence == ReconcileSpec => []EndedOnEvidence
BY ReconcileKeeps, PTL DEF ReconcileInv

-----------------------------------------------------------------------------
(* TaskGateway *)

\* The part of the types the argument needs.
StartsTyped ==
    /\ starts \in [Starts -> [pc : StartPlaces, title : Titles \cup {"none"}]]
    /\ tasks \in [Starts -> {"none", "pending", "pending_review", "completed"}]
    /\ closers \in [Closers -> [pc : ClosePlaces, task : Starts \cup {"none"}]]

\* Who has passed the claim, and may yet make a task or has made one.
Claimant(s) == starts[s].pc \in {"claimed", "gated"} \/ tasks[s] # "none"

\* A claimant's title is claimed, by it alone; a task comes after the claim, and is
\* there for whoever closes it.
ClaimsHeld ==
    /\ \A s \in Starts : Claimant(s) => starts[s].title \in claims
    /\ \A s, r \in Starts :
          Claimant(s) /\ Claimant(r) /\ starts[s].title = starts[r].title => s = r
    /\ \A s \in Starts :
          tasks[s] # "none" => starts[s].pc \in {"made", "proposed", "over"}
    /\ \A c \in Closers : closers[c].pc # "new" =>
          closers[c].task \in Starts /\ tasks[closers[c].task] # "none"

\* A start that works on a title holds its claim.
GateInv == StartsTyped /\ ClaimsHeld

\* A step that leaves the starts and claims alone, and makes no task of nothing, keeps
\* what is claimed.
LEMMA SameClaimants ==
    ASSUME GateInv, StartsTyped', UNCHANGED <<starts, claims>>,
           \A s \in Starts : tasks'[s] = "none" <=> tasks[s] = "none",
           \A c \in Closers : closers'[c].pc # "new" =>
              closers'[c].task \in Starts /\ tasks[closers'[c].task] # "none"
    PROVE  GateInv'
<1>1. \A s \in Starts : Claimant(s)' <=> Claimant(s)
  BY DEF Claimant
<1> QED  BY <1>1 DEF GateInv, ClaimsHeld

\* A step of a start beyond its claim, or before it, makes no claimant.
LEMMA NoNewClaimant ==
    ASSUME GateInv, StartsTyped', UNCHANGED <<claims, closers>>, NEW s \in Starts,
           \A r \in Starts : r # s => starts'[r] = starts[r] /\ tasks'[r] = tasks[r],
           Claimant(s)' => Claimant(s) /\ starts'[s].title = starts[s].title,
           tasks'[s] # "none" => starts'[s].pc \in {"made", "proposed", "over"},
           tasks[s] # "none" => tasks'[s] # "none"
    PROVE  GateInv'
<1>1. \A r \in Starts : Claimant(r)' => Claimant(r) /\ starts'[r].title = starts[r].title
  BY DEF Claimant
<1>2. \A r \in Starts : tasks[r] # "none" => tasks'[r] # "none"
  OBVIOUS
<1>3. \A c \in Closers : closers[c].pc # "new" =>
         closers[c].task \in Starts /\ tasks'[closers[c].task] # "none"
  BY <1>2 DEF GateInv, ClaimsHeld
<1> QED  BY <1>1, <1>3 DEF GateInv, ClaimsHeld

\* The invariant of the component is kept.
LEMMA GatewayKeeps == GateSpec => []GateInv
<1>1. GateInit => GateInv
  BY DEF GateInit, GateInv, StartsTyped, ClaimsHeld, Claimant, StartPlaces, ClosePlaces
<1>2. GateInv /\ [GateNext]_gatevars => GateInv'
  <2> SUFFICES ASSUME GateInv, [GateNext]_gatevars PROVE GateInv'
    OBVIOUS
  <2>1. StartsTyped'
    <3> USE DEF GateInv, StartsTyped, StartPlaces, ClosePlaces
    <3>1. ASSUME NEW s \in Starts, NEW title \in Titles, Submits(s, title) \/ OwnerSubmits(s, title)
          PROVE  StartsTyped'
      BY <3>1 DEF Submits, OwnerSubmits
    <3>2. ASSUME NEW s \in Starts,
                 Validates(s) \/ Claims(s) \/ PassesGate(s) \/ Makes(s) \/ ProposesFirst(s)
                 \/ LogsStart(s) \/ StartKilled(s) \/ HandsOver(s) \/ PullMerged(s)
          PROVE  StartsTyped'
      BY <3>2 DEF Validates, Claims, PassesGate, Makes, ProposesFirst, LogsStart, StartKilled,
         HandsOver, PullMerged, StartGoes
    <3>3. ASSUME NEW s \in Starts, NEW c \in Closers, Audits(c, s)
          PROVE  StartsTyped'
      BY <3>3 DEF Audits
    <3>4. ASSUME NEW c \in Closers, LogsClose(c) \/ ChecksIn(c) \/ Reverifies(c) \/ CloseKilled(c)
          PROVE  StartsTyped'
      BY <3>4 DEF LogsClose, ChecksIn, Reverifies, CloseKilled, CloseGoes
    <3>5. CASE UNCHANGED gatevars
      BY <3>5 DEF gatevars
    <3> QED  BY <3>1, <3>2, <3>3, <3>4, <3>5 DEF GateNext
  <2>2. ASSUME NEW s \in Starts, NEW title \in Titles, Submits(s, title) \/ OwnerSubmits(s, title)
        PROVE  GateInv'
    BY <2>1, <2>2, NoNewClaimant DEF Submits, OwnerSubmits, Claimant, GateInv, StartsTyped, ClaimsHeld
  <2>3. ASSUME NEW s \in Starts,
               Validates(s) \/ PassesGate(s) \/ Makes(s) \/ ProposesFirst(s) \/ LogsStart(s)
               \/ StartKilled(s)
        PROVE  GateInv'
    <3>1. PICK pc \in StartPlaces \ {"claimed"} : StartGoes(s, pc)
      BY <2>3 DEF Validates, PassesGate, Makes, ProposesFirst, LogsStart, StartKilled, StartPlaces
    <3>2. /\ starts'[s].pc = pc /\ starts'[s].title = starts[s].title
          /\ \A r \in Starts : r # s => starts'[r] = starts[r]
      BY <3>1 DEF StartGoes, GateInv, StartsTyped
    <3>3. UNCHANGED <<claims, closers>>
      BY <2>3 DEF Validates, PassesGate, Makes, ProposesFirst, LogsStart, StartKilled
    <3>4. CASE ~Makes(s)
      <4>1. UNCHANGED tasks
        BY <2>3, <3>4 DEF Validates, PassesGate, ProposesFirst, LogsStart, StartKilled
      <4>2. /\ starts'[s].pc = "gated" => starts[s].pc = "claimed"
            /\ tasks[s] # "none" => starts'[s].pc \in {"made", "proposed", "over"}
        BY <2>3, <3>2, <3>4 DEF Validates, PassesGate, ProposesFirst, LogsStart, StartKilled,
           StartGoes, GateInv, StartsTyped, ClaimsHeld
      <4> QED  BY <2>1, <3>1, <3>2, <3>3, <4>1, <4>2, NoNewClaimant DEF Claimant
    <3>5. CASE Makes(s)
      <4>1. starts[s].pc = "gated" /\ starts'[s].pc \in {"made", "over"}
        BY <3>5 DEF Makes, StartGoes, GateInv, StartsTyped
      <4>2. /\ \A r \in Starts : r # s => tasks'[r] = tasks[r]
            /\ tasks[s] # "none" => tasks'[s] # "none"
        BY <3>5 DEF Makes, GateInv, StartsTyped
      <4> QED  BY <2>1, <3>2, <3>3, <4>1, <4>2, NoNewClaimant DEF Claimant
    <3> QED  BY <3>4, <3>5
  <2>4. ASSUME NEW s \in Starts, Claims(s) PROVE GateInv'
    <3>1. /\ starts[s].pc = "valid" /\ tasks[s] = "none"
          /\ claims' = claims \cup {starts[s].title}
          /\ StartGoes(s, IF starts[s].title \in claims THEN "over" ELSE "claimed")
          /\ UNCHANGED <<tasks, closers>>
      BY <2>4 DEF Claims, GateInv, ClaimsHeld
    <3>2. /\ starts'[s].pc = IF starts[s].title \in claims THEN "over" ELSE "claimed"
          /\ starts'[s].title = starts[s].title
          /\ \A r \in Starts : r # s => starts'[r] = starts[r]
      BY <3>1 DEF StartGoes, GateInv, StartsTyped
    <3>3. \A r \in Starts : r # s => (Claimant(r)' <=> Claimant(r))
      BY <3>1, <3>2 DEF Claimant
    <3>4. Claimant(s)' => starts[s].title \notin claims
      BY <3>1, <3>2 DEF Claimant
    <3>5. /\ \A r \in Starts : Claimant(r)' => starts'[r].title \in claims'
          /\ \A r \in Starts : r # s /\ Claimant(r)' => starts'[r].title \in claims
      BY <3>1, <3>2, <3>3 DEF GateInv, ClaimsHeld
    <3>6. \A r, q \in Starts :
             Claimant(r)' /\ Claimant(q)' /\ starts'[r].title = starts'[q].title => r = q
      BY <3>2, <3>3, <3>4, <3>5 DEF GateInv, ClaimsHeld
    <3>7. /\ \A r \in Starts : tasks'[r] # "none" => starts'[r].pc \in {"made", "proposed", "over"}
          /\ \A c \in Closers : closers'[c].pc # "new" =>
                closers'[c].task \in Starts /\ tasks'[closers'[c].task] # "none"
      BY <3>1, <3>2 DEF GateInv, ClaimsHeld
    <3> QED  BY <2>1, <3>5, <3>6, <3>7 DEF GateInv, ClaimsHeld
  <2>5. ASSUME NEW s \in Starts, HandsOver(s) \/ PullMerged(s) PROVE GateInv'
    BY <2>1, <2>5, SameClaimants DEF HandsOver, PullMerged, GateInv, StartsTyped, ClaimsHeld
  <2>6. ASSUME NEW s \in Starts, NEW c \in Closers, Audits(c, s) PROVE GateInv'
    BY <2>1, <2>6, SameClaimants DEF Audits, GateInv, StartsTyped, ClaimsHeld
  <2>7. ASSUME NEW c \in Closers, LogsClose(c) \/ Reverifies(c) \/ CloseKilled(c) PROVE GateInv'
    BY <2>1, <2>7, SameClaimants, SMTT(30)
       DEF LogsClose, Reverifies, CloseKilled, CloseGoes, GateInv, StartsTyped, ClaimsHeld
  <2>8. ASSUME NEW c \in Closers, ChecksIn(c) PROVE GateInv'
    <3>1. closers[c].task \in Starts /\ tasks[closers[c].task] # "none"
      BY <2>8 DEF ChecksIn, GateInv, ClaimsHeld
    <3>2. \A s \in Starts : tasks'[s] = "none" <=> tasks[s] = "none"
      BY <2>8, <3>1 DEF ChecksIn, GateInv, StartsTyped
    <3> QED  BY <2>1, <2>8, <3>2, SameClaimants DEF ChecksIn, CloseGoes, GateInv, StartsTyped, ClaimsHeld
  <2>9. CASE UNCHANGED gatevars
    BY <2>1, <2>9, SameClaimants DEF gatevars, GateInv, ClaimsHeld
  <2> QED  BY <2>2, <2>3, <2>4, <2>5, <2>6, <2>7, <2>8, <2>9 DEF GateNext
<1> QED  BY <1>1, <1>2, PTL DEF GateSpec

\* Of starts with one title one makes a task, for every number of starts, closes and
\* kills.
THEOREM TitlesWorkedOnce == GateSpec => []OneTaskPerTitle
<1>1. GateInv => OneTaskPerTitle
  BY DEF GateInv, ClaimsHeld, Claimant, OneTaskPerTitle
<1> QED  BY GatewayKeeps, <1>1, PTL

\* What the gateway's records name.
GateRest ==
    /\ claims \subseteq Titles
    /\ \A s \in Starts : starts[s].pc # "new" => starts[s].title \in Titles
    /\ rows \in [open : SUBSET Starts, closed : SUBSET Starts, verified : SUBSET Starts]
    /\ mergedTasks \subseteq Starts
    /\ startKills \in 0 .. MaxStartKills

\* The claims, tasks and rows of the gateway keep their types.
LEMMA GatewayTyped == GateSpec => []GateTypeOK
<1> USE GatewayAssumption
<1>1. GateInit => GateRest
  BY DEF GateInit, GateRest
<1>2. GateInv /\ GateRest => GateTypeOK
  BY DEF GateInv, StartsTyped, GateRest, GateTypeOK
<1>3. GateInv /\ GateRest /\ [GateNext]_gatevars => GateRest'
  <2> SUFFICES ASSUME GateInv, GateRest, [GateNext]_gatevars PROVE GateRest'
    OBVIOUS
  <2> USE DEF GateInv, StartsTyped, GateRest
  <2>1. claims' \subseteq Titles
    <3>1. UNCHANGED claims
          \/ \E s \in Starts : starts[s].pc = "valid" /\ claims' = claims \cup {starts[s].title}
      BY Zenon DEF GateNext, gatevars, Submits, OwnerSubmits, Validates, Claims, PassesGate, Makes, ProposesFirst,
         LogsStart, StartKilled, HandsOver, PullMerged, Audits, LogsClose, ChecksIn, Reverifies, CloseKilled
    <3> QED  BY <3>1
  <2>2. \A s \in Starts : starts'[s].pc # "new" => starts'[s].title \in Titles
    <3>1. \/ UNCHANGED starts
          \/ \E s \in Starts, pc \in StartPlaces : starts[s].pc # "new" /\ starts' = [starts EXCEPT ![s].pc = pc]
          \/ \E s \in Starts, title \in Titles, pc \in StartPlaces :
                starts' = [starts EXCEPT ![s] = [pc |-> pc, title |-> title]]
      <4>1. {"submitted", "valid", "claimed", "gated", "made", "proposed", "over"} \subseteq StartPlaces
        BY DEF StartPlaces
      <4> QED
        BY <4>1 DEF GateNext, gatevars, Submits, OwnerSubmits, Validates, Claims, PassesGate, Makes, ProposesFirst,
           LogsStart, StartKilled, HandsOver, PullMerged, Audits, LogsClose, ChecksIn, Reverifies, CloseKilled,
           StartGoes
    <3> QED  BY <3>1
  <2>3. rows' \in [open : SUBSET Starts, closed : SUBSET Starts, verified : SUBSET Starts]
    <3>1. ASSUME NEW s \in Starts, LogsStart(s)
          PROVE  rows' \in [open : SUBSET Starts, closed : SUBSET Starts, verified : SUBSET Starts]
      BY <3>1 DEF LogsStart
    <3>2. ASSUME NEW c \in Closers, LogsClose(c) \/ Reverifies(c)
          PROVE  rows' \in [open : SUBSET Starts, closed : SUBSET Starts, verified : SUBSET Starts]
      <4>1. closers[c].task \in Starts
        BY <3>2 DEF ClaimsHeld, LogsClose, Reverifies
      <4> QED  BY <3>2, <4>1 DEF LogsClose, Reverifies
    <3>3. \/ UNCHANGED rows
          \/ \E s \in Starts : LogsStart(s)
          \/ \E c \in Closers : LogsClose(c) \/ Reverifies(c)
      BY Zenon DEF GateNext, gatevars, Submits, OwnerSubmits, Validates, Claims, PassesGate, Makes, ProposesFirst,
         StartKilled, HandsOver, PullMerged, Audits, ChecksIn, CloseKilled
    <3> QED  BY <3>1, <3>2, <3>3
  <2>4. mergedTasks' \subseteq Starts
    BY Zenon DEF GateNext, gatevars, Submits, OwnerSubmits, Validates, Claims, PassesGate, Makes, ProposesFirst,
       LogsStart, StartKilled, HandsOver, PullMerged, Audits, LogsClose, ChecksIn, Reverifies, CloseKilled
  <2>5. startKills' \in 0 .. MaxStartKills
    <3>1. UNCHANGED startKills \/ (startKills < MaxStartKills /\ startKills' = startKills + 1)
      BY Zenon DEF GateNext, gatevars, Submits, OwnerSubmits, Validates, Claims, PassesGate, Makes, ProposesFirst,
         LogsStart, StartKilled, HandsOver, PullMerged, Audits, LogsClose, ChecksIn, Reverifies, CloseKilled
    <3> QED  BY <3>1
  <2> QED  BY <2>1, <2>2, <2>3, <2>4, <2>5
<1> QED
  BY <1>1, <1>2, <1>3, GatewayKeeps, PTL DEF GateSpec

-----------------------------------------------------------------------------
(* TaskFiles *)

\* What a task file, a call of veridian-task.py and the file tool may hold.
AFile == [status : FileStatuses, handed : BOOLEAN, entries : SUBSET Nat]
ACaller == [pc : {"idle", "made", "loaded", "saved", "listing"}, task : TaskIds \cup {"none"},
            copy : AFile, list : SUBSET TaskIds, entry : Nat]
ATool == [pc : {"idle", "read", "writing"}, task : TaskIds \cup {"none"}, copy : AFile]
APast == [entries : Nat, finished : SUBSET (Nat \X TaskIds), branches : SUBSET TaskIds,
          created : SUBSET TaskIds, overwritten : SUBSET TaskIds, rebuilt : BOOLEAN,
          unlocked : Nat, deaths : Nat]

FilesTyped ==
    /\ files \in [TaskIds -> AFile]
    /\ torn \subseteq TaskIds
    /\ callers \in [Callers -> ACaller]
    /\ \A c \in Callers : callers[c].pc # "idle" => callers[c].task \in TaskIds
    /\ tool \in ATool
    /\ tool.pc # "idle" => tool.task \in TaskIds
    /\ listed.has \subseteq TaskIds /\ repair.list \subseteq TaskIds
    /\ past \in APast

\* The entry e was saved for t.
Owed(e, t) ==
    \/ <<e, t>> \in past.finished
    \/ \E c \in Callers : /\ callers[c].pc \in {"saved", "listing"}
                          /\ callers[c].task = t /\ callers[c].entry = e /\ e # 0

\* What was saved is in the file, unless a tool has it torn.
OwedIsKept ==
    \A t \in TaskIds \ past.overwritten : \A e \in Nat :
        Owed(e, t) => e \in files[t].entries \/ t \in torn

\* What a call or a tool has read of a file under its lock is what the file has.
CopiesKeep ==
    /\ \A c \in Callers : callers[c].pc = "loaded" =>
          /\ callers[c].entry \in callers[c].copy.entries
          /\ callers[c].task \notin past.overwritten =>
                \A e \in Nat : Owed(e, callers[c].task) => e \in callers[c].copy.entries
    /\ tool.pc = "writing" /\ tool.task \in torn /\ tool.task \notin past.overwritten =>
          \A e \in Nat : Owed(e, tool.task) => e \in tool.copy.entries

\* Only a tool that is writing leaves a file torn.
TornByTool == \A t \in torn : tool.pc = "writing" /\ tool.task = t

\* The lock of a file has one holder.
OneLoader ==
    \A c, d \in Callers :
        /\ callers[c].pc = "loaded" /\ callers[d].pc = "loaded" /\ callers[c].task = callers[d].task
           => c = d
        /\ callers[c].pc = "listing" /\ callers[d].pc = "listing" => c = d

\* No entry was made for t, and no call is at it.
Untouched(t) ==
    /\ files[t].status = "gone" /\ t \notin torn
    /\ \A e \in Nat : ~Owed(e, t)
    /\ tool.pc # "idle" => tool.task # t

\* A name that a create chose is in no use.
NewIsNew ==
    /\ \A t \in TaskIds \ past.branches :
          /\ Untouched(t)
          /\ \A c \in Callers : callers[c].pc # "idle" => callers[c].task # t
    /\ \A c \in Callers : callers[c].pc = "made" =>
          /\ callers[c].entry = 0
          /\ Untouched(callers[c].task)
          /\ \A d \in Callers \ {c} : callers[d].pc # "idle" => callers[d].task # callers[c].task

\* The controller file lists the tasks that were created, and a call that rewrites it has read
\* just that list.
ListKept ==
    ~past.rebuilt =>
        /\ ~listed.torn /\ repair.pc # "writing"
        /\ past.created \subseteq listed.has
        /\ \A c \in Callers : callers[c].pc = "listing" => callers[c].list = listed.has

\* A save writes back all that was read: so what was read must still be all there is.
FilesInv == FilesTyped /\ OwedIsKept /\ CopiesKeep /\ TornByTool /\ OneLoader /\ NewIsNew /\ ListKept

\* Who is owed what, when only one caller changes.
LEMMA OwedBy ==
  ASSUME NEW c \in Callers, NEW n, callers \in [Callers -> ACaller],
         callers' = [callers EXCEPT ![c] = n],
         past'.finished = past.finished,
         n.pc \in {"saved", "listing"} =>
            \/ n.entry = 0
            \/ /\ callers[c].pc \in {"saved", "listing"}
               /\ callers[c].task = n.task /\ callers[c].entry = n.entry
  PROVE  \A e, t : Owed(e, t)' => Owed(e, t)
BY DEF Owed

\* Only a caller moves, and not into a loaded copy or a new branch.
LEMMA CallerMovesOn ==
  ASSUME FilesInv, NEW c \in Callers, NEW n \in ACaller,
         callers' = [callers EXCEPT ![c] = n],
         UNCHANGED <<files, torn, listed, tool, repair>>,
         past' \in APast,
         past'.finished = past.finished, past'.branches = past.branches,
         past'.created = past.created, past'.overwritten = past.overwritten,
         past'.rebuilt = past.rebuilt,
         \/ n.pc = "idle"
         \/ /\ n.pc = "listing" /\ callers[c].pc = "saved" /\ ControllerFree(c)
            /\ n.task = callers[c].task /\ n.entry = callers[c].entry
            /\ n.list = IF listed.torn THEN {} ELSE listed.has
  PROVE  FilesInv'
<1>1. \A d \in Callers : callers'[d] = IF d = c THEN n ELSE callers[d]
  BY DEF FilesInv, FilesTyped
<1>2. \A e, t : Owed(e, t)' => Owed(e, t)
  BY OwedBy DEF FilesInv, FilesTyped
<1>3. FilesTyped'
  BY <1>1 DEF FilesInv, FilesTyped
<1>4. OwedIsKept'
  BY <1>2 DEF FilesInv, OwedIsKept
<1>5. CopiesKeep'
  BY <1>1, <1>2 DEF FilesInv, CopiesKeep
<1>6. TornByTool' /\ OneLoader'
  BY <1>1 DEF FilesInv, TornByTool, OneLoader, ControllerFree
<1>7. NewIsNew'
  BY <1>1, <1>2 DEF FilesInv, NewIsNew, Untouched
<1>8. ListKept'
  BY <1>1 DEF FilesInv, ListKept
<1> QED
  BY <1>3, <1>4, <1>5, <1>6, <1>7, <1>8 DEF FilesInv

\* Idle calls and tools are of no task.
LEMMA IdleRecords ==
    /\ NoFile \in AFile /\ NoFile.status = "gone" /\ NoFile.entries = {}
    /\ EmptyFile \in AFile /\ EmptyFile.status = "none" /\ EmptyFile.entries = {}
    /\ IdleCaller \in ACaller /\ IdleCaller.pc = "idle" /\ IdleCaller.entry = 0
    /\ IdleTool \in ATool /\ IdleTool.pc = "idle"
    /\ IdleRepair.pc = "idle"
<1>1. NoFile \in AFile /\ NoFile.status = "gone" /\ NoFile.entries = {}
  BY DEF NoFile, AFile, FileStatuses, CheckpointStatuses
<1>2. EmptyFile \in AFile /\ EmptyFile.status = "none" /\ EmptyFile.entries = {}
  BY <1>1 DEF EmptyFile, AFile, FileStatuses, CheckpointStatuses
<1>3. IdleCaller \in ACaller /\ IdleCaller.pc = "idle" /\ IdleCaller.entry = 0
  BY <1>1 DEF IdleCaller, ACaller
<1>4. IdleTool \in ATool /\ IdleTool.pc = "idle"
  BY <1>1 DEF IdleTool, ATool
<1> QED
  BY <1>1, <1>2, <1>3, <1>4 DEF IdleRepair

\* The choice of a name by create, whose branch is new, keeps the invariant.
LEMMA TakesBranchKeeps ==
  ASSUME FilesInv, NEW c \in Callers, NEW t \in TaskIds, TakesBranch(c, t)
  PROVE  FilesInv'
<1> DEFINE n == [IdleCaller EXCEPT !.pc = "made", !.task = t]
           b == past.branches \cup {t}
<1>1. /\ callers[c].pc = "idle" /\ t \notin past.branches
      /\ past' = [past EXCEPT !.branches = b]
      /\ callers' = [callers EXCEPT ![c] = n]
      /\ UNCHANGED <<files, torn, listed, tool, repair>>
  BY DEF TakesBranch, CallerIdle
<1>2. n \in ACaller /\ n.pc = "made" /\ n.task = t /\ n.entry = 0
  BY IdleRecords DEF ACaller
<1>3. /\ past' \in APast
      /\ past'.finished = past.finished /\ past'.branches = b
      /\ past'.created = past.created /\ past'.overwritten = past.overwritten
      /\ past'.rebuilt = past.rebuilt
  BY <1>1 DEF FilesInv, FilesTyped, APast
<1> HIDE DEF n
<1>4. \A d \in Callers : callers'[d] = IF d = c THEN n ELSE callers[d]
  BY <1>1 DEF FilesInv, FilesTyped
<1>5. \A e, u : Owed(e, u)' => Owed(e, u)
  BY <1>1, <1>2, <1>3, OwedBy DEF FilesInv, FilesTyped
<1>6. FilesTyped'
  BY <1>1, <1>2, <1>3, <1>4 DEF FilesInv, FilesTyped
<1>7. OwedIsKept'
  BY <1>1, <1>3, <1>5 DEF FilesInv, OwedIsKept
<1>8. CopiesKeep'
  BY <1>1, <1>2, <1>3, <1>4, <1>5 DEF FilesInv, CopiesKeep
<1>9. TornByTool' /\ OneLoader'
  BY <1>1, <1>2, <1>4 DEF FilesInv, TornByTool, OneLoader
<1>10. NewIsNew'
  BY <1>1, <1>2, <1>3, <1>4, <1>5 DEF FilesInv, FilesTyped, NewIsNew, Untouched
<1>11. ListKept'
  BY <1>1, <1>2, <1>3, <1>4 DEF FilesInv, ListKept
<1> QED
  BY <1>6, <1>7, <1>8, <1>9, <1>10, <1>11 DEF FilesInv

\* The first save of a created task keeps the invariant.
LEMMA SavesNewKeeps ==
  ASSUME FilesInv, NEW c \in Callers, SavesNew(c)
  PROVE  FilesInv'
<1>1. PICK status \in {"pending", "pending_review"} :
        LET new == [NoFile EXCEPT !.status = status, !.handed = (status = "pending_review")]
        IN  /\ files' = [files EXCEPT ![callers[c].task] = new]
            /\ callers' = [callers EXCEPT ![c].pc = "saved", ![c].copy = new]
  BY DEF SavesNew
<1> DEFINE t == callers[c].task
           h == (status = "pending_review")
           new == [NoFile EXCEPT !.status = status, !.handed = h]
           n == [callers[c] EXCEPT !.pc = "saved", !.copy = new]
<1>2. /\ callers[c].pc = "made" /\ t \in TaskIds /\ callers[c].entry = 0
      /\ UNCHANGED <<torn, listed, tool, repair, past>>
      /\ callers[c] \in ACaller
  BY DEF SavesNew, FilesInv, FilesTyped, NewIsNew
<1>3. h \in BOOLEAN
  OBVIOUS
<1> HIDE DEF h
<1>4. new \in AFile /\ new.entries = {} /\ new.status = status
  BY <1>3, IdleRecords DEF AFile, FileStatuses, CheckpointStatuses
<1>5. files' = [files EXCEPT ![t] = new]
  BY <1>1 DEF h
<1>6. callers' = [callers EXCEPT ![c] = n]
  BY <1>1, Zenon DEF h
<1> HIDE DEF new
<1>7. n \in ACaller /\ n.pc = "saved" /\ n.task = t /\ n.entry = 0
  BY <1>2, <1>4 DEF ACaller
<1> HIDE DEF n
<1>8. /\ \A d \in Callers : callers'[d] = IF d = c THEN n ELSE callers[d]
      /\ \A u \in TaskIds : files'[u] = IF u = t THEN new ELSE files[u]
  BY <1>5, <1>6 DEF FilesInv, FilesTyped
<1>9. \A e, u : Owed(e, u)' => Owed(e, u)
  BY <1>2, <1>6, <1>7, OwedBy DEF FilesInv, FilesTyped
<1>10. /\ \A e \in Nat : ~Owed(e, t)
       /\ \A d \in Callers \ {c} : callers[d].pc # "idle" => callers[d].task # t
       /\ t \in past.branches
  BY <1>2 DEF FilesInv, NewIsNew, Untouched
<1>11. FilesTyped'
  BY <1>2, <1>4, <1>5, <1>6, <1>7, <1>8 DEF FilesInv, FilesTyped
<1>12. OwedIsKept'
  BY <1>2, <1>8, <1>9, <1>10 DEF FilesInv, OwedIsKept
<1>13. CopiesKeep'
  BY <1>2, <1>7, <1>8, <1>9 DEF FilesInv, CopiesKeep
<1>14. TornByTool' /\ OneLoader'
  BY <1>2, <1>7, <1>8 DEF FilesInv, TornByTool, OneLoader
<1>15. NewIsNew'
  BY <1>2, <1>7, <1>8, <1>9, <1>10 DEF FilesInv, FilesTyped, NewIsNew, Untouched
<1>16. ListKept'
  BY <1>2, <1>7, <1>8 DEF FilesInv, ListKept
<1> QED
  BY <1>11, <1>12, <1>13, <1>14, <1>15, <1>16 DEF FilesInv

\* The read of a task file under its lock keeps it.
LEMMA LoadsTaskKeeps ==
  ASSUME FilesInv, NEW c \in Callers, NEW t \in TaskIds, NEW status \in FileStatuses,
         LoadsTask(c, t, status)
  PROVE  FilesInv'
<1> DEFINE h == (files[t].handed \/ status = "pending_review")
           k == past.entries + 1
           held == [files[t] EXCEPT !.status = status, !.handed = h, !.entries = @ \cup {k}]
           n == [IdleCaller EXCEPT !.pc = "loaded", !.task = t, !.copy = held, !.entry = k]
<1>1. /\ callers[c].pc = "idle" /\ TaskFree(t) /\ Readable(t) /\ t \notin torn
      /\ UNCHANGED <<files, torn, listed, tool, repair>>
      /\ past' = [past EXCEPT !.entries = k]
      /\ files[t] \in AFile
  BY DEF LoadsTask, CallerIdle, FilesInv, FilesTyped
<1>2. callers' = [callers EXCEPT ![c] = n]
  BY DEF LoadsTask, Changes
<1>3. h \in BOOLEAN /\ k \in Nat
  BY DEF FilesInv, FilesTyped, APast
<1>4. /\ past' \in APast
      /\ past'.finished = past.finished /\ past'.branches = past.branches
      /\ past'.created = past.created /\ past'.overwritten = past.overwritten
      /\ past'.rebuilt = past.rebuilt
  BY <1>1, <1>3 DEF FilesInv, FilesTyped, APast
<1> HIDE DEF h, k
<1>5. held \in AFile /\ held.entries = files[t].entries \cup {k}
  BY <1>1, <1>3 DEF AFile
<1> HIDE DEF held
<1>6. n \in ACaller /\ n.pc = "loaded" /\ n.task = t /\ n.copy = held /\ n.entry = k
  BY <1>3, <1>5, IdleRecords DEF ACaller
<1> HIDE DEF n
<1>7. \A d \in Callers : callers'[d] = IF d = c THEN n ELSE callers[d]
  BY <1>2 DEF FilesInv, FilesTyped
<1>8. \A e, u : Owed(e, u)' => Owed(e, u)
  BY <1>1, <1>2, <1>4, <1>6, OwedBy DEF FilesInv, FilesTyped
<1>9. FilesTyped'
  BY <1>1, <1>2, <1>4, <1>6, <1>7 DEF FilesInv, FilesTyped
<1>10. OwedIsKept'
  BY <1>1, <1>4, <1>8 DEF FilesInv, OwedIsKept
<1>11. CopiesKeep'
  <2>1. t \notin past.overwritten => \A e \in Nat : Owed(e, t) => e \in held.entries
    BY <1>1, <1>5 DEF FilesInv, OwedIsKept
  <2>2. k \in held.entries
    BY <1>5
  <2> QED
    BY <1>1, <1>4, <1>6, <1>7, <1>8, <2>1, <2>2 DEF FilesInv, CopiesKeep
<1>12. TornByTool'
  BY <1>1 DEF FilesInv, TornByTool
<1>13. OneLoader'
  BY <1>1, <1>6, <1>7 DEF FilesInv, OneLoader, TaskFree
<1>14. t \in past.branches /\ \A d \in Callers : callers[d].pc = "made" => callers[d].task # t
  BY <1>1 DEF FilesInv, NewIsNew, Untouched, Readable
<1>15. NewIsNew'
  BY <1>1, <1>4, <1>6, <1>7, <1>8, <1>14 DEF FilesInv, FilesTyped, NewIsNew, Untouched
<1>16. ListKept'
  BY <1>1, <1>4, <1>6, <1>7 DEF FilesInv, ListKept
<1> QED
  BY <1>9, <1>10, <1>11, <1>12, <1>13, <1>15, <1>16 DEF FilesInv

\* The write of the whole file that was read keeps it.
LEMMA SavesTaskKeeps ==
  ASSUME FilesInv, NEW c \in Callers, SavesTask(c)
  PROVE  FilesInv'
<1> DEFINE t == callers[c].task
           e0 == callers[c].entry
<1>1. /\ callers[c].pc = "loaded" /\ t \in TaskIds /\ callers[c] \in ACaller
      /\ UNCHANGED <<listed, tool, repair, past>>
      /\ callers[c].copy \in AFile /\ past \in APast
  BY DEF SavesTask, FilesInv, FilesTyped, ACaller
<1>2. CASE ~HasFile(t)
  <2>1. UNCHANGED <<files, torn>> /\ callers' = [callers EXCEPT ![c] = IdleCaller]
    BY <1>2 DEF SavesTask
  <2> QED
    BY <1>1, <2>1, IdleRecords, CallerMovesOn
<1>3. CASE HasFile(t)
  <2> DEFINE n == [callers[c] EXCEPT !.pc = "saved"]
  <2>1. /\ files' = [files EXCEPT ![t] = callers[c].copy]
        /\ torn' = torn \ {t}
        /\ callers' = [callers EXCEPT ![c] = n]
    BY <1>3 DEF SavesTask, FilesInv, FilesTyped
  <2>2. n \in ACaller /\ n.pc = "saved" /\ n.task = t /\ n.entry = e0 /\ n.copy = callers[c].copy
    BY <1>1 DEF ACaller
  <2> HIDE DEF n
  <2>3. /\ \A d \in Callers : callers'[d] = IF d = c THEN n ELSE callers[d]
        /\ \A u \in TaskIds : files'[u] = IF u = t THEN callers[c].copy ELSE files[u]
    BY <2>1 DEF FilesInv, FilesTyped
  <2>4. \A e, u : Owed(e, u)' => (Owed(e, u) \/ (e = e0 /\ u = t))
    BY <1>1, <2>2, <2>3 DEF Owed
  <2>5. FilesTyped'
    BY <1>1, <2>1, <2>2, <2>3 DEF FilesInv, FilesTyped
  <2>6. /\ e0 \in callers[c].copy.entries
        /\ t \notin past.overwritten => \A e \in Nat : Owed(e, t) => e \in callers[c].copy.entries
    BY <1>1 DEF FilesInv, CopiesKeep
  <2>7. OwedIsKept'
    BY <1>1, <2>1, <2>3, <2>4, <2>6 DEF FilesInv, OwedIsKept
  <2>8. \A d \in Callers \ {c} : callers[d].pc = "loaded" => callers[d].task # t
    BY <1>1 DEF FilesInv, OneLoader
  <2>9. CopiesKeep'
    BY <1>1, <2>1, <2>2, <2>3, <2>4, <2>8 DEF FilesInv, CopiesKeep
  <2>10. TornByTool' /\ OneLoader'
    BY <1>1, <2>1, <2>2, <2>3 DEF FilesInv, TornByTool, OneLoader
  <2>11. t \in past.branches /\ \A d \in Callers : callers[d].pc = "made" => callers[d].task # t
    BY <1>1 DEF FilesInv, NewIsNew
  <2>12. NewIsNew'
    BY <1>1, <2>1, <2>2, <2>3, <2>4, <2>11 DEF FilesInv, FilesTyped, NewIsNew, Untouched
  <2>13. ListKept'
    BY <1>1, <2>2, <2>3 DEF FilesInv, ListKept
  <2> QED
    BY <2>5, <2>7, <2>9, <2>10, <2>12, <2>13 DEF FilesInv
<1> QED
  BY <1>2, <1>3

\* The write of the controller's own file keeps it.
LEMMA SavesControllerKeeps ==
  ASSUME FilesInv, NEW c \in Callers, SavesController(c)
  PROVE  FilesInv'
<1> DEFINE t == callers[c].task
           e0 == callers[c].entry
<1>1. /\ callers[c].pc = "listing" /\ t \in TaskIds /\ e0 \in Nat
      /\ listed' = [has |-> callers[c].list \cup {t}, torn |-> FALSE]
      /\ callers' = [callers EXCEPT ![c] = IdleCaller]
      /\ UNCHANGED <<files, torn, tool, repair>>
      /\ past \in APast
  BY DEF SavesController, FilesInv, FilesTyped, ACaller
<1>2. past' = IF e0 = 0 THEN [past EXCEPT !.created = past.created \cup {t}]
              ELSE [past EXCEPT !.finished = past.finished \cup {<<e0, t>>}]
  BY DEF SavesController
<1>3. /\ past' \in APast
      /\ past'.finished = IF e0 = 0 THEN past.finished ELSE past.finished \cup {<<e0, t>>}
      /\ past'.branches = past.branches /\ past'.overwritten = past.overwritten
      /\ past'.rebuilt = past.rebuilt
      /\ past'.created \subseteq past.created \cup {t}
  <2>1. past.created \cup {t} \in SUBSET TaskIds
    BY <1>1 DEF APast
  <2>2. past.finished \cup {<<e0, t>>} \in SUBSET (Nat \X TaskIds)
    BY <1>1 DEF APast
  <2> QED
    BY <1>1, <1>2, <2>1, <2>2 DEF APast
<1>4. \A d \in Callers : callers'[d] = IF d = c THEN IdleCaller ELSE callers[d]
  BY <1>1 DEF FilesInv, FilesTyped
<1>5. \A e, u : Owed(e, u)' => Owed(e, u)
  <2> SUFFICES ASSUME NEW e, NEW u, Owed(e, u)' PROVE Owed(e, u)
    OBVIOUS
  <2>1. CASE <<e, u>> \in past'.finished
    <3>1. CASE <<e, u>> \in past.finished
      BY <3>1 DEF Owed
    <3>2. CASE <<e, u>> = <<e0, t>> /\ e0 # 0
      <4>1. e = e0 /\ u = t
        BY <3>2
      <4> QED
        BY <1>1, <3>2, <4>1 DEF Owed
    <3> QED
      BY <1>3, <2>1, <3>1, <3>2
  <2>2. CASE <<e, u>> \notin past'.finished
    BY <1>4, <2>2, IdleRecords DEF Owed
  <2> QED
    BY <2>1, <2>2
<1>6. FilesTyped'
  <2>1. callers[c].list \in SUBSET TaskIds
    BY DEF FilesInv, FilesTyped, ACaller
  <2>2. listed'.has \subseteq TaskIds
    BY <1>1, <2>1
  <2> QED
    BY <1>1, <1>3, <1>4, <2>2, IdleRecords DEF FilesInv, FilesTyped
<1>7. OwedIsKept'
  BY <1>1, <1>3, <1>5 DEF FilesInv, OwedIsKept
<1>8. CopiesKeep'
  BY <1>1, <1>3, <1>4, <1>5, IdleRecords DEF FilesInv, CopiesKeep
<1>9. TornByTool' /\ OneLoader'
  BY <1>1, <1>4, IdleRecords DEF FilesInv, TornByTool, OneLoader
<1>10. NewIsNew'
  BY <1>1, <1>3, <1>4, <1>5, IdleRecords DEF FilesInv, NewIsNew, Untouched
<1>11. ListKept'
  <2> SUFFICES ASSUME ~past.rebuilt
               PROVE  /\ ~listed'.torn /\ repair.pc # "writing"
                      /\ past'.created \subseteq listed'.has
                      /\ \A d \in Callers : callers'[d].pc # "listing"
    BY <1>1, <1>3 DEF ListKept
  <2>1. /\ repair.pc # "writing" /\ past.created \subseteq callers[c].list
    BY <1>1 DEF FilesInv, ListKept
  <2>2. listed'.has = callers[c].list \cup {t} /\ ~listed'.torn
    BY <1>1
  <2>3. \A d \in Callers : callers'[d].pc # "listing"
    BY <1>1, <1>4, IdleRecords DEF FilesInv, OneLoader
  <2> QED
    BY <1>3, <2>1, <2>2, <2>3
<1> QED
  BY <1>6, <1>7, <1>8, <1>9, <1>10, <1>11 DEF FilesInv

\* A tool's step, none of the callers and nothing of the list.
LEMMA ToolStepKeeps ==
  ASSUME FilesInv, UNCHANGED <<listed, callers, repair>>,
         past' \in APast,
         past'.finished = past.finished, past'.branches = past.branches,
         past'.created = past.created, past'.rebuilt = past.rebuilt,
         past.overwritten \subseteq past'.overwritten,
         files' \in [TaskIds -> AFile], tool' \in ATool, torn' \subseteq TaskIds,
         tool'.pc # "idle" => /\ tool'.task \in TaskIds
                              /\ \/ files[tool'.task].status # "gone"
                                 \/ tool'.task = tool.task /\ tool.pc # "idle",
         \A t \in TaskIds : files[t].status = "gone" /\ ~(tool.pc # "idle" /\ tool.task = t)
                            => files'[t].status = "gone" /\ (t \notin torn => t \notin torn'),
         \A t \in TaskIds \ past'.overwritten : \A e \in Nat :
            Owed(e, t) => e \in files'[t].entries \/ t \in torn',
         tool'.pc = "writing" /\ tool'.task \in torn' /\ tool'.task \notin past'.overwritten
            => \A e \in Nat : Owed(e, tool'.task) => e \in tool'.copy.entries,
         \A t \in torn' : tool'.pc = "writing" /\ tool'.task = t
  PROVE  FilesInv'
<1>1. \A e, t : Owed(e, t)' <=> Owed(e, t)
  BY DEF Owed
<1>2. FilesTyped'
  BY DEF FilesInv, FilesTyped
<1>3. OwedIsKept'
  BY <1>1 DEF OwedIsKept
<1>4. CopiesKeep'
  BY <1>1 DEF FilesInv, CopiesKeep
<1>5. TornByTool' /\ OneLoader' /\ ListKept'
  BY DEF FilesInv, TornByTool, OneLoader, ListKept
<1>6. \A t \in TaskIds : Untouched(t) => Untouched(t)'
  BY <1>1 DEF Untouched
<1>7. NewIsNew'
  BY <1>6 DEF FilesInv, FilesTyped, NewIsNew
<1> QED
  BY <1>2, <1>3, <1>4, <1>5, <1>7 DEF FilesInv

\* The read of a file by a tool keeps it.
LEMMA ToolReadsKeeps == ASSUME FilesInv, NEW t \in TaskIds, ToolReads(t) PROVE FilesInv'
<1>1. PICK status \in FileStatuses :
         tool' = [pc |-> "read", task |-> t, copy |-> [files[t] EXCEPT !.status = status]]
  BY DEF ToolReads, FilesInv, FilesTyped, AFile, FileStatuses
<1> DEFINE held == [files[t] EXCEPT !.status = status]
           un == past.unlocked + 1
<1>2. /\ tool.pc = "idle" /\ HasFile(t) /\ UNCHANGED <<files, torn, listed, callers, repair>>
      /\ past' = [past EXCEPT !.unlocked = un]
      /\ past \in APast /\ un \in Nat /\ files \in [TaskIds -> AFile] /\ torn \subseteq TaskIds
  BY DEF ToolReads, FilesInv, FilesTyped, APast
<1>3. held \in AFile
  BY <1>2 DEF AFile
<1> HIDE DEF held, un
<1>4. tool' \in ATool /\ tool'.pc = "read" /\ tool'.task = t
  BY <1>1, <1>3 DEF ATool, held
<1>5. /\ past' \in APast
      /\ past'.finished = past.finished /\ past'.branches = past.branches
      /\ past'.created = past.created /\ past'.rebuilt = past.rebuilt
      /\ past'.overwritten = past.overwritten
  BY <1>2 DEF APast
<1>6. torn = {}
  BY <1>2 DEF FilesInv, TornByTool
<1>7. \A u \in TaskIds \ past'.overwritten : \A e \in Nat :
            Owed(e, u) => e \in files'[u].entries
  BY <1>2, <1>5, <1>6 DEF FilesInv, OwedIsKept
<1>8. files[t].status # "gone" /\ torn' = {} /\ files' = files
  BY <1>2, <1>6 DEF HasFile
<1>9. files' \in [TaskIds -> AFile]
  BY <1>2
<1> QED
  BY <1>2, <1>4, <1>5, <1>6, <1>7, <1>8, <1>9, ToolStepKeeps

\* The truncation with which a plain write begins keeps it.
LEMMA ToolTruncatesKeeps == ASSUME FilesInv, ToolTruncates PROVE FilesInv'
<1> DEFINE t == tool.task
<1>1. /\ tool.pc = "read" /\ t \in TaskIds /\ tool \in ATool /\ tool.copy \in AFile
      /\ UNCHANGED <<listed, callers, repair>>
      /\ past \in APast /\ files \in [TaskIds -> AFile] /\ torn \subseteq TaskIds
  BY DEF ToolTruncates, FilesInv, FilesTyped, ATool
<1>2. torn = {}
  BY <1>1 DEF FilesInv, TornByTool
<1>3. \A u \in TaskIds \ past.overwritten : \A e \in Nat :
            Owed(e, u) => e \in files[u].entries
  BY <1>2 DEF FilesInv, OwedIsKept
<1>4. CASE HasFile(t)
  <2> DEFINE ow == IF files[t].entries \subseteq tool.copy.entries THEN past.overwritten
                   ELSE past.overwritten \cup {t}
  <2>1. /\ files' = [files EXCEPT ![t] = EmptyFile]
        /\ torn' = torn \cup {t}
        /\ tool' = [tool EXCEPT !.pc = "writing"]
        /\ past' = IF files[t].entries \subseteq tool.copy.entries THEN past
                   ELSE [past EXCEPT !.overwritten = past.overwritten \cup {t}]
    BY <1>4 DEF ToolTruncates
  <2>2. /\ past' \in APast
        /\ past'.finished = past.finished /\ past'.branches = past.branches
        /\ past'.created = past.created /\ past'.rebuilt = past.rebuilt
        /\ past'.overwritten = ow
    <3>1. past.overwritten \cup {t} \in SUBSET TaskIds
      BY <1>1 DEF APast
    <3> QED
      BY <1>1, <2>1, <3>1 DEF APast
  <2>3. /\ tool' \in ATool /\ tool'.pc = "writing" /\ tool'.task = t /\ tool'.copy = tool.copy
    BY <1>1, <2>1 DEF ATool
  <2>4. /\ files' \in [TaskIds -> AFile]
        /\ \A u \in TaskIds : files'[u] = IF u = t THEN EmptyFile ELSE files[u]
        /\ torn' = {t}
    BY <1>1, <1>2, <2>1, IdleRecords
  <2>5. \A u \in TaskIds \ past'.overwritten : \A e \in Nat :
            Owed(e, u) => e \in files'[u].entries \/ u \in torn'
    BY <1>3, <2>2, <2>4
  <2>6. t \notin past'.overwritten => \A e \in Nat : Owed(e, t) => e \in tool'.copy.entries
    BY <1>1, <1>3, <2>2, <2>3
  <2> HIDE DEF ow
  <2>7. past.overwritten \subseteq past'.overwritten
    BY <2>2 DEF ow
  <2> QED
    BY <1>1, <1>2, <1>4, <2>2, <2>3, <2>4, <2>5, <2>6, <2>7, ToolStepKeeps
<1>5. CASE ~HasFile(t)
  <2>1. tool' = IdleTool /\ UNCHANGED <<files, torn, past>>
    BY <1>5 DEF ToolTruncates
  <2> QED
    BY <1>1, <1>2, <1>3, <2>1, IdleRecords, ToolStepKeeps
<1> QED
  BY <1>4, <1>5

\* The end of that write keeps it.
LEMMA ToolWritesKeeps == ASSUME FilesInv, ToolWrites PROVE FilesInv'
<1> DEFINE t == tool.task
<1>1. /\ tool.pc = "writing" /\ t \in TaskIds /\ tool.copy \in AFile
      /\ tool' = IdleTool /\ torn' = torn \ {t}
      /\ UNCHANGED <<listed, callers, repair, past>>
      /\ past \in APast /\ files \in [TaskIds -> AFile] /\ torn \subseteq TaskIds
      /\ files' = IF t \in torn THEN [files EXCEPT ![t] = tool.copy] ELSE files
  BY DEF ToolWrites, FilesInv, FilesTyped, ATool
<1>2. torn' = {}
  BY <1>1 DEF FilesInv, TornByTool
<1>3. /\ files' \in [TaskIds -> AFile]
      /\ \A u \in TaskIds : files'[u] = IF u = t /\ t \in torn THEN tool.copy ELSE files[u]
  BY <1>1
<1>4. \A u \in TaskIds \ past.overwritten : \A e \in Nat : Owed(e, u) => e \in files'[u].entries
  BY <1>1, <1>2, <1>3 DEF FilesInv, OwedIsKept, CopiesKeep
<1> QED
  BY <1>1, <1>2, <1>3, <1>4, IdleRecords, ToolStepKeeps

\* The removal of a task directory keeps it.
LEMMA ToolRemovesKeeps == ASSUME FilesInv, NEW t \in TaskIds, ToolRemoves(t) PROVE FilesInv'
<1> DEFINE ow == past.overwritten \cup {t}
           un == past.unlocked + 1
<1>1. /\ tool.pc = "idle" /\ HasFile(t) /\ UNCHANGED <<listed, callers, tool, repair>>
      /\ files' = [files EXCEPT ![t] = NoFile] /\ torn' = torn \ {t}
      /\ past' = [past EXCEPT !.overwritten = ow, !.unlocked = un]
      /\ past \in APast /\ files \in [TaskIds -> AFile] /\ tool \in ATool
      /\ ow \in SUBSET TaskIds /\ un \in Nat
  BY DEF ToolRemoves, FilesInv, FilesTyped, APast
<1>2. torn = {} /\ torn' = {}
  BY <1>1 DEF FilesInv, TornByTool
<1>3. /\ past' \in APast
      /\ past'.finished = past.finished /\ past'.branches = past.branches
      /\ past'.created = past.created /\ past'.rebuilt = past.rebuilt
      /\ past'.overwritten = past.overwritten \cup {t}
  BY <1>1 DEF APast
<1>4. /\ files' \in [TaskIds -> AFile]
      /\ \A u \in TaskIds : files'[u] = IF u = t THEN NoFile ELSE files[u]
  BY <1>1, IdleRecords
<1>5. \A u \in TaskIds \ past'.overwritten : \A e \in Nat : Owed(e, u) => e \in files'[u].entries
  BY <1>2, <1>3, <1>4 DEF FilesInv, OwedIsKept
<1> QED
  BY <1>1, <1>2, <1>3, <1>4, <1>5, IdleRecords, ToolStepKeeps

\* The end of a tool in the middle of a write, which leaves the file torn, keeps it.
LEMMA ToolDiesKeeps == ASSUME FilesInv, ToolDies PROVE FilesInv'
<1> DEFINE t == tool.task
           ow == IF t \in torn THEN past.overwritten \cup {t} ELSE past.overwritten
           de == past.deaths + 1
<1>1. /\ tool.pc = "writing" /\ t \in TaskIds
      /\ tool' = IdleTool /\ torn' = torn \ {t}
      /\ UNCHANGED <<files, listed, callers, repair>>
      /\ past' = [past EXCEPT !.deaths = de, !.overwritten = ow]
      /\ past \in APast /\ files \in [TaskIds -> AFile] /\ torn \subseteq TaskIds
      /\ ow \in SUBSET TaskIds /\ de \in Nat
  BY DEF ToolDies, FilesInv, FilesTyped, APast
<1>2. torn' = {} /\ torn \subseteq {t}
  BY <1>1 DEF FilesInv, TornByTool
<1>3. /\ past' \in APast
      /\ past'.finished = past.finished /\ past'.branches = past.branches
      /\ past'.created = past.created /\ past'.rebuilt = past.rebuilt
      /\ past'.overwritten = ow
  BY <1>1 DEF APast
<1>4. \A u \in TaskIds \ past'.overwritten : \A e \in Nat : Owed(e, u) => e \in files'[u].entries
  BY <1>1, <1>2, <1>3 DEF FilesInv, OwedIsKept
<1>5. past.overwritten \subseteq past'.overwritten
  BY <1>3
<1> QED
  BY <1>1, <1>2, <1>3, <1>4, <1>5, IdleRecords, ToolStepKeeps

\* A person's repair of a torn file keeps it.
LEMMA RepairKeeps ==
  ASSUME FilesInv, RepairReads \/ RepairTruncates \/ RepairWrites
  PROVE  FilesInv'
<1>1. UNCHANGED <<files, torn, callers, tool>> /\ past \in APast
  BY DEF RepairReads, RepairTruncates, RepairWrites, FilesInv, FilesTyped
<1>2. /\ past' \in APast
      /\ past'.finished = past.finished /\ past'.branches = past.branches
      /\ past'.created = past.created /\ past'.overwritten = past.overwritten
  <2>1. CASE RepairReads
    <3>1. past.unlocked + 1 \in Nat /\ past' = [past EXCEPT !.unlocked = past.unlocked + 1]
      BY <1>1, <2>1 DEF RepairReads, APast
    <3> QED
      BY <1>1, <3>1 DEF APast
  <2>2. CASE RepairTruncates
    <3>1. PICK yes \in BOOLEAN : past' = [past EXCEPT !.rebuilt = yes]
      BY <2>2 DEF RepairTruncates
    <3> QED
      BY <1>1, <3>1 DEF APast
  <2>3. CASE RepairWrites
    BY <1>1, <2>3 DEF RepairWrites
  <2> QED
    BY <2>1, <2>2, <2>3
<1>3. \A e, t : Owed(e, t)' <=> Owed(e, t)
  BY <1>1, <1>2 DEF Owed
<1>4. FilesTyped' /\ OwedIsKept' /\ CopiesKeep' /\ TornByTool' /\ OneLoader'
  <2>1. listed'.has \subseteq TaskIds /\ repair'.list \subseteq TaskIds
    <3>1. CASE RepairReads
      BY <3>1 DEF RepairReads, FilesInv, FilesTyped
    <3>2. CASE RepairTruncates
      <4>1. listed'.has = {} /\ repair' = [repair EXCEPT !.pc = "writing"]
        BY <3>2 DEF RepairTruncates
      <4>2. repair'.list = repair.list
        BY <4>1
      <4> QED
        BY <4>1, <4>2 DEF FilesInv, FilesTyped
    <3>3. CASE RepairWrites
      <4>1. repair'.list = {}
        BY <3>3 DEF RepairWrites, IdleRepair
      <4>2. \/ UNCHANGED listed
            \/ listed' = [has |-> repair.list, torn |-> FALSE]
        BY <3>3 DEF RepairWrites
      <4> QED
        BY <4>1, <4>2 DEF FilesInv, FilesTyped
    <3> QED
      BY <3>1, <3>2, <3>3
  <2> QED
    BY <1>1, <1>2, <1>3, <2>1
    DEF FilesInv, FilesTyped, OwedIsKept, CopiesKeep, TornByTool, OneLoader
<1>5. NewIsNew'
  BY <1>1, <1>2, <1>3 DEF FilesInv, NewIsNew, Untouched
<1>6. ListKept'
  <2>1. CASE RepairReads
    <3>1. past'.rebuilt = past.rebuilt /\ repair'.pc # "writing" /\ UNCHANGED listed
      BY <1>1, <2>1 DEF RepairReads, APast
    <3> QED
      BY <1>1, <1>2, <3>1 DEF FilesInv, ListKept
  <2>2. CASE RepairTruncates
    <3>1. past'.rebuilt
      BY <1>1, <2>2 DEF RepairTruncates, APast
    <3> QED
      BY <3>1 DEF ListKept
  <2>3. CASE RepairWrites
    <3>1. repair.pc = "writing" /\ past' = past
      BY <2>3 DEF RepairWrites
    <3> QED
      BY <3>1 DEF FilesInv, ListKept
  <2> QED
    BY <2>1, <2>2, <2>3
<1> QED
  BY <1>4, <1>5, <1>6 DEF FilesInv

\* The initial states satisfy the invariant.
LEMMA FilesInitially == FilesInit => FilesInv
<1> SUFFICES ASSUME FilesInit PROVE FilesInv
  OBVIOUS
<1>1. PICK no \in BOOLEAN : /\ ~no
         /\ past = [entries |-> 0, finished |-> {}, branches |-> {}, created |-> {},
                    overwritten |-> {}, rebuilt |-> no, unlocked |-> 0, deaths |-> 0]
         /\ listed = [has |-> {}, torn |-> no]
  BY DEF FilesInit
<1>2. /\ past \in APast /\ past.finished = {} /\ past.branches = {} /\ past.created = {}
      /\ past.overwritten = {} /\ ~past.rebuilt /\ ~listed.torn /\ listed.has = {}
  BY <1>1 DEF APast
<1>3. /\ files = [t \in TaskIds |-> NoFile] /\ torn = {}
      /\ callers = [c \in Callers |-> IdleCaller]
      /\ tool = IdleTool /\ repair = IdleRepair
  BY DEF FilesInit
<1>4. \A c \in Callers : callers[c].pc = "idle"
  BY <1>3, IdleRecords
<1>5. \A e, t : ~Owed(e, t)
  BY <1>2, <1>4 DEF Owed
<1>6. FilesTyped
  BY <1>2, <1>3, <1>4, IdleRecords DEF FilesTyped, IdleRepair
<1>7. OwedIsKept /\ CopiesKeep /\ TornByTool /\ OneLoader
  BY <1>2, <1>3, <1>4, <1>5, IdleRecords DEF OwedIsKept, CopiesKeep, TornByTool, OneLoader
<1>8. NewIsNew
  BY <1>3, <1>4, <1>5, IdleRecords DEF NewIsNew, Untouched
<1>9. ListKept
  BY <1>2, <1>3, <1>4, IdleRecords DEF ListKept
<1> QED
  BY <1>6, <1>7, <1>8, <1>9 DEF FilesInv

\* The invariant of the component is kept.
LEMMA FilesKeep == FilesSpec => []FilesInv
<1>1. FilesInv /\ [FilesNext]_filevars => FilesInv'
  <2> SUFFICES ASSUME FilesInv, [FilesNext]_filevars PROVE FilesInv'
    OBVIOUS
  <2>1. ASSUME NEW c \in Callers, LoadsController(c) PROVE FilesInv'
    <3>1. /\ callers[c].pc = "saved" /\ ControllerFree(c)
          /\ UNCHANGED <<files, torn, listed, tool, repair, past>>
          /\ callers[c] \in ACaller /\ past \in APast
      BY <2>1 DEF LoadsController, FilesInv, FilesTyped
    <3>2. PICK list \in SUBSET TaskIds :
             /\ list = IF listed.torn THEN {} ELSE listed.has
             /\ callers' = [callers EXCEPT ![c].pc = "listing", ![c].list = list]
      <4>1. (IF listed.torn THEN {} ELSE listed.has) \in SUBSET TaskIds
        BY DEF FilesInv, FilesTyped
      <4> QED
        BY <2>1, <4>1, Zenon DEF LoadsController
    <3> DEFINE n == [callers[c] EXCEPT !.pc = "listing", !.list = list]
    <3>3. callers' = [callers EXCEPT ![c] = n]
      BY <3>2, Zenon
    <3>4. /\ n \in ACaller /\ n.pc = "listing" /\ n.task = callers[c].task
          /\ n.entry = callers[c].entry /\ n.list = list
      BY <3>1 DEF ACaller
    <3> HIDE DEF n
    <3> QED
      BY <3>1, <3>2, <3>3, <3>4, CallerMovesOn
  <2>2. ASSUME NEW c \in Callers, CallDies(c) PROVE FilesInv'
    <3> DEFINE de == past.deaths + 1
    <3>1. /\ callers' = [callers EXCEPT ![c] = IdleCaller]
          /\ past' = [past EXCEPT !.deaths = de]
          /\ UNCHANGED <<files, torn, listed, tool, repair>>
          /\ past \in APast /\ de \in Nat
      BY <2>2 DEF CallDies, FilesInv, FilesTyped, APast
    <3>2. /\ past' \in APast
          /\ past'.finished = past.finished /\ past'.branches = past.branches
          /\ past'.created = past.created /\ past'.overwritten = past.overwritten
          /\ past'.rebuilt = past.rebuilt
      BY <3>1 DEF APast
    <3> QED
      BY <3>1, <3>2, IdleRecords, CallerMovesOn
  <2>3. ASSUME NEW c \in Callers, NEW t \in TaskIds, NEW status \in CheckpointStatuses \cup {files[t].status},
               LoadsTask(c, t, status)
        PROVE  FilesInv'
    <3>1. status \in FileStatuses
      BY DEF FilesInv, FilesTyped, AFile, FileStatuses
    <3> QED
      BY <2>3, <3>1, LoadsTaskKeeps
  <2>4. CASE UNCHANGED filevars
    BY <2>4 DEF filevars, FilesInv, FilesTyped, OwedIsKept, CopiesKeep, TornByTool, OneLoader,
                NewIsNew, Untouched, ListKept, Owed
  <2> QED
    BY <2>1, <2>2, <2>3, <2>4, TakesBranchKeeps, SavesNewKeeps, SavesTaskKeeps,
       SavesControllerKeeps, ToolReadsKeeps, ToolTruncatesKeeps, ToolWritesKeeps,
       ToolRemovesKeeps, ToolDiesKeeps, RepairKeeps
    DEF FilesNext
<1> QED  BY FilesInitially, <1>1, PTL DEF FilesSpec

\* What a call saved in a task file stays there, whichever calls overlap or die (task files are
\* read and written under task_lock, and replaced at once).
THEOREM EntriesKept == FilesSpec => []NothingLost
<1>1. FilesInv => NothingLost
  <2> SUFFICES ASSUME FilesInv PROVE NothingLost
    OBVIOUS
  <2>1. ASSUME NEW record \in past.finished
        PROVE  record[2] \in past.overwritten \/ record[1] \in files[record[2]].entries
                                              \/ record[2] \in torn
    <3>1. record[1] \in Nat /\ record[2] \in TaskIds /\ record = <<record[1], record[2]>>
      BY DEF FilesInv, FilesTyped, APast
    <3>2. Owed(record[1], record[2])
      BY <3>1 DEF Owed
    <3> QED
      BY <3>1, <3>2 DEF FilesInv, OwedIsKept
  <2> QED
    BY <2>1 DEF NothingLost, FilesInv, ListKept
<1> QED  BY FilesKeep, <1>1, PTL

\* Every entry, wherever a call or a tool holds it, is one that was begun.
EntriesBegun ==
    /\ \A t \in TaskIds : files[t].entries \subseteq 1 .. MaxEntries
    /\ \A c \in Callers : callers[c].copy.entries \subseteq 1 .. MaxEntries
                          /\ callers[c].entry <= MaxEntries
    /\ tool.copy.entries \subseteq 1 .. MaxEntries

\* What has been done is within the bounds, and the controller file is whole or torn.
PastBounded ==
    /\ past.entries <= MaxEntries /\ past.unlocked <= MaxUnlocked /\ past.deaths <= MaxDeaths
    /\ past.finished \subseteq (1 .. MaxEntries) \X TaskIds
    /\ listed.torn \in BOOLEAN /\ repair.pc \in {"idle", "reading", "writing"}

\* A call or a tool takes over what a file has, and one new entry.
LEMMA EntriesStayBegun ==
  ASSUME FilesInv, EntriesBegun, PastBounded, FilesNext
  PROVE  EntriesBegun'
<1> DEFINE Begun == 1 .. MaxEntries
<1>0. /\ MaxEntries \in Nat /\ past.entries \in Nat
      /\ \A t \in TaskIds : files[t] \in AFile
      /\ \A c \in Callers : callers[c] \in ACaller
      /\ \A c \in Callers : callers[c].pc # "idle" => callers[c].task \in TaskIds
      /\ files \in [TaskIds -> AFile] /\ callers \in [Callers -> ACaller] /\ tool \in ATool
      /\ tool.pc # "idle" => tool.task \in TaskIds
  BY FilesAssumption DEF FilesInv, FilesTyped, APast
<1>1. /\ IdleCaller.copy = NoFile /\ IdleCaller.entry = 0 /\ IdleTool.copy = NoFile
      /\ NoFile.entries = {} /\ EmptyFile.entries = {}
  BY IdleRecords DEF IdleCaller, IdleTool
<1>2. ASSUME NEW c \in Callers, NEW n, callers' = [callers EXCEPT ![c] = n], UNCHANGED <<files, tool>>,
             n.copy.entries \subseteq Begun, n.entry <= MaxEntries
      PROVE  EntriesBegun'
  <2>1. \A d \in Callers : callers'[d] = IF d = c THEN n ELSE callers[d]
    BY <1>0, <1>2
  <2> QED  BY <1>2, <2>1 DEF EntriesBegun
<1>3. ASSUME NEW t \in TaskIds, NEW f, files' = [files EXCEPT ![t] = f], f.entries \subseteq Begun,
             \A c \in Callers : callers'[c].copy.entries \subseteq Begun /\ callers'[c].entry <= MaxEntries,
             tool'.copy.entries \subseteq Begun
      PROVE  EntriesBegun'
  <2>1. \A u \in TaskIds : files'[u] = IF u = t THEN f ELSE files[u]
    BY <1>0, <1>3
  <2> QED  BY <1>3, <2>1 DEF EntriesBegun
<1>4. ASSUME NEW c \in Callers, NEW t \in TaskIds, TakesBranch(c, t) PROVE EntriesBegun'
  <2> DEFINE n == [IdleCaller EXCEPT !.pc = "made", !.task = t]
  <2>1. n.copy = NoFile /\ n.entry = 0
    BY <1>1 DEF IdleCaller
  <2>2. callers' = [callers EXCEPT ![c] = n] /\ UNCHANGED <<files, tool>>
    BY <1>4 DEF TakesBranch
  <2> HIDE DEF n
  <2>3. n.copy.entries \subseteq Begun /\ n.entry <= MaxEntries
    BY <1>0, <1>1, <2>1
  <2> QED  BY <1>2, <2>2, <2>3
<1>5. ASSUME NEW c \in Callers, SavesNew(c) PROVE EntriesBegun'
  <2>1. PICK status \in {"pending", "pending_review"} :
           LET new == [NoFile EXCEPT !.status = status, !.handed = (status = "pending_review")]
           IN  /\ files' = [files EXCEPT ![callers[c].task] = new]
               /\ callers' = [callers EXCEPT ![c].pc = "saved", ![c].copy = new]
    BY <1>5 DEF SavesNew
  <2> DEFINE new == [NoFile EXCEPT !.status = status, !.handed = (status = "pending_review")]
             n == [callers[c] EXCEPT !.pc = "saved", !.copy = new]
  <2>2. new.entries = {}
    BY <1>1 DEF NoFile
  <2>3. /\ files' = [files EXCEPT ![callers[c].task] = new]
        /\ callers' = [callers EXCEPT ![c] = n]
        /\ UNCHANGED tool /\ callers[c].task \in TaskIds
    BY <1>0, <1>5, <2>1, Zenon DEF SavesNew
  <2>4. n.copy = new /\ n.entry = callers[c].entry
    BY <1>0 DEF ACaller
  <2> HIDE DEF new, n
  <2>5. \A d \in Callers : callers'[d] = IF d = c THEN n ELSE callers[d]
    BY <1>0, <2>3
  <2> QED  BY <1>3, <2>2, <2>3, <2>4, <2>5 DEF EntriesBegun
<1>6. ASSUME NEW c \in Callers, NEW t \in TaskIds, NEW status, LoadsTask(c, t, status)
      PROVE  EntriesBegun'
  <2> DEFINE made == Changes(files[t], status)
             n == [IdleCaller EXCEPT !.pc = "loaded", !.task = t, !.copy = made,
                                     !.entry = past.entries + 1]
  <2>1. made.entries = files[t].entries \cup {past.entries + 1}
    BY <1>0 DEF Changes, AFile
  <2>2. past.entries + 1 \in Begun /\ past.entries + 1 <= MaxEntries
    BY <1>0, <1>6 DEF LoadsTask
  <2> HIDE DEF made
  <2>3. n.copy = made /\ n.entry = past.entries + 1
    BY DEF IdleCaller
  <2>4. callers' = [callers EXCEPT ![c] = n] /\ UNCHANGED <<files, tool>>
    BY <1>6 DEF LoadsTask, made
  <2> HIDE DEF n
  <2>5. n.copy.entries \subseteq Begun
    BY <2>1, <2>2, <2>3 DEF EntriesBegun
  <2> QED  BY <1>2, <2>2, <2>3, <2>4, <2>5
<1>7. ASSUME NEW c \in Callers, SavesTask(c) PROVE EntriesBegun'
  <2> DEFINE t == callers[c].task
             n == [callers[c] EXCEPT !.pc = "saved"]
  <2>1. CASE HasFile(t)
    <3>1. /\ files' = [files EXCEPT ![t] = callers[c].copy]
          /\ callers' = [callers EXCEPT ![c] = n] /\ UNCHANGED tool /\ t \in TaskIds
      BY <1>0, <1>7, <2>1 DEF SavesTask
    <3>2. n.copy = callers[c].copy /\ n.entry = callers[c].entry
      BY <1>0 DEF ACaller
    <3> HIDE DEF n
    <3>3. \A d \in Callers : callers'[d] = IF d = c THEN n ELSE callers[d]
      BY <1>0, <3>1
    <3> QED  BY <1>3, <3>1, <3>2, <3>3 DEF EntriesBegun
  <2>2. CASE ~HasFile(t)
    BY <1>0, <1>1, <1>2, <1>7, <2>2 DEF SavesTask
  <2> QED  BY <2>1, <2>2
<1>8. ASSUME NEW c \in Callers, LoadsController(c) PROVE EntriesBegun'
  <2> DEFINE list == IF listed.torn THEN {} ELSE listed.has
             n == [callers[c] EXCEPT !.pc = "listing", !.list = list]
  <2>1. callers' = [callers EXCEPT ![c] = n] /\ UNCHANGED <<files, tool>>
    BY <1>8, Zenon DEF LoadsController
  <2>2. n.copy = callers[c].copy /\ n.entry = callers[c].entry
    BY <1>0 DEF ACaller
  <2> HIDE DEF n
  <2> QED  BY <1>2, <2>1, <2>2 DEF EntriesBegun
<1>9. ASSUME NEW c \in Callers, SavesController(c) \/ CallDies(c) PROVE EntriesBegun'
  <2>1. callers' = [callers EXCEPT ![c] = IdleCaller] /\ UNCHANGED <<files, tool>>
    BY <1>9 DEF SavesController, CallDies
  <2>2. IdleCaller.copy.entries \subseteq Begun /\ IdleCaller.entry <= MaxEntries
    BY <1>0, <1>1
  <2> QED  BY <1>2, <2>1, <2>2
<1>10. ASSUME NEW t \in TaskIds, ToolReads(t) PROVE EntriesBegun'
  <2>1. PICK status : tool' = [pc |-> "read", task |-> t, copy |-> [files[t] EXCEPT !.status = status]]
    BY <1>10 DEF ToolReads
  <2>2. [files[t] EXCEPT !.status = status].entries = files[t].entries
    BY <1>0 DEF AFile
  <2> QED  BY <1>10, <2>1, <2>2 DEF ToolReads, EntriesBegun
<1>11. CASE ToolTruncates
  <2> DEFINE t == tool.task
  <2>1. CASE HasFile(t)
    <3>1. /\ files' = [files EXCEPT ![t] = EmptyFile] /\ UNCHANGED callers
          /\ tool' = [tool EXCEPT !.pc = "writing"] /\ t \in TaskIds
      BY <1>0, <1>11, <2>1 DEF ToolTruncates
    <3>2. tool'.copy = tool.copy
      BY <1>0, <3>1 DEF ATool
    <3> QED  BY <1>1, <1>3, <3>1, <3>2 DEF EntriesBegun
  <2>2. CASE ~HasFile(t)
    BY <1>1, <1>11, <2>2 DEF ToolTruncates, EntriesBegun
  <2> QED  BY <2>1, <2>2
<1>12. CASE ToolWrites
  <2> DEFINE t == tool.task
  <2>1. tool' = IdleTool /\ UNCHANGED callers /\ t \in TaskIds
        /\ (files' = files \/ files' = [files EXCEPT ![t] = tool.copy])
    BY <1>0, <1>12 DEF ToolWrites
  <2> QED  BY <1>1, <1>3, <2>1 DEF EntriesBegun
<1>13. ASSUME NEW t \in TaskIds, ToolRemoves(t) PROVE EntriesBegun'
  <2>1. files' = [files EXCEPT ![t] = NoFile] /\ UNCHANGED <<callers, tool>>
    BY <1>13 DEF ToolRemoves
  <2> QED  BY <1>1, <1>3, <2>1 DEF EntriesBegun
<1>14. CASE ToolDies
  BY <1>1, <1>14 DEF ToolDies, EntriesBegun
<1>15. CASE RepairReads \/ RepairTruncates \/ RepairWrites
  BY <1>15 DEF RepairReads, RepairTruncates, RepairWrites, EntriesBegun
<1> QED
  BY <1>4, <1>5, <1>6, <1>7, <1>8, <1>9, <1>10, <1>11, <1>12, <1>13, <1>14, <1>15 DEF FilesNext

\* The records of the task files keep their types.
LEMMA FilesWellTyped == FilesSpec => []FilesTypeOK
<1>0. MaxEntries \in Nat /\ MaxUnlocked \in Nat /\ MaxDeaths \in Nat
  BY FilesAssumption
<1>1. FilesInit => EntriesBegun /\ PastBounded
  <2>1. IdleCaller.copy = NoFile /\ IdleCaller.entry = 0 /\ IdleTool.copy = NoFile
    BY DEF IdleCaller, IdleTool
  <2> QED  BY <1>0, <2>1, IdleRecords DEF FilesInit, EntriesBegun, PastBounded
<1>2. FilesInv /\ EntriesBegun /\ PastBounded => FilesTypeOK
  <2> SUFFICES ASSUME FilesInv, EntriesBegun, PastBounded PROVE FilesTypeOK
    OBVIOUS
  <2>1. files \in [TaskIds -> TaskFile]
    <3>1. \A t \in TaskIds : files[t] \in TaskFile
      BY DEF FilesInv, FilesTyped, AFile, TaskFile, EntriesBegun
    <3> QED  BY <3>1 DEF FilesInv, FilesTyped
  <2>2. callers \in [Callers -> [pc : {"idle", "made", "loaded", "saved", "listing"},
                                task : TaskIds \cup {"none"}, copy : TaskFile, list : SUBSET TaskIds,
                                entry : 0 .. MaxEntries]]
    <3>1. \A c \in Callers : callers[c] \in ACaller /\ callers[c].copy \in AFile /\ callers[c].entry \in Nat
      BY DEF FilesInv, FilesTyped, ACaller
    <3>2. \A c \in Callers : callers[c].copy \in TaskFile
      BY <3>1 DEF EntriesBegun, AFile, TaskFile
    <3>3. \A c \in Callers : callers[c].entry \in 0 .. MaxEntries
      BY <1>0, <3>1 DEF EntriesBegun
    <3>4. \A c \in Callers : callers[c] \in [pc : {"idle", "made", "loaded", "saved", "listing"},
                                task : TaskIds \cup {"none"}, copy : TaskFile, list : SUBSET TaskIds,
                                entry : 0 .. MaxEntries]
      BY <3>1, <3>2, <3>3 DEF ACaller
    <3> QED  BY <3>4 DEF FilesInv, FilesTyped
  <2>3. tool \in [pc : {"idle", "read", "writing"}, task : TaskIds \cup {"none"}, copy : TaskFile]
    <3>1. tool \in ATool /\ tool.copy \in AFile
      BY DEF FilesInv, FilesTyped, ATool
    <3>2. tool.copy \in TaskFile
      BY <3>1 DEF EntriesBegun, AFile, TaskFile
    <3> QED  BY <3>1, <3>2 DEF ATool
  <2>4. past \in [entries : 0 .. MaxEntries, finished : SUBSET ((1 .. MaxEntries) \X TaskIds),
                  branches : SUBSET TaskIds, created : SUBSET TaskIds,
                  overwritten : SUBSET TaskIds, rebuilt : BOOLEAN,
                  unlocked : 0 .. MaxUnlocked, deaths : 0 .. MaxDeaths]
    <3>1. past \in APast
      BY DEF FilesInv, FilesTyped
    <3>2. /\ past.entries \in 0 .. MaxEntries /\ past.unlocked \in 0 .. MaxUnlocked
          /\ past.deaths \in 0 .. MaxDeaths
      BY <1>0, <3>1 DEF APast, PastBounded
    <3> QED  BY <3>1, <3>2 DEF APast, PastBounded
  <2> QED  BY <2>1, <2>2, <2>3, <2>4 DEF FilesTypeOK, FilesInv, FilesTyped, PastBounded
<1>3. FilesInv /\ EntriesBegun /\ PastBounded /\ FilesNext => PastBounded'
  <2> SUFFICES ASSUME FilesInv, EntriesBegun, PastBounded, FilesNext PROVE PastBounded'
    OBVIOUS
  <2>0. past \in APast /\ past.entries \in Nat /\ past.unlocked \in Nat /\ past.deaths \in Nat
    BY DEF FilesInv, FilesTyped, APast
  <2>1. listed'.torn \in BOOLEAN /\ repair'.pc \in {"idle", "reading", "writing"}
    <3>1. \/ UNCHANGED listed
          \/ listed'.torn = TRUE
          \/ listed'.torn = FALSE
      <4>1. \/ UNCHANGED listed
            \/ \E c \in Callers : SavesController(c)
            \/ RepairTruncates \/ RepairWrites
        BY Zenon DEF FilesNext, SavesNew, SavesTask, LoadsController, CallDies, TakesBranch, LoadsTask,
           ToolReads, ToolRemoves, ToolTruncates, ToolWrites, ToolDies, RepairReads
      <4> QED  BY <4>1 DEF SavesController, RepairTruncates, RepairWrites
    <3>2. \/ UNCHANGED repair
          \/ RepairReads \/ RepairTruncates \/ RepairWrites
      BY Zenon DEF FilesNext, SavesNew, SavesTask, LoadsController, SavesController, CallDies,
         TakesBranch, LoadsTask, ToolReads, ToolRemoves, ToolTruncates, ToolWrites, ToolDies
    <3>3. repair'.pc \in {"idle", "reading", "writing"}
      <4>1. CASE RepairReads
        BY <4>1 DEF RepairReads
      <4>2. CASE RepairTruncates
        <5>1. repair' = [repair EXCEPT !.pc = "writing"] /\ repair.pc = "reading"
          BY <4>2 DEF RepairTruncates
        <5>2. repair'.pc \in {repair.pc, "writing"}
          BY <5>1
        <5> QED  BY <5>1, <5>2
      <4>3. CASE RepairWrites
        BY <4>3 DEF RepairWrites, IdleRepair
      <4> QED  BY <3>2, <4>1, <4>2, <4>3 DEF PastBounded
    <3> QED  BY <3>1, <3>3 DEF PastBounded
  <2>2. \/ UNCHANGED <<past>>
        \/ \E c \in Callers : SavesController(c) \/ CallDies(c)
        \/ \E c \in Callers, t \in TaskIds : TakesBranch(c, t) \/ \E status : LoadsTask(c, t, status)
        \/ \E t \in TaskIds : ToolReads(t) \/ ToolRemoves(t)
        \/ ToolTruncates \/ ToolDies \/ RepairReads \/ RepairTruncates
    BY Zenon DEF FilesNext, SavesNew, SavesTask, LoadsController, ToolWrites, RepairWrites
  <2> DEFINE Within == /\ past'.entries <= MaxEntries /\ past'.unlocked <= MaxUnlocked
                       /\ past'.deaths <= MaxDeaths
                       /\ past'.finished \subseteq (1 .. MaxEntries) \X TaskIds
  <2>3. ASSUME NEW c \in Callers, SavesController(c) PROVE Within
    <3>1. callers[c] \in ACaller /\ callers[c].task \in TaskIds /\ callers[c].entry \in Nat
      BY <2>3 DEF SavesController, FilesInv, FilesTyped, ACaller
    <3>2. CASE callers[c].entry = 0
      <4>1. PICK s : past' = [past EXCEPT !.created = s]
        BY <2>3, <3>2 DEF SavesController
      <4> QED  BY <2>0, <4>1 DEF APast, PastBounded
    <3>3. CASE callers[c].entry # 0
      <4>1. callers[c].entry \in 1 .. MaxEntries
        BY <1>0, <3>1, <3>3 DEF EntriesBegun
      <4>2. past' = [past EXCEPT !.finished = @ \cup {<<callers[c].entry, callers[c].task>>}]
        BY <2>3, <3>3 DEF SavesController
      <4> QED  BY <2>0, <3>1, <4>1, <4>2 DEF APast, PastBounded
    <3> QED  BY <3>2, <3>3
  <2>4. ASSUME NEW c \in Callers, CallDies(c) PROVE Within
    BY <1>0, <2>0, <2>4 DEF CallDies, APast, PastBounded
  <2>5. ASSUME NEW c \in Callers, NEW t \in TaskIds, TakesBranch(c, t) PROVE Within
    BY <2>0, <2>5 DEF TakesBranch, APast, PastBounded
  <2>6. ASSUME NEW c \in Callers, NEW t \in TaskIds, NEW status, LoadsTask(c, t, status) PROVE Within
    BY <1>0, <2>0, <2>6 DEF LoadsTask, APast, PastBounded
  <2>7. ASSUME NEW t \in TaskIds, ToolReads(t) \/ ToolRemoves(t) PROVE Within
    <3>1. CASE ToolReads(t)
      BY <1>0, <2>0, <3>1 DEF ToolReads, APast, PastBounded
    <3>2. CASE ToolRemoves(t)
      <4>1. past.unlocked < MaxUnlocked
        BY <3>2 DEF ToolRemoves
      <4>2. PICK s : past' = [past EXCEPT !.overwritten = s, !.unlocked = @ + 1]
        BY <3>2 DEF ToolRemoves
      <4> QED  BY <1>0, <2>0, <4>1, <4>2 DEF APast, PastBounded
    <3> QED  BY <2>7, <3>1, <3>2
  <2>8. ASSUME ToolTruncates PROVE Within
    <3>1. past' = past \/ \E s : past' = [past EXCEPT !.overwritten = s]
      BY <2>8 DEF ToolTruncates
    <3>2. ASSUME NEW s, past' = [past EXCEPT !.overwritten = s] PROVE Within
      BY <2>0, <3>2 DEF APast, PastBounded
    <3>3. ASSUME past' = past PROVE Within
      BY <3>3, Zenon DEF PastBounded
    <3> QED  BY <3>1, <3>2, <3>3
  <2>9. ASSUME ToolDies PROVE Within
    <3>1. \E s : past' = [past EXCEPT !.deaths = @ + 1, !.overwritten = s]
      BY <2>9 DEF ToolDies
    <3> QED  BY <1>0, <2>0, <2>9, <3>1 DEF ToolDies, APast, PastBounded
  <2>10. ASSUME RepairReads PROVE Within
    BY <1>0, <2>0, <2>10 DEF RepairReads, APast, PastBounded
  <2>11. ASSUME RepairTruncates PROVE Within
    BY <2>0, <2>11 DEF RepairTruncates, APast, PastBounded
  <2>12. Within
    BY <2>2, <2>3, <2>4, <2>5, <2>6, <2>7, <2>8, <2>9, <2>10, <2>11 DEF PastBounded
  <2> QED  BY <2>1, <2>12 DEF PastBounded
<1>4. EntriesBegun /\ PastBounded /\ UNCHANGED filevars => (EntriesBegun /\ PastBounded)'
  BY DEF filevars, EntriesBegun, PastBounded
<1>5. FilesInv /\ EntriesBegun /\ PastBounded /\ [FilesNext]_filevars
      => (EntriesBegun /\ PastBounded)'
  BY <1>3, <1>4, EntriesStayBegun
<1> QED  BY FilesKeep, <1>1, <1>2, <1>5, PTL DEF FilesSpec

-----------------------------------------------------------------------------
(* The scenes of MCOffice: in each of them one component moves and the     *)
(* others stay, so what a component keeps holds of the whole.              *)

\* A behaviour of the office is one of each of its components.
LEMMA OfficeIsPm == OfficeSpec => PmSpec
<1>1. OfficeInit => PmInit
  BY DEF OfficeInit
<1>2. [OfficeNext]_officevars => [PmNext]_pmvars
  BY DEF OfficeNext, officevars
<1> QED
  BY <1>1, <1>2, PTL DEF OfficeSpec, PmSpec

\* Likewise of the lifecycle of an OCID.
LEMMA OfficeIsLife == OfficeSpec => LifeSpec
<1>1. OfficeInit => LifeInit
  BY DEF OfficeInit
<1>2. [OfficeNext]_officevars => [LifeNext]_lifevars
  BY DEF OfficeNext, officevars
<1> QED
  BY <1>1, <1>2, PTL DEF OfficeSpec, LifeSpec

\* Likewise of the task files.
LEMMA OfficeIsFiles == OfficeSpec => FilesSpec
<1>1. OfficeInit => FilesInit
  BY DEF OfficeInit
<1>2. [OfficeNext]_officevars => [FilesNext]_filevars
  BY DEF OfficeNext, officevars
<1> QED
  BY <1>1, <1>2, PTL DEF OfficeSpec, FilesSpec

\* Likewise of the task gateway.
LEMMA OfficeIsGate == OfficeSpec => GateSpec
<1>1. OfficeInit => GateInit
  BY DEF OfficeInit
<1>2. [OfficeNext]_officevars => [GateNext]_gatevars
  BY DEF OfficeNext, officevars
<1> QED
  BY <1>1, <1>2, PTL DEF OfficeSpec, GateSpec

\* Likewise of the external agents.
LEMMA OfficeIsExt == OfficeSpec => ExtSpec
<1>1. OfficeInit => ExtInit
  BY DEF OfficeInit
<1>2. [OfficeNext]_officevars => [ExtNext]_xvars
  BY DEF OfficeNext, officevars
<1> QED
  BY <1>1, <1>2, PTL DEF OfficeSpec, ExtSpec

\* Likewise of the queues.
LEMMA OfficeIsQueue == OfficeSpec => QueueSpec
<1>1. OfficeInit => QueueInit
  BY DEF OfficeInit
<1>2. [OfficeNext]_officevars => [QueueNext]_qvars
  BY DEF OfficeNext, officevars
<1> QED
  BY <1>1, <1>2, PTL DEF OfficeSpec, QueueSpec

\* Likewise of the resuming tick.
LEMMA OfficeIsResume == OfficeSpec => ResumeSpec
<1>1. OfficeInit => ResumeInit
  BY DEF OfficeInit
<1>2. [OfficeNext]_officevars => [ResumeNext]_rvars
  BY DEF OfficeNext, officevars
<1> QED
  BY <1>1, <1>2, PTL DEF OfficeSpec, ResumeSpec

\* Likewise of the OCID registry.
LEMMA OfficeIsOcid == OfficeSpec => OcidSpec
<1>1. OfficeInit => OcidInit
  BY DEF OfficeInit
<1>2. [OfficeNext]_officevars => [OcidNext]_ovars
  BY DEF OfficeNext, officevars
<1> QED
  BY <1>1, <1>2, PTL DEF OfficeSpec, OcidSpec

\* Likewise of the owner phases.
LEMMA OfficeIsPhases == OfficeSpec => PhaseSpec
<1>1. OfficeInit => PhaseInit
  BY DEF OfficeInit
<1>2. [OfficeNext]_officevars => [PhaseNext]_pvars
  BY DEF OfficeNext, officevars
<1> QED
  BY <1>1, <1>2, PTL DEF OfficeSpec, PhaseSpec

\* Likewise of the dead zone.
LEMMA OfficeIsZone == OfficeSpec => ZoneSpec
<1>1. OfficeInit => ZoneInit
  BY DEF OfficeInit
<1>2. [OfficeNext]_officevars => [ZoneNext]_zvars
  BY DEF OfficeNext, officevars
<1> QED
  BY <1>1, <1>2, PTL DEF OfficeSpec, ZoneSpec

\* Likewise of the credit ledger.
LEMMA OfficeIsCredit == OfficeSpec => CreditSpec
<1>1. OfficeInit => CreditInit
  BY DEF OfficeInit
<1>2. [OfficeNext]_officevars => [CreditNext]_cvars
  BY DEF OfficeNext, officevars
<1> QED
  BY <1>1, <1>2, PTL DEF OfficeSpec, CreditSpec

\* Likewise of the emergency cascade.
LEMMA OfficeIsCascade == OfficeSpec => CascadeSpec
<1>1. OfficeInit => CascadeInit
  BY DEF OfficeInit
<1>2. [OfficeNext]_officevars => [CascadeNext]_evars
  BY DEF OfficeNext, officevars
<1> QED
  BY <1>1, <1>2, PTL DEF OfficeSpec, CascadeSpec

\* Likewise of the reconciliation of the owner's rows.
LEMMA OfficeIsReconcile == OfficeSpec => ReconcileSpec
<1>1. OfficeInit => ReconcileInit
  BY DEF OfficeInit
<1>2. [OfficeNext]_officevars => [ReconcileNext]_recvars
  BY DEF OfficeNext, officevars
<1> QED
  BY <1>1, <1>2, PTL DEF OfficeSpec, ReconcileSpec

\* What is recorded of OCIDs happened: certifications stand on real merges and audits,
\* and lifecycles leave out no stage, for every number of fix retries and pushes.
THEOREM OcidsAreProven == OfficeSpec => []OcidsProven
BY NoSelfCertification, StagesInOrder, OfficeIsPm, OfficeIsLife, PTL DEF OcidsProven

\* No task is made twice under one title, and nothing that a call saved of a task is
\* lost from its file, for every number of tasks and calls.
THEOREM TasksAreKept == OfficeSpec => []TasksKept
BY TitlesWorkedOnce, EntriesKept, OfficeIsGate, OfficeIsFiles, PTL DEF TasksKept
\* The record that each component keeps has its type throughout: counters end at their limits,
\* and numbers are of rows, tasks and entries that there are.
THEOREM OfficeWellTyped == OfficeSpec => []OfficeTypeOK
<1>1. OfficeSpec => [](scene \in Scenes)
  <2>1. OfficeInit => scene \in Scenes
    BY DEF OfficeInit
  <2>2. scene \in Scenes /\ [OfficeNext]_officevars => (scene \in Scenes)'
    BY DEF OfficeNext, officevars
  <2> QED  BY <2>1, <2>2, PTL DEF OfficeSpec
<1>2. OfficeSpec => [](ExtTypeOK /\ QueueTypeOK /\ ResumeTypeOK /\ OcidTypeOK)
  BY ExtTyped, QueueTyped, ResumeTyped, OcidTyped, OfficeIsExt, OfficeIsQueue, OfficeIsResume,
     OfficeIsOcid, PTL
<1>3. OfficeSpec => [](LifeTypeOK /\ PhaseTypeOK /\ ZoneTypeOK /\ PmTypeOK /\ ReconcileTypeOK)
  <2>1. /\ (LifeInv => LifeTypeOK) /\ (PhaseInv => PhaseTypeOK) /\ (ZoneInv => ZoneTypeOK)
        /\ (PmInv => PmTypeOK) /\ (ReconcileInv => ReconcileTypeOK)
    BY DEF LifeInv, PhaseInv, ZoneInv, PmInv, ReconcileInv
  <2> QED
    BY <2>1, LifeKeeps, PhasesKeep, ZoneKeeps, PmKeeps, ReconcileKeeps, OfficeIsLife,
       OfficeIsPhases, OfficeIsZone, OfficeIsPm, OfficeIsReconcile, PTL
<1>4. OfficeSpec => [](CreditTypeOK /\ CascadeTypeOK /\ FilesTypeOK /\ GateTypeOK)
  BY CreditTyped, CascadeTyped, FilesWellTyped, GatewayTyped, OfficeIsCredit, OfficeIsCascade,
     OfficeIsFiles, OfficeIsGate, PTL
<1>5. /\ scene \in Scenes
      /\ ExtTypeOK /\ QueueTypeOK /\ ResumeTypeOK /\ OcidTypeOK
      /\ LifeTypeOK /\ PhaseTypeOK /\ ZoneTypeOK /\ PmTypeOK /\ ReconcileTypeOK
      /\ CreditTypeOK /\ CascadeTypeOK /\ FilesTypeOK /\ GateTypeOK
      => OfficeTypeOK
  BY DEF OfficeTypeOK
<1> QED
  BY <1>1, <1>2, <1>3, <1>4, <1>5, PTL
=============================================================================
