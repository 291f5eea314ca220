------------------------------- MODULE Backups -------------------------------
(***************************************************************************)
(* The copies of superboss-register.sqlite: snapshot_memory_backup.py      *)
(* takes one before a change, three a day at the most, and                 *)
(* prune_memory_backups.py deletes all but the newest that verify.  They   *)
(* take no lock, overlap, and may be killed anywhere.  Copies are numbered *)
(* in the order of their names, which is the order of their times.         *)
(***************************************************************************)
EXTENDS Naturals, FiniteSets

CONSTANTS
    Keep,           \* --keep, of both programs
    Snappers,       \* snapshots at once
    Pruners,        \* prunes at once
    MaxCopies,      \* bound: copies ever begun
    MaxUnwells      \* bound: turns of the live database, kills, days that end

CopyIds == 1 .. MaxCopies

ASSUME BackupsAssumption ==
    /\ {Keep, MaxCopies} \subseteq Nat \ {0} /\ MaxUnwells \in Nat

VARIABLES
    backup,     \* the files of the backups directory
    begun,      \* how many were begun
    dayStart,   \* how many of them before today
    healthy,    \* whether the live database passes integrity_check
    snapper,    \* per snapshot: where it is, and its copy
    pruner,     \* per prune: where it is, the files listed and not yet verified,
                \* those verified, and those it is to delete
    unwells     \* turns, kills and days so far

bakvars == <<backup, begun, dayStart, healthy, snapper, pruner, unwells>>

NoSnap == [pc |-> "idle", copy |-> 0]
NoPrune == [pc |-> "idle", left |-> {}, verified |-> {}, doomed |-> {}]

BackupsTypeOK ==
    /\ backup \in [CopyIds -> {"absent", "partial", "good", "corrupt"}]
    /\ begun \in 0 .. MaxCopies /\ dayStart \in 0 .. begun
    /\ healthy \in BOOLEAN
    /\ snapper \in [Snappers -> [pc : {"idle", "look", "write", "copying", "copied"},
                                 copy : 0 .. MaxCopies]]
    /\ pruner \in [Pruners -> [pc : {"idle", "verify", "delete"}, left : SUBSET CopyIds,
                               verified : SUBSET CopyIds, doomed : SUBSET CopyIds]]
    /\ unwells \in 0 .. MaxUnwells

BackupsInit ==
    /\ backup = [c \in CopyIds |-> "absent"]
    /\ begun = 0 /\ dayStart = 0
    /\ healthy = TRUE
    /\ snapper = [s \in Snappers |-> NoSnap]
    /\ pruner = [p \in Pruners |-> NoPrune]
    /\ unwells = 0

OnDisk == {c \in CopyIds : backup[c] # "absent"}
Today == {c \in OnDisk : c > dayStart}
Newest(S, n) == {c \in S : Cardinality({d \in S : d > c}) < n}

SnapAt(s, pc, c) == snapper' = [snapper EXCEPT ![s] = [pc |-> pc, copy |-> c]]

\* run of snapshot_memory_backup.py: a live database that is not well is not copied.
SnapBegins(s) ==
    /\ snapper[s].pc = "idle"
    /\ healthy
    /\ SnapAt(s, "look", 0)
    /\ UNCHANGED <<backup, begun, dayStart, healthy, pruner, unwells>>

\* Today's newest serves if it is recent and verifies; at the cap, the newest
\* that verifies serves, or the call fails.
SnapLooks(s) ==
    /\ snapper[s].pc = "look"
    /\ \/ /\ \E c \in Newest(Today, 1) : backup[c] = "good"
          /\ SnapAt(s, "idle", 0)
       \/ /\ Cardinality(Today) >= Keep
          /\ SnapAt(s, "idle", 0)
       \/ /\ Cardinality(Today) < Keep
          /\ SnapAt(s, "write", 0)
    /\ UNCHANGED <<backup, begun, dayStart, healthy, pruner, unwells>>

\* _real_backup_copy: the file has its last name from the first byte on.
SnapOpens(s) ==
    /\ snapper[s].pc = "write"
    /\ begun < MaxCopies
    /\ begun' = begun + 1
    /\ backup' = [backup EXCEPT ![begun + 1] = "partial"]
    /\ SnapAt(s, "copying", begun + 1)
    /\ UNCHANGED <<dayStart, healthy, pruner, unwells>>

\* The copy is as sound as the live database is by now.  If a prune has removed
\* the file meanwhile, os.utime raises.
SnapCopies(s) ==
    /\ snapper[s].pc = "copying"
    /\ LET c == snapper[s].copy
       IN  IF backup[c] = "partial"
           THEN /\ backup' = [backup EXCEPT ![c] = IF healthy THEN "good" ELSE "corrupt"]
                /\ SnapAt(s, "copied", c)
           ELSE /\ backup' = backup
                /\ SnapAt(s, "idle", 0)
    /\ UNCHANGED <<begun, dayStart, healthy, pruner, unwells>>

\* A copy that does not verify is removed.
SnapVerifies(s) ==
    /\ snapper[s].pc = "copied"
    /\ LET c == snapper[s].copy
       IN  backup' = [backup EXCEPT ![c] = IF @ = "good" THEN @ ELSE "absent"]
    /\ SnapAt(s, "idle", 0)
    /\ UNCHANGED <<begun, dayStart, healthy, pruner, unwells>>

\* run of prune_memory_backups.py: nothing is deleted while the live database is
\* not well; discover_backup_groups lists the files.
PruneBegins(p) ==
    /\ pruner[p] = NoPrune
    /\ healthy
    /\ pruner' = [pruner EXCEPT ![p] = [pc |-> "verify", left |-> OnDisk, verified |-> {},
                                        doomed |-> OnDisk]]
    /\ UNCHANGED <<backup, begun, dayStart, healthy, snapper, unwells>>

\* verify_group, in the order of their names: a file that is gone does not verify.
PruneVerifies(p) ==
    /\ pruner[p].pc = "verify"
    /\ \E c \in pruner[p].left :
          /\ \A d \in pruner[p].left : c <= d
          /\ pruner' = [pruner EXCEPT ![p].left = @ \ {c},
                                      ![p].verified = IF backup[c] = "good" THEN @ \cup {c} ELSE @]
    /\ UNCHANGED <<backup, begun, dayStart, healthy, snapper, unwells>>

\* plan_prune: the newest of the files that verify.
Spared(verified) == Newest(verified, Keep)

PrunePlans(p) ==
    /\ pruner[p].pc = "verify" /\ pruner[p].left = {}
    /\ pruner' = [pruner EXCEPT ![p].pc = "delete",
                                ![p].doomed = @ \ Spared(pruner[p].verified)]
    /\ UNCHANGED <<backup, begun, dayStart, healthy, snapper, unwells>>

PruneDeletes(p) ==
    /\ pruner[p].pc = "delete"
    /\ IF pruner[p].doomed = {}
       THEN pruner' = [pruner EXCEPT ![p] = NoPrune] /\ backup' = backup
       ELSE \E c \in Newest(pruner[p].doomed, 1) :
               /\ backup' = [backup EXCEPT ![c] = "absent"]
               /\ pruner' = [pruner EXCEPT ![p].doomed = @ \ {c}]
    /\ UNCHANGED <<begun, dayStart, healthy, snapper, unwells>>

\* The live database turns bad or is repaired, a program is killed, a day ends.
Unwell ==
    /\ unwells < MaxUnwells
    /\ unwells' = unwells + 1
    /\ \/ healthy' = ~healthy /\ UNCHANGED <<backup, begun, dayStart, snapper, pruner>>
       \/ \E s \in Snappers : snapper[s] # NoSnap /\ SnapAt(s, "idle", 0)
          /\ UNCHANGED <<backup, begun, dayStart, healthy, pruner>>
       \/ \E p \in Pruners : pruner[p] # NoPrune
          /\ pruner' = [pruner EXCEPT ![p] = NoPrune]
          /\ UNCHANGED <<backup, begun, dayStart, healthy, snapper>>
       \/ dayStart # begun /\ dayStart' = begun
          /\ UNCHANGED <<backup, begun, healthy, snapper, pruner>>

BackupsNext ==
    \/ \E s \in Snappers :
          SnapBegins(s) \/ SnapLooks(s) \/ SnapOpens(s) \/ SnapCopies(s) \/ SnapVerifies(s)
    \/ \E p \in Pruners :
          PruneBegins(p) \/ PruneVerifies(p) \/ PrunePlans(p) \/ PruneDeletes(p)
    \/ Unwell

BackupsSpec == BackupsInit /\ [][BackupsNext]_bakvars

-----------------------------------------------------------------------------
\* Of the copies a prune has found to verify, it leaves Keep, or all if they are
\* fewer, whatever half-written and corrupt files lie between them and whatever
\* snapshots come and go.  It is said of one prune at a time: a second one may
\* hold that a copy does not verify which was not finished when it looked.
PruneSpares ==
    \A p \in Pruners :
        LET seen == pruner[p].verified
            enough == IF Cardinality(seen) < Keep THEN Cardinality(seen) ELSE Keep
        IN  Cardinality({c \in seen : backup[c] = "good"}) >= enough
=============================================================================
