---------------------------- MODULE TerminalGate ----------------------------
(***************************************************************************)
(* What it takes to close a row of umr_tasks by hand: mark-umr-terminal of *)
(* superboss-register.py, which asks for a file on disk or a commit on the *)
(* default branch, and agent_work_briefing.py record-completion, which     *)
(* asks GitHub about the pull request first.  Every question is a call of  *)
(* its own, made before the register's lock is taken, while the work is    *)
(* pushed, merged or removed and other commands write the same row.        *)
(***************************************************************************)
EXTENDS Naturals

CONSTANTS
    Closers,    \* calls that would close the row
    Commits,    \* commits they may name
    NoCommit,
    MaxMoves    \* bound: pushes, merges, removals and writes of other commands

ASSUME TerminalAssumption == NoCommit \notin Commits /\ MaxMoves \in Nat

Ends == {"completed", "completed_unmerged", "failed"}
Doing == {"queued", "dispatched", "running"}
Evidence == Commits \cup {NoCommit}

VARIABLES
    work,      \* the row: its status and the evidence in its outputs
    commit,    \* of each commit: not pushed, pushed, or on the default branch
    onDisk,    \* the file that may be named as evidence is there
    docsOnly,  \* the pull request changes nothing but documentation
    closer,    \* per call: where it is, its claim, and what its questions answered
    entity,    \* the new entity's row in wiring_registry: none, or by whom
    moves      \* bound

endvars == <<work, commit, onDisk, docsOnly, closer, entity, moves>>

Unclaimed == [pc |-> "idle", claim |-> "failed", cites |-> FALSE, file |-> FALSE,
              sha |-> NoCommit, saw |-> {}]

TerminalTypeOK ==
    /\ work \in [status : Doing \cup Ends, sha : Evidence, file : BOOLEAN]
    /\ commit \in [Commits -> {"absent", "pushed", "main"}]
    /\ {onDisk, docsOnly} \subseteq BOOLEAN
    /\ closer \in [Closers -> [pc : {"idle", "briefs", "file", "commit", "ancestor", "write",
                                     "search", "register", "done"},
                               claim : Ends, cites : BOOLEAN, file : BOOLEAN, sha : Evidence,
                               saw : SUBSET {"file", "commit", "main", "none"}]]
    /\ entity \in Closers \cup {"none"}
    /\ moves \in 0 .. MaxMoves

TerminalInit ==
    /\ work = [status |-> "dispatched", sha |-> NoCommit, file |-> FALSE]
    /\ commit = [c \in Commits |-> "absent"]
    /\ onDisk \in BOOLEAN /\ docsOnly \in BOOLEAN
    /\ closer = [k \in Closers |-> Unclaimed]
    /\ entity = "none" /\ moves = 0

-----------------------------------------------------------------------------
(* record-completion of agent_work_briefing.py, or mark-umr-terminal at once *)

\* What comes next depends on no earlier answer.
Goes(k, pc) == closer' = [closer EXCEPT ![k] = [Unclaimed EXCEPT !.pc = pc]]
Sees(k, pc, answer) == closer' = [closer EXCEPT ![k].pc = pc, ![k].saw = @ \cup answer]

Claims(k) ==
    /\ closer[k].pc = "idle"
    /\ \E claim \in Ends, file \in BOOLEAN, sha \in Evidence, way \in {"file", "briefs"} :
          \E cites \in IF way = "file" THEN {FALSE} ELSE BOOLEAN :
             closer' = [closer EXCEPT ![k] =
                 [Unclaimed EXCEPT !.pc = way, !.claim = claim, !.cites = cites,
                                   !.file = file, !.sha = sha]]
    /\ UNCHANGED <<work, commit, onDisk, docsOnly, entity, moves>>

\* verify_real_completion_evidence: of a pull request GitHub must name a changed file
\* that is not documentation (a call that fails refuses); without one, a file is named.
Verified(c, answers) ==
    \/ c.claim = "failed"
    \/ c.cites /\ answers /\ ~docsOnly
    \/ ~c.cites /\ c.file

\* record_completion: a claim it cannot verify closes nothing, and the rest goes on.
Briefs(k) ==
    /\ closer[k].pc = "briefs"
    /\ \E answers \in BOOLEAN :
          IF Verified(closer[k], answers)
          THEN closer' = [closer EXCEPT ![k].pc = "file", ![k].cites = FALSE]
          ELSE Goes(k, "search")
    /\ UNCHANGED <<work, commit, onDisk, docsOnly, entity, moves>>

\* The new entity is looked up and then written, with no lock around the two.
Searches(k) ==
    /\ closer[k].pc = "search"
    /\ Goes(k, IF entity = "none" THEN "register" ELSE "done")
    /\ UNCHANGED <<work, commit, onDisk, docsOnly, entity, moves>>

RegistersEntity(k) ==
    /\ closer[k].pc = "register"
    /\ entity' = k /\ Goes(k, "done")
    /\ UNCHANGED <<work, commit, onDisk, docsOnly, moves>>

-----------------------------------------------------------------------------
(* mark-umr-terminal.  An end that is no completion is asked nothing. *)

ChecksFile(k) ==
    LET found == closer[k].file /\ onDisk
    IN  /\ closer[k].pc = "file"
        /\ Sees(k, IF closer[k].claim = "failed" \/ (closer[k].claim = "completed" /\ found)
                   THEN "write" ELSE "commit",
                IF found THEN {"file"} ELSE {})
        /\ UNCHANGED <<work, commit, onDisk, docsOnly, entity, moves>>

\* A fetch may fail: then what exists, or is merged, may not be known here yet.
ChecksCommit(k) ==
    /\ closer[k].pc = "commit"
    /\ \/ /\ closer[k].sha # NoCommit /\ commit[closer[k].sha] # "absent"
          /\ Sees(k, "ancestor", {"commit"})
       \/ Sees(k, "write", {})
    /\ UNCHANGED <<work, commit, onDisk, docsOnly, entity, moves>>

ChecksAncestor(k) ==
    /\ closer[k].pc = "ancestor"
    /\ \/ commit[closer[k].sha] = "main" /\ Sees(k, "write", {"main"})
       \/ Sees(k, "write", {})
    /\ UNCHANGED <<work, commit, onDisk, docsOnly, entity, moves>>

\* Mutant of Accepted: the commit need only exist.
AcceptedUnmerged(c) ==
    \/ c.claim = "failed"
    \/ c.claim = "completed" /\ {"file", "commit"} \cap c.saw # {}
    \/ c.claim = "completed_unmerged" /\ "commit" \in c.saw

\* validate_umr_terminal_completion_evidence
Accepted(c) ==
    \/ c.claim = "failed"
    \/ c.claim = "completed" /\ {"file", "main"} \cap c.saw # {}
    \/ c.claim = "completed_unmerged" /\ "commit" \in c.saw /\ "main" \notin c.saw

\* A refused call writes nothing.  An accepted one writes the row whatever it is by now;
\* its outputs replace the ones there, and are left alone by the other commands below.
Marks(k) ==
    /\ closer[k].pc = "write"
    /\ Goes(k, "search")
    /\ work' = IF Accepted(closer[k])
               THEN [status |-> closer[k].claim, sha |-> closer[k].sha,
                     file |-> "file" \in closer[k].saw]
               ELSE work
    /\ UNCHANGED <<commit, onDisk, docsOnly, entity, moves>>

-----------------------------------------------------------------------------
(* The others *)

Moves == moves < MaxMoves /\ moves' = moves + 1

\* mark-umr-dispatched and reset-umr-to-queued take any row, the requeue an active one.
MarksDispatched ==
    /\ Moves /\ work' = [work EXCEPT !.status = "dispatched"]
    /\ UNCHANGED <<commit, onDisk, docsOnly, closer, entity>>

ResetsToQueued ==
    /\ Moves /\ work' = [work EXCEPT !.status = "queued"]
    /\ UNCHANGED <<commit, onDisk, docsOnly, closer, entity>>

\* Work goes on: a push, which may change what the pull request is about; a merge; a file
\* that is written or removed.
WorkMoves ==
    /\ Moves
    /\ \/ \E c \in Commits :
             /\ commit[c] = "absent" /\ commit' = [commit EXCEPT ![c] = "pushed"]
             /\ docsOnly' \in BOOLEAN /\ UNCHANGED onDisk
       \/ \E c \in Commits :
             /\ commit[c] = "pushed" /\ commit' = [commit EXCEPT ![c] = "main"]
             /\ UNCHANGED <<onDisk, docsOnly>>
       \/ onDisk' = ~onDisk /\ UNCHANGED <<commit, docsOnly>>
    /\ UNCHANGED <<work, closer, entity>>

TerminalNext ==
    \/ \E k \in Closers :
          \/ Claims(k) \/ Briefs(k) \/ Searches(k) \/ RegistersEntity(k)
          \/ ChecksFile(k) \/ ChecksCommit(k) \/ ChecksAncestor(k) \/ Marks(k)
    \/ MarksDispatched \/ ResetsToQueued \/ WorkMoves

TerminalSpec == TerminalInit /\ [][TerminalNext]_endvars

-----------------------------------------------------------------------------
(* Properties *)

\* A row that was closed as completed rests on a file that was on disk or on a commit
\* that is on the default branch, and one closed as not merged on a commit that exists:
\* whatever was pushed, merged or written between a call's questions and its write.
ClosedOnEvidence ==
    /\ work.status = "completed" =>
          work.file \/ (work.sha # NoCommit /\ commit[work.sha] = "main")
    /\ work.status = "completed_unmerged" =>
          work.sha # NoCommit /\ commit[work.sha] # "absent"
=============================================================================
