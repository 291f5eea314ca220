----------------------------- MODULE ChunkStore -----------------------------
(***************************************************************************)
(* external_ai_state_machine.py: the chunks that external AI sessions      *)
(* paste, one file each in the directory of the user and the task, with a  *)
(* row per chunk.  Talks of one user and task have one directory.       *)
(*                                                                         *)
(* Every command is a process of its own.  A save looks whether its file   *)
(* is there, writes it, and upserts the row; nothing is locked between.    *)
(***************************************************************************)
EXTENDS Naturals

CONSTANTS
    Savers,       \* processes of save-chunk
    Talks,        \* sessions of one user about one task
    Places,      \* numbers of the chunks of a session
    Names,        \* file names in the directory
    Contents,
    MaxTouches    \* bound: files changed or removed by hand

ASSUME ChunkAssumption ==
    /\ MaxTouches \in Nat
    /\ "none" \notin Contents /\ {"none", "beside"} \cap Names = {}

VARIABLES
    disk,         \* per name: the content of the file, or "none"
    chunkRows,    \* external_ai_chunks: per session and number, or NoChunkRow
    saves,        \* per process: where its call is and what it was given
    disturbed,    \* history: names changed by hand, or written over by a save that had
                  \* found no file there
    touches

chunkvars == <<disk, chunkRows, saves, disturbed, touches>>

Chunks == Talks \X Places
Pastes == [chunk : Chunks, name : Names, content : Contents]
ChunkStatuses == {"none", "SAVED", "FAILED", "NEEDS_HUMAN_REVIEW"}
NoChunkRow == [status |-> "none", name |-> "none", content |-> "none"]

ChunkTypeOK ==
    /\ disk \in [Names -> Contents \cup {"none"}]
    /\ chunkRows \in [Chunks -> [status : ChunkStatuses, name : Names \cup {"none", "beside"},
                                 content : Contents \cup {"none"}]]
    /\ saves \in [Savers -> [pc : {"new"}] \cup
                  [pc : {"absent", "same", "differs", "written", "beside"}, paste : Pastes]]
    /\ disturbed \subseteq Names
    /\ touches \in 0 .. MaxTouches

ChunkInit ==
    /\ disk = [n \in Names |-> "none"]
    /\ chunkRows = [c \in Chunks |-> NoChunkRow]
    /\ saves = [s \in Savers |-> [pc |-> "new"]]
    /\ disturbed = {}
    /\ touches = 0

SaveGoes(s, pc) == saves' = [saves EXCEPT ![s].pc = pc]
Ends(s) == saves' = [saves EXCEPT ![s] = [pc |-> "new"]]

-----------------------------------------------------------------------------
(* save_chunk *)

Looks(s, paste) ==
    /\ saves[s].pc = "new"
    /\ saves' = [saves EXCEPT ![s] =
                   [paste |-> paste,
                    pc |-> CASE disk[paste.name] = "none" -> "absent"
                             [] disk[paste.name] = paste.content -> "same"
                             [] OTHER -> "differs"]]
    /\ UNCHANGED <<disk, chunkRows, disturbed, touches>>

\* A file appears under its name at once, over whatever has that name by then.
Writes(s) ==
    /\ saves[s].pc = "absent"
    /\ LET name == saves[s].paste.name IN
         /\ disk' = [disk EXCEPT ![name] = saves[s].paste.content]
         /\ disturbed' = IF disk[name] = "none" THEN disturbed ELSE disturbed \cup {name}
    /\ SaveGoes(s, "written")
    /\ UNCHANGED <<chunkRows, touches>>

\* A different content is written beside the file, under a name nobody has.
WritesBeside(s) ==
    /\ saves[s].pc = "differs"
    /\ SaveGoes(s, "beside")
    /\ UNCHANGED <<disk, chunkRows, disturbed, touches>>

\* The row is inserted, or the one of an earlier paste is overwritten, and the call returns.
Upserts(s, status, name) ==
    /\ chunkRows' = [chunkRows EXCEPT ![saves[s].paste.chunk] =
                        [status |-> status, name |-> name, content |-> saves[s].paste.content]]
    /\ Ends(s)
    /\ UNCHANGED <<disk, disturbed, touches>>

\* Without a safe name, or a fenced block, a human must look at it.  What was there already
\* is a save, complete or not by what the paste says of itself.
RecordsSame(s) ==
    /\ saves[s].pc = "same"
    /\ \E status \in {"SAVED", "NEEDS_HUMAN_REVIEW"} : Upserts(s, status, saves[s].paste.name)

RecordsConflict(s) ==
    /\ saves[s].pc = "beside"
    /\ Upserts(s, "NEEDS_HUMAN_REVIEW", "beside")

\* A new file is a save when the paste is readable and says it is complete.
RecordsNew(s) ==
    /\ saves[s].pc = "written"
    /\ \E status \in {"SAVED", "NEEDS_HUMAN_REVIEW"} : Upserts(s, status, saves[s].paste.name)

\* The process is killed: a file may be left without its row.
SaveKilled(s) ==
    /\ saves[s].pc \in {"absent", "differs", "written", "beside"}
    /\ Ends(s)
    /\ UNCHANGED <<disk, chunkRows, disturbed, touches>>

-----------------------------------------------------------------------------
(* The other commands, and the directory *)

Intact(c) == disk[chunkRows[c].name] = chunkRows[c].content

\* resume compares every saved chunk of the session with its file.  It takes the latest
\* active session of the user, which any may be until mark_complete.
Resumes(e) ==
    /\ chunkRows' = [c \in Chunks |->
         IF c[1] # e \/ chunkRows[c].status # "SAVED" \/ Intact(c) THEN chunkRows[c]
         ELSE [chunkRows[c] EXCEPT !.status =
                 IF disk[chunkRows[c].name] = "none" THEN "FAILED" ELSE "NEEDS_HUMAN_REVIEW"]]
    /\ UNCHANGED <<disk, saves, disturbed, touches>>

\* Somebody edits a file or removes it.
Touched(n) ==
    /\ touches < MaxTouches
    /\ disk[n] # "none"
    /\ \E content \in Contents \cup {"none"} : disk' = [disk EXCEPT ![n] = content]
    /\ disturbed' = disturbed \cup {n}
    /\ touches' = touches + 1
    /\ UNCHANGED <<chunkRows, saves>>

ChunkNext ==
    \/ \E s \in Savers :
          \/ \E paste \in Pastes : Looks(s, paste)
          \/ Writes(s) \/ WritesBeside(s) \/ RecordsSame(s) \/ RecordsConflict(s) \/ RecordsNew(s)
          \/ SaveKilled(s)
    \/ \E e \in Talks : Resumes(e)
    \/ \E n \in Names : Touched(n)

ChunkSpec == ChunkInit /\ [][ChunkNext]_chunkvars

-----------------------------------------------------------------------------
(* Properties *)

\* A chunk recorded as saved has its content on disk, through pastes of other contents under
\* its name, of other sessions' too, kills and retries; but for a file that was changed by
\* hand or that two saves wrote, both of which had found no file there (save_chunk's refusal
\* to overwrite).
SavedIsOnDisk ==
    \A c \in Chunks : chunkRows[c].status = "SAVED" =>
       Intact(c) \/ chunkRows[c].name \in disturbed
=============================================================================
