----------------------------- MODULE Watchdogs ------------------------------
(***************************************************************************)
(* The two programs that look at what runs, with timers of their own and   *)
(* no common state.                                                        *)
(*                                                                         *)
(* veridian-task-watchdog.py: every minute it reads the checkpoints of the *)
(* tasks whose worker is active; one that stalls or repeats a note gets    *)
(* the fix known for the note, by a row of the governor, and, when it is   *)
(* still bad a minute later or none is known, a task that looks for the    *)
(* cause.  Workers, the governor and the cause-finding tasks go on         *)
(* meanwhile.                                                              *)
(*                                                                         *)
(* health-check-15min.py and notify-owner.py: cycles that look at the      *)
(* server, keep in their log's last record how often a trouble was seen in *)
(* a row and which tasks were blocked, write to the owner about both at    *)
(* most once an hour for each signature, and copy the register once a day. *)
(* Runs of the check exclude each other; other scripts write to the owner  *)
(* too, and all of them read and replace one state file.  A run may be     *)
(* killed anywhere.  One unit of time is one cycle.                        *)
(***************************************************************************)
EXTENDS Naturals, FiniteSets

-----------------------------------------------------------------------------
(* veridian-task-watchdog.py *)

CONSTANTS Watched,    \* the tasks
          Notes,      \* signatures of checkpoint notes
          Periodic,   \* the harness's own note, which is no loop
          LoopCount,  \* equal notes in a row that are a loop
          MaxPoints, MaxPasses

ASSUME WatchdogAssumption ==
    /\ Periodic \in Notes
    /\ LoopCount \in Nat \ {0} /\ {MaxPoints, MaxPasses} \subseteq Nat

VARIABLES work,    \* per task: its worker and its last checkpoints
          recalled, \* notes in ATTENTION.md or the output of an audit
          fixes,   \* the table known_fixes: how often each was logged
          askedFor,   \* the governor's active rows, by the task and the kind
          dog,     \* the pass
          dogpast  \* history: checkpoints, passes, the tasks that ever ailed, and
                   \* of this pass: the fixes tried, and whether one was known

dogvars == <<work, recalled, fixes, askedFor, dog, dogpast>>

Kinds == {"restart", "cause"}

WatchdogTypeOK ==
    /\ work \in [Watched -> [active : BOOLEAN, old : BOOLEAN, note : Notes,
                             same : 0..LoopCount]]
    /\ recalled \subseteq Notes /\ fixes \in [Notes -> Nat]
    /\ askedFor \subseteq Watched \X Kinds
    /\ dog.at \in {"off", "pass", "seen", "fixing", "logging", "waiting",
                   "escalating"}
    /\ dog.todo \subseteq Watched

WatchdogInit ==
    /\ work = [t \in Watched |-> [active |-> TRUE, old |-> FALSE,
                                  note |-> Periodic, same |-> 0]]
    /\ recalled = {} /\ fixes = [n \in Notes |-> 0] /\ askedFor = {}
    /\ dog = [at |-> "off", todo |-> {}, task |-> CHOOSE t \in Watched : TRUE,
              note |-> Periodic]
    /\ dogpast = [points |-> 0, passes |-> 0, ailed |-> {},
                   tried |-> {}, known |-> FALSE]

\* Age and repetition, as evaluate judges the checkpoints it is given; a task
\* without any is neither.
Stalled(w) == w.same > 0 /\ w.old

\* Mutant of Loops: the periodic checkpoint counts as well.
LoopsOnAny(w) == w.same >= LoopCount
Loops(w) == w.same >= LoopCount /\ w.note # Periodic
Bad(w) == Stalled(w) \/ Loops(w)

\* A worker writes a checkpoint, falls silent, ends, or is there again.
Checkpoints(t, n) ==
    /\ work[t].active /\ dogpast.points < MaxPoints
    /\ work' = [work EXCEPT ![t].old = FALSE, ![t].note = n,
                            ![t].same = IF work[t].note # n THEN 1
                                        ELSE IF @ < LoopCount THEN @ + 1 ELSE @]
    /\ dogpast' = [dogpast EXCEPT !.points = @ + 1,
                     !.ailed = IF work'[t].same = LoopCount /\ n # Periodic
                               THEN @ \cup {t} ELSE @]
    /\ UNCHANGED <<recalled, fixes, askedFor, dog>>

FallsSilent(t) ==
    /\ work[t].active /\ ~work[t].old
    /\ work' = [work EXCEPT ![t].old = TRUE]
    /\ dogpast' = [dogpast EXCEPT !.ailed = @ \cup {t}]
    /\ UNCHANGED <<recalled, fixes, askedFor, dog>>

WatchedEnds(t) ==
    /\ work[t].active
    /\ work' = [work EXCEPT ![t].active = FALSE]
    /\ UNCHANGED <<recalled, fixes, askedFor, dog, dogpast>>

\* The governor spawns a restart, whatever has become of the worker since, and
\* the worker's first checkpoint is new.
Restarts(t) ==
    /\ <<t, "restart">> \in askedFor
    /\ askedFor' = askedFor \ {<<t, "restart">>}
    /\ work' = [work EXCEPT ![t] = [active |-> TRUE, old |-> FALSE,
                                    note |-> Periodic, same |-> 1]]
    /\ UNCHANGED <<recalled, fixes, dog, dogpast>>

\* A task that looks for a cause ends, with fixes logged or without.
CauseFound(t, logged) ==
    /\ <<t, "cause">> \in askedFor
    /\ askedFor' = askedFor \ {<<t, "cause">>}
    /\ fixes' = [n \in Notes |-> IF n \in logged /\ fixes[n] < 2 THEN fixes[n] + 1
                                 ELSE fixes[n]]
    /\ UNCHANGED <<work, recalled, dog, dogpast>>

\* A note gets into ATTENTION.md or an audit's output.
Recalls(n) ==
    /\ n \notin recalled
    /\ recalled' = recalled \cup {n}
    /\ UNCHANGED <<work, fixes, askedFor, dog, dogpast>>

\* A pass lists the active units once.
Lists ==
    /\ dog.at = "off" /\ dogpast.passes < MaxPasses
    /\ dog' = [dog EXCEPT !.at = "pass",
                          !.todo = {t \in Watched : work[t].active}]
    /\ dogpast' = [dogpast EXCEPT !.passes = @ + 1, !.tried = {}]
    /\ UNCHANGED <<work, recalled, fixes, askedFor>>

\* The next task's checkpoints are read; its note is what is looked up.
Evaluates(t) ==
    /\ dog.at = "pass" /\ t \in dog.todo
    /\ dog' = [dog EXCEPT !.todo = @ \ {t}, !.task = t, !.note = work[t].note,
                          !.at = IF Bad(work[t]) THEN "seen" ELSE "pass"]
    /\ UNCHANGED <<work, recalled, fixes, askedFor, dogpast>>

\* The known fix is used only for a note found in ATTENTION.md or an audit.
UsesFix == dog.note \in recalled /\ fixes[dog.note] > 0

LooksUp ==
    /\ dog.at = "seen"
    /\ dog' = [dog EXCEPT !.at = IF UsesFix THEN "fixing" ELSE "escalating"]
    /\ dogpast' = [dogpast EXCEPT !.known = UsesFix]
    /\ UNCHANGED <<work, recalled, fixes, askedFor>>

\* submit refuses a row whose identity has an active one.
AsksGovernor(t, kind) ==
    /\ <<t, kind>> \notin askedFor
    /\ askedFor' = askedFor \cup {<<t, kind>>}

\* A fix is submitted, refused as a duplicate, or of an unknown name; it
\* counts as applied in each of these cases.
FixSubmitted ==
    /\ dog.at = "fixing"
    /\ AsksGovernor(dog.task, "restart") \/ UNCHANGED askedFor
    /\ dog' = [dog EXCEPT !.at = "logging"]
    /\ dogpast' = [dogpast EXCEPT !.tried = @ \cup {dog.task}]
    /\ UNCHANGED <<work, recalled, fixes>>

LogsFix ==
    /\ dog.at = "logging"
    /\ fixes' = [fixes EXCEPT ![dog.note] = IF @ < 2 THEN @ + 1 ELSE @]
    /\ dog' = [dog EXCEPT !.at = "waiting"]
    /\ UNCHANGED <<work, recalled, askedFor, dogpast>>

\* A minute later the checkpoints are read again.
Rechecks ==
    /\ dog.at = "waiting"
    /\ dog' = [dog EXCEPT !.at = IF Bad(work[dog.task]) THEN "escalating"
                                 ELSE "pass"]
    /\ UNCHANGED <<work, recalled, fixes, askedFor, dogpast>>

Escalates ==
    /\ dog.at = "escalating"
    /\ \/ AsksGovernor(dog.task, "cause")
       \/ <<dog.task, "cause">> \in askedFor /\ UNCHANGED askedFor
    /\ dog' = [dog EXCEPT !.at = "pass"]
    /\ UNCHANGED <<work, recalled, fixes, dogpast>>

PassEnds ==
    /\ dog.at = "pass" /\ dog.todo = {}
    /\ dog' = [dog EXCEPT !.at = "off"]
    /\ UNCHANGED <<work, recalled, fixes, askedFor, dogpast>>

WatchdogNext ==
    \/ Lists \/ LooksUp \/ FixSubmitted \/ LogsFix \/ Rechecks \/ Escalates
    \/ PassEnds
    \/ \E t \in Watched :
        \/ FallsSilent(t) \/ WatchedEnds(t) \/ Restarts(t) \/ Evaluates(t)
        \/ \E n \in Notes : Checkpoints(t, n)
        \/ \E logged \in SUBSET (Notes \ {Periodic}) : CauseFound(t, logged)
    \/ \E n \in Notes : Recalls(n)

WatchdogSpec == WatchdogInit /\ [][WatchdogNext]_dogvars

-----------------------------------------------------------------------------
\* The watchdog asks for a restart or for a cause only of a task that did fall
\* silent or repeat a note of its own, never of one that only reported its
\* routine, and where a fix is known, for a cause only after that fix was tried.
EscalatedLast ==
    [][\A t \in Watched, kind \in {"restart", "cause"} :
        <<t, kind>> \in askedFor' \ askedFor =>
            /\ t \in dogpast.ailed
            /\ kind = "cause" /\ dogpast.known => t \in dogpast.tried]_dogvars

-----------------------------------------------------------------------------
(* health-check-15min.py and notify-owner.py *)

CONSTANTS Troubles,    \* signatures of anomalies
          Blockable,   \* tasks that may be blocked
          EscalateAt,  \* cycles in a row after which a trouble is escalated
          RateLimit,   \* the hour of the rate limit
          MaxClock, MaxChanges, MaxHealthKills, MaxOthers

ASSUME HealthAssumption ==
    /\ EscalateAt \in Nat \ {0} /\ RateLimit \in Nat \ {0}
    /\ {MaxClock, MaxChanges, MaxHealthKills, MaxOthers} \subseteq Nat

Never == MaxClock + RateLimit + 1

\* The dedupe keys: a trouble, plain or escalated; a blocked task; another
\* script's.
Keys == (Troubles \X {"plain", "escalated"}) \cup (Blockable \X {"blocked"})
        \cup {<<"other", "script">>}

VARIABLES clock,   \* cycles that have passed
          ails,    \* the troubles and blocked tasks there are
          record,  \* the last line of health-15min.jsonl
          mailed,  \* notify-owner-state.json: when each key was last mailed
          copy,    \* today's backup of the register: none, part or whole
          check,   \* the run of the check that has the lock
          other,   \* another script's call of notify-owner.py
          healthpast  \* history

healthvars == <<clock, ails, record, mailed, copy, check, other, healthpast>>

NoRecord == [streaks |-> [t \in Troubles |-> 0], blocked |-> {}]
Idle == [at |-> "off", seen |-> {}, blocked |-> {}, prev |-> NoRecord,
         streaks |-> [t \in Troubles |-> 0], todo |-> {}, key |-> <<"none", "none">>,
         state |-> <<>>]

HealthTypeOK ==
    /\ clock \in 0..MaxClock
    /\ ails \subseteq Troubles \cup Blockable
    /\ record.streaks \in [Troubles -> Nat] /\ record.blocked \subseteq Blockable
    /\ mailed \in [Keys -> 0..Never]
    /\ copy \in {"none", "part", "whole"}
    /\ check.at \in {"off", "copying", "looked", "mailing", "recorded", "slept"}
    /\ check.todo \subseteq Keys
    /\ other.at \in {"off", "read"}

HealthInit ==
    /\ clock = 0 /\ ails = {} /\ record = NoRecord
    /\ mailed = [k \in Keys |-> Never] /\ copy = "none"
    /\ check = Idle /\ other = [at |-> "off", state |-> <<>>]
    /\ healthpast = [inRow |-> [t \in Troubles |-> 0],
                     sent |-> [k \in Keys |-> Never], doubled |-> {},
                     excused |-> {}, changes |-> 0, kills |-> 0, others |-> 0]

\* Something breaks or is mended, a task is blocked or not any more.
AilsChange(a) ==
    /\ healthpast.changes < MaxChanges
    /\ ails' = IF a \in ails THEN ails \ {a} ELSE ails \cup {a}
    /\ healthpast' = [healthpast EXCEPT !.changes = @ + 1]
    /\ UNCHANGED <<clock, record, mailed, copy, check, other>>

\* A cycle begins, of a run that takes the lock or of the one that has it: the
\* previous record is read, the server is looked at, and a register that is
\* sound is copied unless today's copy exists, whatever there is of it.
LooksAtServer ==
    /\ check.at \in {"off", "slept"}
    /\ check' = [Idle EXCEPT !.at = IF copy = "none" THEN "copying" ELSE "looked",
                             !.prev = record, !.seen = ails \cap Troubles,
                             !.blocked = ails \cap Blockable]
    /\ copy' = IF copy = "none" THEN "part" ELSE copy
    /\ healthpast' = [healthpast EXCEPT !.inRow =
                        [t \in Troubles |-> @[t] + (IF t \in ails THEN 1 ELSE 0)]]
    /\ UNCHANGED <<clock, ails, record, mailed, other>>

CopiesRegister ==
    /\ check.at = "copying"
    /\ copy' = "whole" /\ check' = [check EXCEPT !.at = "looked"]
    /\ UNCHANGED <<clock, ails, record, mailed, other, healthpast>>

\* Mutant of Streak: a cycle without the trouble does not end its streak.
StreakNoReset(t) == check.prev.streaks[t] + (IF t \in check.seen THEN 1 ELSE 0)

\* The streaks of what was seen go on from the previous record's, and each
\* trouble is mailed under a key of its own once it is escalated.
Streak(t) == IF t \in check.seen THEN check.prev.streaks[t] + 1 ELSE 0

MailKey(t) == <<t, IF Streak(t) >= EscalateAt THEN "escalated" ELSE "plain">>

Anomalies ==
    /\ check.at = "looked"
    /\ check' = [check EXCEPT !.at = "mailing",
                              !.streaks = [t \in Troubles |-> Streak(t)],
                              !.todo = {MailKey(t) : t \in check.seen}]
    /\ UNCHANGED <<clock, ails, record, mailed, copy, other, healthpast>>

\* When the last mail of key is an hour old, by the state that was read.
MayMail(key, state) == state[key] = Never \/ clock - state[key] >= RateLimit

\* A call of notify-owner.py by the check reads the state.
Asks(key) ==
    /\ check.at \in {"mailing", "recorded"} /\ key \in check.todo
    /\ check.state = <<>>
    /\ check' = IF MayMail(key, mailed)
                THEN [check EXCEPT !.key = key, !.state = mailed]
                ELSE [check EXCEPT !.todo = @ \ {key}]
    /\ UNCHANGED <<clock, ails, record, mailed, copy, other, healthpast>>

\* The mail is sent, or not, and in the first case the state replaced.
Mails(sent) ==
    LET key == check.key
        last == healthpast.sent[key] IN
    /\ check.state # <<>>
    /\ check' = [check EXCEPT !.todo = @ \ {key}, !.state = <<>>,
                              !.key = <<"none", "none">>]
    /\ IF sent
       THEN /\ mailed' = [check.state EXCEPT ![key] = clock]
            /\ healthpast' = [healthpast EXCEPT
                    !.sent[key] = clock, !.excused = @ \ {key},
                    !.doubled = IF last # Never /\ clock - last < RateLimit
                                   /\ key \notin healthpast.excused
                                THEN @ \cup {key} ELSE @]
       ELSE UNCHANGED <<mailed, healthpast>>
    /\ UNCHANGED <<clock, ails, record, copy, other>>

\* All mails about anomalies tried, the record is appended; the tasks blocked
\* in it and in the one before are to be mailed about.
AppendsRecord ==
    /\ check.at = "mailing" /\ check.todo = {}
    /\ record' = [streaks |-> check.streaks, blocked |-> check.blocked]
    /\ check' = [check EXCEPT !.at = "recorded",
                    !.todo = {<<b, "blocked">> :
                                b \in check.blocked \cap check.prev.blocked}]
    /\ healthpast' = [healthpast EXCEPT !.inRow =
                        [t \in Troubles |-> IF t \in check.seen THEN @[t] ELSE 0]]
    /\ UNCHANGED <<clock, ails, mailed, copy, other>>

\* The logs are rotated and the run sleeps, or ends and gives up the lock.
Sleeps ==
    /\ check.at = "recorded" /\ check.todo = {} /\ clock < MaxClock
    /\ \E at \in {"slept", "off"} : check' = [Idle EXCEPT !.at = at]
    /\ clock' = clock + 1
    /\ UNCHANGED <<ails, record, mailed, copy, other, healthpast>>

\* A key is no more in the state although it was mailed about.
Forgotten(state) ==
    {k \in Keys : healthpast.sent[k] # Never /\ state[k] # healthpast.sent[k]}

\* The run is killed; a mail may have left whose state is not written.
HealthKilled ==
    /\ check.at \notin {"off", "slept"} /\ healthpast.kills < MaxHealthKills
    /\ \E left \in IF check.state = <<>> THEN {{}} ELSE {{}, {check.key}} :
        healthpast' = [healthpast EXCEPT !.kills = @ + 1,
                            !.excused = @ \cup left,
                            !.sent = [k \in Keys |-> IF k \in left THEN clock
                                                     ELSE @[k]]]
    /\ check' = Idle
    /\ UNCHANGED <<clock, ails, record, mailed, copy, other>>

\* Another script's call reads the state, mails, and replaces it by what it
\* read and its own key: what was written in between is lost.
OtherAsks ==
    /\ other.at = "off" /\ healthpast.others < MaxOthers
    /\ MayMail(<<"other", "script">>, mailed)
    /\ other' = [at |-> "read", state |-> mailed]
    /\ healthpast' = [healthpast EXCEPT !.others = @ + 1]
    /\ UNCHANGED <<clock, ails, record, mailed, copy, check>>

OtherMails ==
    LET new == [other.state EXCEPT ![<<"other", "script">>] = clock] IN
    /\ other.at = "read"
    /\ mailed' = new /\ other' = [at |-> "off", state |-> <<>>]
    /\ healthpast' = [healthpast EXCEPT !.excused = @ \cup
                        (Forgotten(new) \ {<<"other", "script">>})]
    /\ UNCHANGED <<clock, ails, record, copy, check>>

HealthNext ==
    \/ \E a \in Troubles \cup Blockable : AilsChange(a)
    \/ LooksAtServer \/ CopiesRegister \/ Anomalies \/ AppendsRecord \/ Sleeps \/ HealthKilled
    \/ OtherAsks \/ OtherMails
    \/ \E k \in Keys : Asks(k)
    \/ \E b \in BOOLEAN : Mails(b)

HealthSpec == HealthInit /\ [][HealthNext]_healthvars

-----------------------------------------------------------------------------
\* No two mails with one key in less than the rate limit, unless the state
\* file lost the first: its writer was killed, or another script overwrote it.
MailedOncePerHour == healthpast.doubled = {}

\* A streak never says more than the cycles in which the trouble was seen since
\* one that recorded its absence, whatever was killed; so an escalated mail is
\* about one that was seen that often.
StreaksAreReal ==
    /\ check.at \in {"mailing", "recorded"} =>
        \A t \in Troubles : check.streaks[t] <= healthpast.inRow[t]
    /\ check.key # <<"none", "none">> /\ check.key[2] = "escalated" =>
        healthpast.inRow[check.key[1]] >= EscalateAt

\* A copy of today that is not whole is being made, or its maker was killed.
CopyWhole == copy = "part" => check.at = "copying" \/ healthpast.kills > 0

OwnerTold == MailedOncePerHour /\ StreaksAreReal /\ CopyWhole
=============================================================================
