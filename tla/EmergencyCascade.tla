--------------------------- MODULE EmergencyCascade ---------------------------
(***************************************************************************)
(* resource_governor.py under load: every dispatch samples the metrics and *)
(* counts, per metric, the consecutive times it was over the threshold.    *)
(* From one count on a dispatch stops the lowest-tier worker, from the     *)
(* next it writes the EMERGENCY_STOP file, which halts all dispatches      *)
(* until an operator clears it.                                            *)
(*                                                                         *)
(* The timer's dispatch and one by hand overlap.  The counters are read    *)
(* and written under a file lock, which clearing does not take.            *)
(***************************************************************************)
EXTENDS Naturals, FiniteSets

CONSTANTS
    Metrics,      \* METRIC_NAMES
    Dispatchers,  \* processes that may call dispatch_one at once
    ShedTicks,    \* EMERGENCY_CONSECUTIVE_TICKS_SHED
    StopTicks,    \* EMERGENCY_CONSECUTIVE_TICKS_HARDSTOP
    NumRunners,   \* governor-tracked units, the lowest tier last
    MaxMishaps    \* bound: clears and kills

ASSUME CascadeAssumption ==
    /\ {ShedTicks, StopTicks, NumRunners} \subseteq Nat \ {0}
    /\ ShedTicks < StopTicks
    /\ MaxMishaps \in Nat
    /\ IsFiniteSet(Dispatchers) /\ "free" \notin Dispatchers

VARIABLES
    counts,     \* resource-governor-emergency-state.json
    countLock,  \* its lock: the holder, or "free"
    stopFile,   \* the EMERGENCY_STOP file is there
    runner,     \* per unit: the status of its row
    gtick,      \* per process: where it is, what it sampled, read and chose
    clearing,   \* the operator's command is between its two writes
    streak,     \* history: per metric, samples over the threshold in a row
    due,        \* history: a streak has reached StopTicks
    mishaps     \* clears and kills so far

evars == <<counts, countLock, stopFile, runner, gtick, clearing, streak, due, mishaps>>

Runners == 1 .. NumRunners
MaxCount == StopTicks + Cardinality(Dispatchers)
NoGovernorTick ==
    [pc |-> "idle", over |-> {}, read |-> [m \in Metrics |-> 0], victim |-> 0]

CascadeTypeOK ==
    /\ counts \in [Metrics -> 0 .. MaxCount]
    /\ countLock \in Dispatchers \cup {"free"}
    /\ stopFile \in BOOLEAN
    /\ runner \in [Runners -> {"running", "sigterm_sent", "ended"}]
    /\ gtick \in [Dispatchers -> [pc : {"idle", "sampled", "locked", "saved", "shed"},
                                  over : SUBSET Metrics,
                                  read : [Metrics -> 0 .. MaxCount],
                                  victim : 0 .. NumRunners]]
    /\ clearing \in BOOLEAN
    /\ streak \in [Metrics -> 0 .. StopTicks]
    /\ due \in BOOLEAN
    /\ mishaps \in 0 .. MaxMishaps

CascadeInit ==
    /\ counts = [m \in Metrics |-> 0]
    /\ countLock = "free"
    /\ stopFile = FALSE
    /\ runner = [r \in Runners |-> "running"]
    /\ gtick = [g \in Dispatchers |-> NoGovernorTick]
    /\ clearing = FALSE
    /\ streak = [m \in Metrics |-> 0]
    /\ due = FALSE
    /\ mishaps = 0

-----------------------------------------------------------------------------
(* dispatch_one *)

\* What over_threshold_metrics may find in a sample of the server: any of them.
Sampled == SUBSET Metrics

\* resource_threshold_block_reason: the file is looked for, then the metrics are sampled.
Samples(g) ==
    /\ gtick[g].pc = "idle" /\ ~stopFile
    /\ \E over \in Sampled :
          gtick' = [gtick EXCEPT ![g].pc = "sampled", ![g].over = over]
    /\ UNCHANGED <<counts, countLock, stopFile, runner, clearing, streak, due, mishaps>>

\* Mutant of CountsUnlocked: no file lock.
CountsOpen == TRUE

\* _state_file_lock
CountsUnlocked == countLock = "free"

\* _record_emergency_tick: the counters are loaded
Loads(g) ==
    /\ gtick[g].pc = "sampled" /\ CountsUnlocked
    /\ countLock' = g
    /\ gtick' = [gtick EXCEPT ![g].pc = "locked", ![g].read = counts]
    /\ UNCHANGED <<counts, stopFile, runner, clearing, streak, due, mishaps>>

\* and saved, one up for what was over and zero for the rest.
Saves(g) ==
    /\ gtick[g].pc = "locked"
    /\ counts' = [m \in Metrics |->
           IF m \in gtick[g].over /\ gtick[g].read[m] < MaxCount THEN gtick[g].read[m] + 1
           ELSE IF m \in gtick[g].over THEN MaxCount ELSE 0]
    /\ streak' = [m \in Metrics |->
           IF m \notin gtick[g].over THEN 0
           ELSE IF streak[m] < StopTicks THEN streak[m] + 1 ELSE StopTicks]
    /\ due' = (due \/ \E m \in Metrics : streak'[m] = StopTicks)
    /\ gtick' = [gtick EXCEPT ![g].pc = "saved", ![g].read = counts']
    /\ countLock' = "free"
    /\ UNCHANGED <<stopFile, runner, clearing, mishaps>>

Reached(g, ticks) == \E m \in Metrics : gtick[g].read[m] >= ticks

\* _write_emergency_stop
WritesStop(g) ==
    /\ gtick[g].pc = "saved" /\ Reached(g, StopTicks)
    /\ stopFile' = TRUE
    /\ gtick' = [gtick EXCEPT ![g] = NoGovernorTick]
    /\ UNCHANGED <<counts, countLock, runner, clearing, streak, due, mishaps>>

\* _shed_load: the running row of the lowest tier.
Picks(g) ==
    /\ gtick[g].pc = "saved" /\ Reached(g, ShedTicks) /\ ~Reached(g, StopTicks)
    /\ \E r \in Runners :
          /\ runner[r] = "running"
          /\ \A q \in Runners : q > r => runner[q] # "running"
          /\ gtick' = [gtick EXCEPT ![g].pc = "shed", ![g].victim = r]
    /\ UNCHANGED <<counts, countLock, stopFile, runner, clearing, streak, due, mishaps>>

\* SIGTERM to its unit, and the row says so, whatever it said in between.
Sheds(g) ==
    /\ gtick[g].pc = "shed"
    /\ runner' = [runner EXCEPT ![gtick[g].victim] = "sigterm_sent"]
    /\ gtick' = [gtick EXCEPT ![g] = NoGovernorTick]
    /\ UNCHANGED <<counts, countLock, stopFile, clearing, streak, due, mishaps>>

\* Below both counts, or with nothing to stop, the dispatch goes on or is frozen.
GoesOn(g) ==
    /\ gtick[g].pc = "saved"
    /\ \/ ~Reached(g, ShedTicks)
       \/ ~Reached(g, StopTicks) /\ \A r \in Runners : runner[r] # "running"
    /\ gtick' = [gtick EXCEPT ![g] = NoGovernorTick]
    /\ UNCHANGED <<counts, countLock, stopFile, runner, clearing, streak, due, mishaps>>

Mishap == mishaps < MaxMishaps /\ mishaps' = mishaps + 1

\* A process is killed; its lock goes with it.
SampleKilled(g) ==
    /\ Mishap
    /\ gtick[g].pc # "idle"
    /\ gtick' = [gtick EXCEPT ![g] = NoGovernorTick]
    /\ countLock' = IF countLock = g THEN "free" ELSE countLock
    /\ UNCHANGED <<counts, stopFile, runner, clearing, streak, due>>

\* clear_emergency_stop: the file goes first, then the counters, without their lock.
StartsClearing ==
    /\ Mishap
    /\ ~clearing
    /\ clearing' = TRUE
    /\ stopFile' = FALSE
    /\ UNCHANGED <<counts, countLock, runner, gtick, streak, due>>

EndsClearing ==
    /\ clearing
    /\ clearing' = FALSE
    /\ counts' = [m \in Metrics |-> 0]
    /\ UNCHANGED <<countLock, stopFile, runner, gtick, streak, due, mishaps>>

\* A worker ends by itself.
RunnerEnds(r) ==
    /\ runner[r] = "running"
    /\ runner' = [runner EXCEPT ![r] = "ended"]
    /\ UNCHANGED <<counts, countLock, stopFile, gtick, clearing, streak, due, mishaps>>

CascadeNext ==
    \/ \E g \in Dispatchers :
          \/ Samples(g) \/ Loads(g) \/ Saves(g) \/ WritesStop(g) \/ Picks(g)
          \/ Sheds(g) \/ GoesOn(g) \/ SampleKilled(g)
    \/ StartsClearing \/ EndsClearing
    \/ \E r \in Runners : RunnerEnds(r)

CascadeSpec == CascadeInit /\ [][CascadeNext]_evars

-----------------------------------------------------------------------------
(* Properties *)

\* Dispatch is halted exactly when a metric was over the threshold the full number of
\* times in a row: never sooner, whatever is cleared or killed meanwhile, and never
\* missed, however the dispatches that count overlap, until somebody clears or kills.
StopsWhenDue ==
    /\ stopFile => due
    /\ due /\ mishaps = 0 /\ (\A g \in Dispatchers : gtick[g].pc = "idle") => stopFile
=============================================================================
