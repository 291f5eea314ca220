---------------------------- MODULE OwnerDispatch ----------------------------
(***************************************************************************)
(* dispatch-owner-task.sh, the front door of owner-directed work, and      *)
(* pm-sentinel-tick.sh, which goes through it for every gap its checks     *)
(* find; and what becomes of the row of each call in the governor.         *)
(*                                                                         *)
(* A call is a shell script under set -e: it asks for duplicates, logs,    *)
(* submits, links and delivers, each by a program of its own, with nothing *)
(* locked between them.  The sentinel's ticks do not overlap (systemd      *)
(* starts no second one), and each tick runs its calls one by one.         *)
(***************************************************************************)
EXTENDS FiniteSets, Naturals

CONSTANTS
    Gaps,       \* target keys, each with an identifier of its own
    Hands,      \* calls made by hand or by pm_lifecycle.py, each a process
    Sentinel,   \* the tick's caller
    MaxSubmitted,    \* bound: submissions
    TickCap,    \* PM_SENTINEL_MAX_DISPATCH
    MaxSlips    \* bound: calls cut short after the row was accepted, per gap

ASSUME OwnerDispatchAssumption ==
    /\ Sentinel \notin Hands
    /\ {MaxSubmitted, TickCap, MaxSlips} \subseteq Nat

VARIABLES
    urows,      \* umr_tasks: the rows of these submissions
    asked,      \* gaps whose prompt was logged within the last six hours
    inflight,   \* pm-sentinel-inflight.json: per gap the row recorded, 0 none
    cached,     \* per row: its status as this tick first read it, or "unread"
    calls,      \* per caller: where it is, its gap, its row and how it delivers
    found,      \* gaps this tick has found and not come to yet
    made,       \* dispatches of this tick
    slips       \* per gap: rows of the sentinel's that its state file does not show

duvars == <<urows, asked, inflight, cached, calls, found, made, slips>>

RowIds == 1 .. MaxSubmitted
Submitters == Hands \cup {Sentinel}
RowStatuses == {"none", "queued", "running", "ended"}
CallPlaces == {"idle", "tick", "checking", "logging", "submitting", "linking",
               "recording", "headless", "over"}
Deliveries == {"register", "relay", "headless"}

NoSubmission == [gap |-> "none", by |-> "none", status |-> "none", fresh |-> FALSE, unit |-> FALSE]

DispatchTypeOK ==
    /\ urows \in [RowIds -> [gap : Gaps \cup {"none"}, by : Submitters \cup {"none"},
                             status : RowStatuses, fresh : BOOLEAN, unit : BOOLEAN]]
    /\ asked \subseteq Gaps
    /\ inflight \in [Gaps -> 0 .. MaxSubmitted]
    /\ cached \in [RowIds -> RowStatuses \cup {"unread"}]
    /\ calls \in [Submitters -> [pc : CallPlaces, gap : Gaps \cup {"none"},
                              row : 0 .. MaxSubmitted, how : Deliveries]]
    /\ found \subseteq Gaps
    /\ made \in 0 .. TickCap
    /\ slips \in [Gaps -> 0 .. MaxSlips]

DispatchInit ==
    /\ urows = [r \in RowIds |-> NoSubmission]
    /\ asked = {}
    /\ inflight = [g \in Gaps |-> 0]
    /\ cached = [r \in RowIds |-> "unread"]
    /\ calls = [c \in Submitters |-> [pc |-> "idle", gap |-> "none", row |-> 0, how |-> "register"]]
    /\ found = {}
    /\ made = 0
    /\ slips = [g \in Gaps |-> 0]

Goes(c, pc) == calls' = [calls EXCEPT ![c].pc = pc]

\* Where a caller is once its script has exited: the sentinel goes on with its tick.
After(c) == IF c = Sentinel THEN "tick" ELSE "over"

LiveRow(r) == urows[r].status \in {"queued", "running"}

-----------------------------------------------------------------------------
(* The tick of the sentinel *)

\* The checks read the drift of the checkout, the tracked chains, the killed rows, the
\* running ones whose unit is not, and the open pull requests: any gaps may be found.
SentinelBegins(gaps) ==
    /\ calls[Sentinel].pc = "idle"
    /\ Goes(Sentinel, "tick")
    /\ found' = gaps
    /\ made' = 0
    /\ cached' = [r \in RowIds |-> "unread"]
    /\ UNCHANGED <<urows, asked, inflight, slips>>

\* The status of row r as the tick knows it: what it read first.
RowAsRead(r) == IF cached[r] = "unread" THEN urows[r].status ELSE cached[r]

\* Mutant of InFlight: a row that was picked up is not in flight any more.
InFlightQueued(g) == inflight[g] # 0 /\ RowAsRead(inflight[g]) = "queued"

InFlight(g) == inflight[g] # 0 /\ RowAsRead(inflight[g]) \in {"queued", "running"}

Reads(g) ==
    cached' = [r \in RowIds |-> IF r = inflight[g] THEN RowAsRead(r) ELSE cached[r]]

\* A gap that asks for money is sent to the owner, one in flight is skipped, and one over
\* the cap waits for the next tick.
PassesOver(g) ==
    /\ calls[Sentinel].pc = "tick" /\ g \in found
    /\ found' = found \ {g}
    /\ Reads(g) \/ UNCHANGED cached
    /\ UNCHANGED <<urows, asked, inflight, calls, made, slips>>

Dispatches(g) ==
    /\ calls[Sentinel].pc = "tick" /\ g \in found
    /\ ~InFlight(g)
    /\ made < TickCap
    /\ Reads(g)
    /\ found' = found \ {g}
    /\ calls' = [calls EXCEPT ![Sentinel] = [pc |-> "checking", gap |-> g, row |-> 0,
                                             how |-> "register"]]
    /\ UNCHANGED <<urows, asked, inflight, made, slips>>

SentinelEnds ==
    /\ calls[Sentinel].pc = "tick" /\ found = {}
    /\ Goes(Sentinel, "idle")
    /\ UNCHANGED <<urows, asked, inflight, cached, found, made, slips>>

-----------------------------------------------------------------------------
(* A call of dispatch-owner-task.sh *)

\* A call by hand about the target of g, in words of its own.
HandCalls(c, g, how) ==
    /\ calls[c].pc = "idle"
    /\ calls' = [calls EXCEPT ![c] = [pc |-> "checking", gap |-> g, row |-> 0, how |-> how]]
    /\ UNCHANGED <<urows, asked, inflight, cached, found, made, slips>>

\* The same text within six hours; the sentinel's of a gap is always the same.
SameText(c) == c = Sentinel /\ calls[c].gap \in asked

\* A queued or running row of the last four hours about the same target.
SameTarget(c) == \E r \in RowIds : LiveRow(r) /\ urows[r].fresh /\ urows[r].gap = calls[c].gap

ChecksDuplicates(c) ==
    /\ calls[c].pc = "checking"
    /\ Goes(c, IF SameText(c) \/ SameTarget(c) THEN After(c) ELSE "logging")
    /\ UNCHANGED <<urows, asked, inflight, cached, found, made, slips>>

LogsInstruction(c) ==
    /\ calls[c].pc = "logging"
    /\ asked' = IF c = Sentinel THEN asked \cup {calls[c].gap} ELSE asked
    /\ Goes(c, "submitting")
    /\ UNCHANGED <<urows, inflight, cached, found, made, slips>>

\* The governor takes the task as a queued row; or it refuses, and the call exits.
Submitted(c) ==
    /\ calls[c].pc = "submitting"
    /\ \/ \E r \in RowIds :
             /\ urows[r].status = "none" /\ \A q \in 1 .. r - 1 : urows[q].status # "none"
             /\ urows' = [urows EXCEPT ![r] = [gap |-> calls[c].gap, by |-> c, fresh |-> TRUE,
                                               status |-> "queued", unit |-> FALSE]]
             /\ calls' = [calls EXCEPT ![c].pc = "linking", ![c].row = r]
       \/ Goes(c, After(c)) /\ UNCHANGED urows
    /\ UNCHANGED <<asked, inflight, cached, found, made, slips>>

Slip(g) == slips[g] < MaxSlips /\ slips' = [slips EXCEPT ![g] = @ + 1]

\* The work item is logged and the identifiers are printed.
LogsWork(c) ==
    /\ calls[c].pc = "linking"
    /\ Goes(c, CASE c = Sentinel -> "recording"
                 [] c # Sentinel /\ calls[c].how = "headless" -> "headless"
                 [] OTHER -> "over")
    /\ UNCHANGED <<urows, asked, inflight, cached, found, made, slips>>

\* It fails, and with it the call, whose row is accepted: the sentinel sees a failed dispatch.
LogsWorkFails(c) ==
    /\ calls[c].pc = "linking"
    /\ Goes(c, After(c))
    /\ IF c = Sentinel THEN Slip(calls[c].gap) ELSE UNCHANGED slips
    /\ UNCHANGED <<urows, asked, inflight, cached, found, made>>

\* state_record, after the script's success.
Records ==
    /\ calls[Sentinel].pc = "recording"
    /\ inflight' = [inflight EXCEPT ![calls[Sentinel].gap] = calls[Sentinel].row]
    /\ made' = made + 1
    /\ Goes(Sentinel, "tick")
    /\ UNCHANGED <<urows, asked, cached, found, slips>>

\* The tick is killed with the call it makes.  While it records, the file may be left
\* truncated, and the next tick takes that for an empty one.
SentinelKilled ==
    /\ calls[Sentinel].pc \notin {"idle", "over"}
    /\ Goes(Sentinel, "idle")
    /\ \/ /\ calls[Sentinel].pc \in {"linking", "recording"}
          /\ Slip(calls[Sentinel].gap)
          /\ UNCHANGED inflight
       \/ /\ calls[Sentinel].pc = "recording"
          /\ \A g \in Gaps : slips[g] < MaxSlips
          /\ slips' = [g \in Gaps |-> IF g = calls[Sentinel].gap \/ inflight[g] # 0
                                         THEN slips[g] + 1 ELSE slips[g]]
          /\ inflight' = [g \in Gaps |-> 0]
       \/ /\ calls[Sentinel].pc \notin {"linking", "recording"}
          /\ UNCHANGED <<inflight, slips>>
    /\ found' = {}
    /\ UNCHANGED <<urows, asked, cached, made>>

-----------------------------------------------------------------------------
(* The governor, the headless run, and time *)

\* A tick of the governor takes a queued row, whoever submitted it, and starts its worker.
Spawns(r) ==
    /\ urows[r].status = "queued"
    /\ urows' = [urows EXCEPT ![r].status = "running", ![r].unit = TRUE]
    /\ UNCHANGED <<asked, inflight, cached, calls, found, made, slips>>

WorkerEnds(r) ==
    /\ urows[r].unit
    /\ urows' = [urows EXCEPT ![r].status = "ended", ![r].unit = FALSE]
    /\ UNCHANGED <<asked, inflight, cached, calls, found, made, slips>>

\* Whoever was told of the row in the interactive session marks its end.
RelayMarks(r) ==
    /\ LiveRow(r)
    /\ urows[r].by \in Hands /\ calls[urows[r].by].how = "relay"
    /\ urows' = [urows EXCEPT ![r].status = "ended"]
    /\ UNCHANGED <<asked, inflight, cached, calls, found, made, slips>>

\* claude -p returns: a commit is pushed or not, and the row is marked over what it says.
HeadlessMarks(c) ==
    /\ calls[c].pc = "headless"
    /\ urows' = [urows EXCEPT ![calls[c].row].status = "ended"]
    /\ Goes(c, "over")
    /\ UNCHANGED <<asked, inflight, cached, found, made, slips>>

\* The script ends before it marks the row: it is killed, or gh opens no pull request and
\* the search for its number in the empty answer fails under pipefail.
HeadlessEndsUnmarked(c) ==
    /\ calls[c].pc = "headless"
    /\ Goes(c, "over")
    /\ UNCHANGED <<urows, asked, inflight, cached, found, made, slips>>

\* Four hours after a submission its row counts no more as a duplicate.
RowAges(r) ==
    /\ urows[r].fresh
    /\ urows' = [urows EXCEPT ![r].fresh = FALSE]
    /\ UNCHANGED <<asked, inflight, cached, calls, found, made, slips>>

\* Six hours after it was logged, nor does a text, whose row is older than four by then.
TextAges(g) ==
    /\ g \in asked
    /\ \A r \in RowIds : urows[r].gap = g /\ urows[r].by = Sentinel => ~urows[r].fresh
    /\ calls[Sentinel].gap = g => calls[Sentinel].pc \in {"idle", "tick"}
    /\ asked' = asked \ {g}
    /\ UNCHANGED <<urows, inflight, cached, calls, found, made, slips>>

DispatchNext ==
    \/ \E gaps \in SUBSET Gaps \ {{}} : SentinelBegins(gaps)
    \/ \E g \in Gaps : PassesOver(g) \/ Dispatches(g) \/ TextAges(g)
    \/ SentinelEnds \/ Records \/ SentinelKilled
    \/ \E c \in Hands, g \in Gaps, how \in Deliveries : HandCalls(c, g, how)
    \/ \E c \in Submitters : ChecksDuplicates(c) \/ LogsInstruction(c) \/ Submitted(c)
                          \/ LogsWork(c) \/ LogsWorkFails(c)
                          \/ HeadlessMarks(c) \/ HeadlessEndsUnmarked(c)
    \/ \E r \in RowIds : Spawns(r) \/ WorkerEnds(r) \/ RelayMarks(r) \/ RowAges(r)

DispatchSpec == DispatchInit /\ [][DispatchNext]_duvars

-----------------------------------------------------------------------------
(* Properties *)

\* However long its rows live and however often the windows of the duplicate checks pass,
\* the sentinel has one live row per gap, and one more only for each call that was cut
\* short between the governor's acceptance and its own record.
OneLivePerGap ==
    \A g \in Gaps :
       Cardinality({r \in RowIds : LiveRow(r) /\ urows[r].gap = g /\ urows[r].by = Sentinel})
          <= 1 + slips[g]
=============================================================================
