--------------------------- MODULE PromptGateway ---------------------------
(***************************************************************************)
(* The prompt gateway: every call of gateway.py numbers its messages from  *)
(* a counter file, flags what the owner must see, keeps a window of the    *)
(* session's messages in a file, saves one record per message, and, when   *)
(* asked to dispatch, reads that record back to decide whether the owner   *)
(* must be asked first.  None of the files is locked.                      *)
(***************************************************************************)
EXTENDS Integers, FiniteSets, Sequences

CONSTANTS Calls,        \* the processes that run gateway.py
          Piped,        \* those that read several messages and dispatch none
          Texts,        \* the messages, by what the classifiers make of them
          MaxPiped,     \* messages of a piped call
          MaxSeconds,   \* how often the clock's second changes
          MinKept, MaxKept  \* bounds of the session's window

ASSUME PromptAssumption ==
    /\ IsFiniteSet(Calls) /\ Piped \subseteq Calls
    /\ MaxPiped \in Nat \ {0} /\ MaxSeconds \in Nat
    /\ MinKept \in Nat \ {0} /\ MaxKept \in Nat /\ MinKept <= MaxKept

\* A text is a document, or has a category of Layer 0, or is left to the
\* classifier of words ("general" are the categories its gate leaves out);
\* doubt is about its confidence or its intent, route what it asks for.
AllTexts ==
    [seen : {"document", "governance"}, doubt : {"none", "intent"},
     route : {"none"}]
    \cup [seen : {"document"}, doubt : {"none", "intent"},
          route : {"submit", "start"}]
    \cup [seen : {"task"}, doubt : {"none", "intent"}, route : {"submit"}]
    \cup [seen : {"status"}, doubt : {"none"}, route : {"none"}]
    \cup [seen : {"general"}, doubt : {"none", "low", "very low", "intent"},
          route : {"none", "submit"}]
    \cup [seen : {"words"}, doubt : {"none", "low", "very low", "intent"},
          route : {"none"}]

ASSUME TextAssumption == Texts \subseteq AllTexts

VARIABLES second,   \* the second of the clock
          counter,  \* the counter file; 0 also when it cannot be parsed
          window,   \* the file of the session's window: messages, oldest first
          records,  \* the saved records: id -> the message it is about
          flagged,  \* messages written to PENDING_OWNER_REVIEW.md
          handed,   \* messages handed to task-gateway.py, with how
          unsaved,  \* messages whose calls of the register or files failed
          call      \* each call's own variables

promptvars == <<second, counter, window, records, flagged, handed, unsaved,
                call>>

Messages == [by : Calls, nr : 1..MaxPiped, text : AllTexts,
             id : (0..MaxSeconds) \X (0..(MaxPiped * Cardinality(Calls)))]

Handings == {"submitted", "started"}

PromptTypeOK ==
    /\ second \in 0..MaxSeconds
    /\ counter \in 0..(MaxPiped * Cardinality(Calls))
    /\ window \in Seq(Messages) /\ Len(window) <= MaxKept
    /\ \A i \in DOMAIN records : records[i] \in Messages
    /\ flagged \subseteq Messages /\ unsaved \subseteq Messages
    /\ handed \subseteq Messages \X Handings
    /\ \A c \in Calls :
        /\ call[c].pc \in {"off", "idle", "counted", "numbered", "looked",
                           "loaded", "windowed", "recorded", "judged", "done"}
        /\ call[c].nr \in 0..MaxPiped
        /\ call[c].window \in Seq(Messages)

PromptInit ==
    /\ second = 0 /\ counter = 0 /\ window = <<>>
    /\ records = [i \in {} |-> 0]
    /\ flagged = {} /\ handed = {} /\ unsaved = {}
    /\ call = [c \in Calls |-> [pc |-> "off", nr |-> 0, counter |-> 0,
                                msg |-> 0, window |-> <<>>, loaded |-> FALSE]]

CallAt(c, pc) == call[c].pc = pc
CallGoes(c, pc) == call' = [call EXCEPT ![c].pc = pc]

\* What main reads: a piped or interactive call goes on, the others read once.
MessagesOf(c) == IF c \in Piped THEN MaxPiped ELSE 1

\* A call starts: the constructor reads the counter file once.
Starts(c) ==
    /\ CallAt(c, "off")
    /\ call' = [call EXCEPT ![c].pc = "idle", ![c].counter = counter]
    /\ UNCHANGED <<second, counter, window, records, flagged, handed, unsaved>>

\* A message arrives and is numbered by the time and the call's own counter;
\* the counter file is opened for writing, which leaves it empty.
Numbers(c) ==
    /\ CallAt(c, "idle") /\ call[c].nr < MessagesOf(c)
    /\ \E t \in Texts :
        LET n == call[c].counter + 1 IN
        call' = [call EXCEPT
                    ![c].pc = "counted", ![c].counter = n, ![c].nr = @ + 1,
                    ![c].msg = [by |-> c, nr |-> call[c].nr + 1, text |-> t,
                                id |-> <<second, n>>]]
    /\ counter' = 0
    /\ UNCHANGED <<second, window, records, flagged, handed, unsaved>>

WritesCounter(c) ==
    /\ CallAt(c, "counted")
    /\ counter' = call[c].counter
    /\ CallGoes(c, "numbered")
    /\ UNCHANGED <<second, window, records, flagged, handed, unsaved>>

\* What the owner must see: a directive of Layer 0, and what the classifier of
\* words is not sure of, but for the categories its gate leaves out.
MustBeSeen(t) ==
    \/ t.seen = "governance"
    \/ t.seen = "words" /\ t.doubt \in {"low", "very low"}

\* The message is classified; what must be seen is logged and appended to the
\* file of pending reviews.  Both are tried once, and their failure is not.
Classifies(c) ==
    LET m == call[c].msg IN
    /\ CallAt(c, "numbered") /\ m.text.seen # "document"
    /\ IF MustBeSeen(m.text)
       THEN \E written \in BOOLEAN :
            /\ flagged' = IF written THEN flagged \cup {m} ELSE flagged
            /\ unsaved' = IF written THEN unsaved ELSE unsaved \cup {m}
       ELSE UNCHANGED <<flagged, unsaved>>
    /\ CallGoes(c, "looked")
    /\ UNCHANGED <<second, counter, window, records, handed>>

\* A document is classified by its sections, with no confidence of its own:
\* neither Layer 0 nor the gate of confidence is asked.
ReadsDocument(c) ==
    /\ CallAt(c, "numbered") /\ call[c].msg.text.seen = "document"
    /\ CallGoes(c, "looked")
    /\ UNCHANGED <<second, counter, window, records, flagged, handed, unsaved>>

\* The window is read from its file, by a call's first message only.
LoadsWindow(c) ==
    /\ CallAt(c, "looked")
    /\ call' = [call EXCEPT ![c].pc = "loaded", ![c].loaded = TRUE,
                            ![c].window = IF call[c].loaded THEN @ ELSE window]
    /\ UNCHANGED <<second, counter, window, records, flagged, handed, unsaved>>

\* w without the positions R.
Without(w, R) ==
    LET kept == DOMAIN w \ R
        nth(k) == CHOOSE i \in kept : Cardinality({j \in kept : j <= i}) = k
    IN  [k \in 1..Cardinality(kept) |-> w[nth(k)]]

\* What prune may leave: messages below the threshold of relevance go, never
\* the newest (its recency alone reaches it) and never below the minimum; then
\* the oldest go, to the token budget and to the maximum.
Pruned(w) ==
    LET n == Len(w)
        scored == {Without(w, R) : R \in {S \in SUBSET (1..(n - 1)) :
                                            n - Cardinality(S) >= MinKept
                                            \/ S = {}}}
    IN  UNION {{SubSeq(s, k + 1, Len(s)) :
                   k \in {j \in 0..n : LET left == Len(s) - j IN
                               left <= MaxKept /\ (j = 0 \/ left >= MinKept)}} :
               s \in scored}

\* The message is added to the window in memory, which is pruned and saved.
SavesWindow(c) ==
    /\ CallAt(c, "loaded")
    /\ \E w \in Pruned(Append(call[c].window, call[c].msg)) :
        /\ window' = w
        /\ call' = [call EXCEPT ![c].pc = "windowed", ![c].window = w]
    /\ UNCHANGED <<second, counter, records, flagged, handed, unsaved>>

SavesRecord(c) ==
    LET m == call[c].msg IN
    /\ CallAt(c, "windowed")
    /\ records' = [i \in DOMAIN records \cup {m.id} |->
                    IF i = m.id THEN m ELSE records[i]]
    /\ CallGoes(c, IF c \in Piped THEN "idle" ELSE "recorded")
    /\ UNCHANGED <<second, counter, window, flagged, handed, unsaved>>

\* Mutant of NeedsClarification: an unclear intent goes through.
NeedsClarificationLow(id) == records[id].text.doubt = "very low"

\* The record found under the id needs the owner's clarification.
NeedsClarification(id) ==
    records[id].text.doubt \in {"very low", "intent"}

\* A call that dispatches asks query.py about its id when there is a route.
Judges(c) ==
    LET m == call[c].msg IN
    /\ CallAt(c, "recorded")
    /\ CallGoes(c, IF m.text.route # "none" /\ ~NeedsClarification(m.id)
               THEN "judged" ELSE "done")
    /\ UNCHANGED <<second, counter, window, records, flagged, handed, unsaved>>

\* task-gateway.py: submit, and start after it unless submit gave no
\* instruction id or reported a duplicate.
HandsOver(c) ==
    LET m == call[c].msg IN
    /\ CallAt(c, "judged")
    /\ \E how \in IF m.text.route = "start" THEN Handings ELSE {"submitted"} :
        handed' = handed \cup {<<m, how>>}
    /\ CallGoes(c, "done")
    /\ UNCHANGED <<second, counter, window, records, flagged, unsaved>>

Ticks ==
    /\ second < MaxSeconds
    /\ second' = second + 1
    /\ UNCHANGED <<counter, window, records, flagged, handed, unsaved, call>>

PromptNext ==
    \/ \E c \in Calls :
        \/ Starts(c) \/ Numbers(c) \/ WritesCounter(c) \/ Classifies(c)
        \/ ReadsDocument(c) \/ LoadsWindow(c) \/ SavesWindow(c)
        \/ SavesRecord(c) \/ Judges(c) \/ HandsOver(c)
    \/ Ticks

PromptSpec == PromptInit /\ [][PromptNext]_promptvars

-----------------------------------------------------------------------------
\* The messages whose handling has begun and whose id is written somewhere.
Numbered == {call[c].msg : c \in {d \in Calls : call[d].nr > 0}}
            \cup {records[i] : i \in DOMAIN records}

\* A message whose intent is not known, or of which the classifier is nearly
\* ignorant, is not handed to task-gateway.py, unless another call gave a
\* message of the same second the same number, whose record it was judged by.
UnclearIsAsked ==
    \A h \in handed :
        h[1].text.doubt \in {"very low", "intent"} =>
            \E m \in Numbered : m.id = h[1].id /\ m.by # h[1].by

\* Pruning never loses the message that was just received, and what a call
\* says last is in the file unless another call wrote the file since.
LastWordKept ==
    \A c \in Calls :
        CallAt(c, "windowed") =>
            \/ window # <<>> /\ window[Len(window)] = call[c].msg
            \/ \E d \in Calls \ {c} : call[d].window = window

\* A message the owner must see is in the file of pending reviews before its
\* handling ends, unless writing it failed.
SeenByOwner ==
    \A c \in Calls :
        call[c].pc \in {"looked", "loaded", "windowed", "recorded", "judged",
                        "done"} /\ MustBeSeen(call[c].msg.text)
            => call[c].msg \in flagged \cup unsaved

\* What gateway.py promises of a message: the owner is asked when it is not
\* clear, sees what must be seen, and the session keeps its last message.
PromptKept == UnclearIsAsked /\ LastWordKept /\ SeenByOwner
=============================================================================
